---------------------- MODULE LinuxFileTransactionProofs ----------------------
(***************************************************************************)
(* Theorems about LinuxFileTransaction, for every set of recoverers, every *)
(* clock and every number of faults.                                       *)
(***************************************************************************)
EXTENDS LinuxFileTransaction, TLAPS

-----------------------------------------------------------------------------
(* What one call leaves of a directory is a directory.                     *)

LEMMA NodeTypes ==
    ASSUME NEW n \in Node
    PROVE  /\ NoNode \in Node
           /\ \A k \in Trees : FreshNode(k) \in Node
           /\ \A t \in Nat : Touched(n, t) \in Node
           /\ [n EXCEPT !.whole = FALSE] \in Node
           /\ [n EXCEPT !.final = TRUE] \in Node
<1>1. NoNode \in Node BY DEF Node, NoNode, Trees
<1>2. ASSUME NEW k \in Trees PROVE FreshNode(k) \in Node
  BY DEF Node, NoNode, FreshNode, Trees
<1>3. ASSUME NEW t \in Nat PROVE Touched(n, t) \in Node
  BY DEF Node, Touched
<1>4. [n EXCEPT !.whole = FALSE] \in Node BY DEF Node
<1>5. [n EXCEPT !.final = TRUE] \in Node BY DEF Node
<1> QED BY <1>1, <1>2, <1>3, <1>4, <1>5

LEMMA NoNodeType == NoNode \in Node
BY DEF Node, NoNode, Trees

LEMMA FileTypes == NoFile \in File /\ TornFile \in File
BY NoNodeType DEF File, NoFile, TornFile, JournalStates

LEMMA RenamedType ==
    ASSUME NEW d \in Directory, NEW from \in Leaves, NEW to \in Leaves, NEW t \in Nat
    PROVE  Renamed(d, from, to, t) \in Directory
<1>1. d.node[from] \in Node BY DEF Directory
<1>2. Touched(d.node[from], t) \in Node BY <1>1, NodeTypes
<1> QED BY <1>2, NoNodeType DEF Renamed, Directory

LEMMA LeafTypes ==
    ASSUME NEW d \in Directory, NEW leaf \in Leaves, NEW t \in Nat
    PROVE  /\ Gutted(d, leaf, t) \in Directory
           /\ Removed(d, leaf) \in Directory
           /\ Finalized(d, leaf, t) \in Directory
<1>1. d.node[leaf] \in Node BY DEF Directory
<1>2. Touched([d.node[leaf] EXCEPT !.whole = FALSE], t) \in Node BY <1>1, NodeTypes
<1>3. Touched([d.node[leaf] EXCEPT !.final = TRUE], t) \in Node BY <1>1, NodeTypes
<1>4. ASSUME NEW n \in Node PROVE [d EXCEPT !.node[leaf] = n] \in Directory
  BY DEF Directory
<1> QED BY <1>2, <1>3, <1>4, NoNodeType DEF Gutted, Removed, Finalized

-----------------------------------------------------------------------------
(* How a step may move a process.                                          *)

LEMMA GotoType ==
    ASSUME proc \in [Procs -> Process], NEW p \in Procs, NEW pc \in Pcs, Goto(p, pc)
    PROVE  proc' \in [Procs -> Process]
BY DEF Goto, Process, Steps

LEMMA IntoType ==
    ASSUME proc \in [Procs -> Process], NEW p \in Procs, NEW s \in Steps, Into(p, s)
    PROVE  proc' \in [Procs -> Process]
BY DEF Into, Process

LEMMA StartType ==
    ASSUME NEW pc \in Pcs
    PROVE  StartOf(pc) \in Process
BY FileTypes DEF StartOf, Process, Steps

LEMMA ReturnType ==
    ASSUME proc \in [Procs -> Process], NEW r \in Procs, NEW pc \in Pcs, Return(r, pc)
    PROVE  proc' \in [Procs -> Process]
BY StartType DEF Return

LEMMA ReleaseType ==
    ASSUME flock \in Procs \cup {NoProc}, rflock \in Procs \cup {NoProc},
           NEW p \in Procs, Release(p)
    PROVE  flock' \in Procs \cup {NoProc} /\ rflock' \in Procs \cup {NoProc}
BY DEF Release

LEMMA ChangeType ==
    ASSUME disk \subseteq Directory, NEW d \in Directory, Change(d)
    PROVE  dir' \in Directory /\ disk' \subseteq Directory
BY DEF Change

LEMMA SyncType ==
    ASSUME dir \in Directory, SyncLinuxDirectory
    PROVE  dir' \in Directory /\ disk' \subseteq Directory
BY DEF SyncLinuxDirectory

(* The journal a process writes next has the shape of a journal.           *)
LEMMA JournalType ==
    ASSUME NEW j \in File, NEW n \in Node, NEW s \in JournalStates
    PROVE  /\ [j EXCEPT !.state = s] \in File
           /\ [j EXCEPT !.stage = n] \in File
           /\ [j EXCEPT !.target = n] \in File
           /\ [j EXCEPT !.target = n, !.state = s] \in File
           /\ [j EXCEPT !.stage = n, !.state = s] \in File
BY DEF File

LEMMA DirectoryTypes ==
    ASSUME NEW d \in Directory, NEW f \in File, NEW n \in Node
    PROVE  /\ [d EXCEPT !.next = f] \in Directory
           /\ [d EXCEPT !.journal = d.next, !.next = f] \in Directory
           /\ [d EXCEPT !.journal = f] \in Directory
           /\ \A l \in LockFiles : [d EXCEPT !.lock = l] \in Directory
           /\ \A b \in BOOLEAN : [d EXCEPT !.rlock = b] \in Directory
           /\ [d EXCEPT !.node["target"] = n] \in Directory
<1>1. [d EXCEPT !.next = f] \in Directory BY DEF Directory
<1>2. [d EXCEPT !.journal = d.next, !.next = f] \in Directory BY DEF Directory
<1>3. [d EXCEPT !.journal = f] \in Directory BY DEF Directory
<1>4. \A l \in LockFiles : [d EXCEPT !.lock = l] \in Directory BY DEF Directory
<1>5. \A b \in BOOLEAN : [d EXCEPT !.rlock = b] \in Directory BY DEF Directory
<1>6. [d EXCEPT !.node["target"] = n] \in Directory BY DEF Directory, Leaves
<1> QED BY <1>1, <1>2, <1>3, <1>4, <1>5, <1>6

-----------------------------------------------------------------------------
(* Type correctness, one lemma for each group of actions.                  *)

LEMMA StoreTypes ==
    ASSUME TypeOK, NEW p \in Procs, StoreStep(p)
    PROVE  TypeOK'
<1> USE DEF TypeOK
<1>1. proc[p] \in Process OBVIOUS
<1>2. proc[p].j \in File BY <1>1 DEF Process
<1>3. CASE PersistCreate(p)
  <2>1. [dir EXCEPT !.next = TornFile] \in Directory
    BY FileTypes, DirectoryTypes, NoNodeType
  <2>2. dir' \in Directory /\ disk' \subseteq Directory
    BY <1>3, <2>1, ChangeType DEF PersistCreate
  <2>3. proc' \in [Procs -> Process] BY <1>3, IntoType DEF PersistCreate, Steps
  <2> QED BY <1>3, <2>2, <2>3 DEF PersistCreate, SameLocks, Environment
<1>4. CASE PersistWrite(p)
  <2> DEFINE Written(d) == IF d.next.state = "none" THEN d
                           ELSE [d EXCEPT !.next = proc[p].j]
  <2>1. \A d \in Directory : Written(d) \in Directory
    BY <1>2, DirectoryTypes, NoNodeType
  <2>2. dir' = Written(dir) /\ disk' = {Written(d) : d \in disk}
    BY <1>4 DEF PersistWrite
  <2> HIDE DEF Written
  <2>3. dir' \in Directory /\ disk' \subseteq Directory BY <2>1, <2>2
  <2>4. proc' \in [Procs -> Process] BY <1>4, IntoType DEF PersistWrite, Steps
  <2> QED BY <1>4, <2>3, <2>4 DEF PersistWrite, SameLocks, Environment
<1>5. CASE PersistReplace(p)
  <2>1. [dir EXCEPT !.journal = dir.next, !.next = NoFile] \in Directory
    BY FileTypes, DirectoryTypes, NoNodeType
  <2>2. dir' \in Directory /\ disk' \subseteq Directory
    BY <1>5, <2>1, ChangeType DEF PersistReplace
  <2>3. proc' \in [Procs -> Process] BY <1>5, IntoType DEF PersistReplace, Steps
  <2> QED BY <1>5, <2>2, <2>3 DEF PersistReplace, SameLocks, Environment
<1>6. CASE PersistSync(p)
  <2>1. dir' \in Directory /\ disk' \subseteq Directory
    BY <1>6, SyncType DEF PersistSync
  <2>2. AfterPersist(proc[p].pc) \in Pcs
    BY <1>6 DEF PersistSync, PersistPcs, AfterPersist, Pcs, OwnerPcs, MutatingPcs
  <2>3. (IF proc[p].pc = "verifiedPersist" THEN "completed" ELSE proc[p].j.state)
            \in JournalStates \cup {"none", "torn"}
    BY <1>2 DEF File, JournalStates
  <2>4. proc' \in [Procs -> Process]
    BY <1>1, <1>2, <1>6, <2>2, <2>3 DEF PersistSync, Process, File, Steps
  <2> QED BY <1>6, <2>1, <2>4 DEF PersistSync, SameLocks, Environment
<1>7. CASE UnlinkJournal(p)
  <2>1. [dir EXCEPT !.journal = NoFile] \in Directory
    BY FileTypes, DirectoryTypes, NoNodeType
  <2>2. dir' \in Directory /\ disk' \subseteq Directory
    BY <1>7, <2>1, ChangeType DEF UnlinkJournal
  <2>3. proc' \in [Procs -> Process]
    BY <1>7, GotoType DEF UnlinkJournal, Pcs, MutatingPcs
  <2> QED BY <1>7, <2>2, <2>3 DEF UnlinkJournal, SameLocks, Environment
<1>8. CASE UnlinkLock(p)
  <2>1. [dir EXCEPT !.lock = "none"] \in Directory
    BY FileTypes, DirectoryTypes, NoNodeType DEF LockFiles
  <2>2. dir' \in Directory /\ disk' \subseteq Directory
    BY <1>8, <2>1, ChangeType DEF UnlinkLock
  <2>3. proc' \in [Procs -> Process]
    BY <1>8, GotoType DEF UnlinkLock, Pcs, MutatingPcs
  <2> QED BY <1>8, <2>2, <2>3 DEF UnlinkLock, SameLocks, Environment
<1>9. CASE SyncRemoved(p)
  <2>1. dir' \in Directory /\ disk' \subseteq Directory
    BY <1>9, SyncType DEF SyncRemoved
  <2>2. {"unlinkRlock", "done", "cancelled"} \subseteq Pcs
    BY DEF Pcs, RecoverPcs, OwnerPcs
  <2>3. proc' \in [Procs -> Process]
    BY <1>9, <2>2, GotoType DEF SyncRemoved
  <2>4. flock' \in Procs \cup {NoProc} /\ rflock' \in Procs \cup {NoProc}
    BY <1>9, ReleaseType DEF SyncRemoved, SameLocks
  <2> QED BY <1>9, <2>1, <2>3, <2>4 DEF SyncRemoved, Environment
<1> QED BY <1>3, <1>4, <1>5, <1>6, <1>7, <1>8, <1>9 DEF StoreStep

LEMMA MoveType ==
    ASSUME TypeOK, NEW p \in Procs, NEW from \in Leaves, NEW to \in Leaves,
           Move(p, from, to)
    PROVE  TypeOK'
<1> USE DEF TypeOK
<1>1. PICK tick \in Ticks : Change(Renamed(dir, from, to, tick)) BY DEF Move
<1>2. dir' \in Directory /\ disk' \subseteq Directory
  BY <1>1, TickAssumption, RenamedType, ChangeType
<1>3. proc' \in [Procs -> Process] BY DEF Move, Process, Steps
<1> QED BY <1>2, <1>3 DEF Move, SameLocks, Environment

LEMMA MoveSyncedType ==
    ASSUME TypeOK, NEW p \in Procs, NEW pc \in Pcs, NEW j \in File,
           MoveSynced(p, pc, j)
    PROVE  TypeOK'
<1> USE DEF TypeOK
<1>1. dir' \in Directory /\ disk' \subseteq Directory BY SyncType DEF MoveSynced
<1>2. proc' \in [Procs -> Process] BY DEF MoveSynced, Process, Steps
<1> QED BY <1>1, <1>2 DEF MoveSynced, SameLocks, Environment

LEMMA SwapTypes ==
    ASSUME TypeOK, NEW p \in Procs, SwapStep(p)
    PROVE  TypeOK'
<1> USE DEF TypeOK
<1>1. proc[p].j \in File BY DEF Process
<1>2. \A leaf \in Leaves : dir.node[leaf] \in Node BY DEF Directory
<1>3. {"stagePersist", "backupPersist", "activatePersist", "unlinkJournal"} \subseteq Pcs
  BY DEF Pcs, PersistPcs, MutatingPcs
<1>4. CASE StageSynced(p)
  <2>1. [proc[p].j EXCEPT !.stage = dir.node["prepared"]] \in File
    BY <1>1, <1>2, JournalType DEF Leaves, JournalStates
  <2> QED BY <1>3, <1>4, <2>1, MoveSyncedType DEF StageSynced
<1>5. CASE BackupSynced(p)
  <2>1. [proc[p].j EXCEPT !.target = dir.node["backup"], !.state = "backupCreated"] \in File
    BY <1>1, <1>2, JournalType DEF Leaves, JournalStates
  <2> QED BY <1>3, <1>5, <2>1, MoveSyncedType DEF BackupSynced
<1>6. CASE ActivateSynced(p)
  <2>1. [proc[p].j EXCEPT !.stage = dir.node["target"], !.state = "targetActivated"] \in File
    BY <1>1, <1>2, JournalType DEF Leaves, JournalStates
  <2> QED BY <1>3, <1>6, <2>1, MoveSyncedType DEF ActivateSynced
<1>7. CASE GutBackup(p)
  <2>1. PICK tick \in Ticks : Change(Gutted(dir, "backup", tick))
    BY <1>7 DEF GutBackup
  <2>2. dir' \in Directory /\ disk' \subseteq Directory
    BY <2>1, TickAssumption, LeafTypes, ChangeType DEF Leaves
  <2>3. proc' \in [Procs -> Process] BY <1>7, IntoType DEF GutBackup, Steps
  <2> QED BY <1>7, <2>2, <2>3 DEF GutBackup, SameLocks, Environment
<1>8. CASE UnlinkBackup(p)
  <2>1. Removed(dir, "backup") \in Directory BY LeafTypes DEF Leaves
  <2>2. dir' \in Directory /\ disk' \subseteq Directory
    BY <1>8, <2>1, ChangeType DEF UnlinkBackup
  <2>3. proc' \in [Procs -> Process] BY <1>8, IntoType DEF UnlinkBackup, Steps
  <2> QED BY <1>8, <2>2, <2>3 DEF UnlinkBackup, SameLocks, Environment
<1>9. CASE BackupRemoved(p)
  <2>1. dir' \in Directory /\ disk' \subseteq Directory
    BY <1>9, SyncType DEF BackupRemoved
  <2>2. proc' \in [Procs -> Process] BY <1>3, <1>9, GotoType DEF BackupRemoved
  <2> QED BY <1>9, <2>1, <2>2 DEF BackupRemoved, SameLocks, Environment
<1> QED BY <1>4, <1>5, <1>6, <1>7, <1>8, <1>9 DEF SwapStep

LEMMA FinalizeType ==
    ASSUME TypeOK, NEW p \in Procs, FinalizeRoot(p)
    PROVE  TypeOK'
<1> USE DEF TypeOK
<1>1. PICK tick \in Ticks : Change(Finalized(dir, "target", tick)) BY DEF FinalizeRoot
<1>2. dir' \in Directory /\ disk' \subseteq Directory
  BY <1>1, TickAssumption, LeafTypes, ChangeType DEF Leaves
<1>3. proc' \in [Procs -> Process] BY IntoType DEF FinalizeRoot, Steps
<1> QED BY <1>2, <1>3 DEF FinalizeRoot, SameLocks, Environment

LEMMA OwnerThrowsTypes ==
    ASSUME TypeOK, OwnerThrows, faults' \in 0..MaxFaults
    PROVE  TypeOK'
<1> USE DEF TypeOK
<1>1. Owner \in Procs BY DEF Procs
<1>2. [dir EXCEPT !.lock = "none"] \in Directory
  BY FileTypes, DirectoryTypes, NoNodeType DEF LockFiles
<1>3. dir' \in Directory /\ disk' \subseteq Directory
  BY <1>2, ChangeType DEF OwnerThrows, SameDirectory
<1>4. proc' \in [Procs -> Process] BY <1>1, GotoType DEF OwnerThrows, Pcs, OwnerPcs
<1>5. flock' \in Procs \cup {NoProc} /\ rflock' \in Procs \cup {NoProc}
  BY <1>1, ReleaseType DEF OwnerThrows
<1> QED BY <1>3, <1>4, <1>5 DEF OwnerThrows

LEMMA OwnerTypes ==
    ASSUME TypeOK, OwnerNext
    PROVE  TypeOK'
<1> USE DEF TypeOK
<1>o. Owner \in Procs BY DEF Procs
<1>l. {"target", "stage", "prepared", "backup"} \subseteq Leaves BY DEF Leaves
<1>p. /\ OwnerPcs \subseteq Pcs
      /\ {"stage", "unlinkJournal", "preparePersist", "completePersist"} \subseteq Pcs
  BY DEF Pcs, MutatingPcs, PersistPcs
<1>q. proc[Owner] \in Process BY <1>o
<1>1. CASE FlockLock
  BY <1>1, <1>o, <1>p, GotoType DEF FlockLock, OwnerPcs, SameDirectory, Environment
<1>2. CASE CreateLock
  <2>1. [dir EXCEPT !.lock = "torn"] \in Directory
    BY FileTypes, DirectoryTypes, NoNodeType DEF LockFiles
  <2>2. dir' \in Directory /\ disk' \subseteq Directory
    BY <1>2, <2>1, ChangeType DEF CreateLock
  <2>3. proc' \in [Procs -> Process]
    BY <1>2, <1>o, <1>p, GotoType DEF CreateLock, OwnerPcs
  <2> QED BY <1>2, <2>2, <2>3 DEF CreateLock, SameLocks, Environment
<1>3. CASE WriteLock
  <2> DEFINE Written(d) == IF d.lock = "torn" THEN [d EXCEPT !.lock = "ours"] ELSE d
  <2>1. \A d \in Directory : Written(d) \in Directory
    BY FileTypes, DirectoryTypes, NoNodeType DEF LockFiles
  <2>2. dir' = Written(dir) /\ disk' = {Written(d) : d \in disk}
    BY <1>3 DEF WriteLock
  <2> HIDE DEF Written
  <2>3. dir' \in Directory /\ disk' \subseteq Directory BY <2>1, <2>2
  <2>4. proc' \in [Procs -> Process]
    BY <1>3, <1>o, <1>p, GotoType DEF WriteLock, OwnerPcs
  <2> QED BY <1>3, <2>3, <2>4 DEF WriteLock, SameLocks, Environment
<1>4. CASE SyncLock
  <2>1. dir' \in Directory /\ disk' \subseteq Directory BY <1>4, SyncType DEF SyncLock
  <2>2. proc' \in [Procs -> Process]
    BY <1>4, <1>o, <1>p, GotoType DEF SyncLock, OwnerPcs
  <2> QED BY <1>4, <2>1, <2>2 DEF SyncLock, SameLocks, Environment
<1>5. CASE ExecuteStage BY <1>5, <1>o, <1>l, MoveType DEF ExecuteStage
<1>6. CASE ExecuteBackup BY <1>6, <1>o, <1>l, MoveType DEF ExecuteBackup
<1>7. CASE ExecuteActivate BY <1>7, <1>o, <1>l, MoveType DEF ExecuteActivate
<1>8. CASE ExecuteFinalize BY <1>8, <1>o, FinalizeType DEF ExecuteFinalize
<1>9. CASE ExecuteVerified
  <2>1. dir' \in Directory /\ disk' \subseteq Directory
    BY <1>9, SyncType DEF ExecuteVerified
  <2>2. proc' \in [Procs -> Process]
    BY <1>9, <1>o, <1>p, <1>q DEF ExecuteVerified, Process, File, JournalStates, Steps
  <2> QED BY <1>9, <2>1, <2>2 DEF ExecuteVerified, SameLocks, Environment
<1>10. CASE OwnerRefuses BY <1>10, OwnerThrowsTypes DEF OwnerRefuses
<1>11. CASE Construct
  <2>1. dir.node["target"] \in Node /\ dir.node["stage"] \in Node
    BY <1>l DEF Directory
  <2>2. [NoFile EXCEPT !.target = dir.node["target"], !.stage = dir.node["stage"]] \in File
    BY <2>1, FileTypes DEF File
  <2>3. proc' \in [Procs -> Process]
    BY <1>11, <1>o, <1>l, <1>p, <1>q, <2>2 DEF Construct, Process, OwnerPcs
  <2> QED BY <1>11, <2>3 DEF Construct, SameDirectory, SameLocks, Environment
<1>12. CASE PrepareDurableJournal
  <2>1. proc' \in [Procs -> Process]
    BY <1>12, <1>o, <1>p, <1>q DEF PrepareDurableJournal, Process, File, JournalStates
  <2> QED BY <1>12, <2>1 DEF PrepareDurableJournal, SameDirectory, SameLocks, Environment
<1>13. CASE CancelPrepared
  <2>1. proc' \in [Procs -> Process]
    BY <1>13, <1>o, <1>p, GotoType DEF CancelPrepared, OwnerPcs
  <2>2. flock' \in Procs \cup {NoProc} /\ rflock' \in Procs \cup {NoProc}
    BY <1>13, <1>o, ReleaseType DEF CancelPrepared, SameLocks
  <2> QED BY <1>13, <2>1, <2>2 DEF CancelPrepared, SameDirectory, Environment
<1>14. CASE BeginExecute
  BY <1>14, <1>o, <1>p, GotoType DEF BeginExecute, SameDirectory, SameLocks, Environment
<1>15. CASE OwnerExit
  <2>1. proc' \in [Procs -> Process]
    BY <1>15, <1>o, <1>p, GotoType DEF OwnerExit, OwnerPcs
  <2>2. flock' \in Procs \cup {NoProc} /\ rflock' \in Procs \cup {NoProc}
    BY <1>15, <1>o, ReleaseType DEF OwnerExit
  <2> QED BY <1>15, <2>1, <2>2 DEF OwnerExit, SameDirectory, Environment
<1>16. CASE ProcessStep(Owner)
  BY <1>16, <1>o, StoreTypes, SwapTypes DEF ProcessStep
<1> QED BY <1>1, <1>2, <1>3, <1>4, <1>5, <1>6, <1>7, <1>8, <1>9, <1>10, <1>11,
           <1>12, <1>13, <1>14, <1>15, <1>16 DEF OwnerNext, OwnerStep

LEMMA RecoverTypes ==
    ASSUME TypeOK, NEW r \in Recoverers, RecoverStep(r)
    PROVE  TypeOK'
<1> USE DEF TypeOK
<1>r. r \in Procs BY DEF Procs
<1>l. {"target", "stage", "prepared", "backup"} \subseteq Leaves BY DEF Leaves
<1>p. /\ RecoverPcs \subseteq Pcs
      /\ Outcomes \subseteq RecoverPcs
      /\ {"stage", "backup", "activate", "finalize", "verifiedPersist",
          "unlinkJournal"} \subseteq Pcs
  BY DEF Pcs, RecoverPcs, MutatingPcs, PersistPcs
<1>o. {"recovered", "nothing", "live", "manual"} \subseteq Pcs
  BY <1>p DEF Outcomes
<1>q. proc[r] \in Process BY <1>r
<1>1. CASE RecoverNext(r)
  <2>1. proc' \in [Procs -> Process]
    BY <1>1, <1>r, <1>p, <1>o, GotoType, ReturnType DEF RecoverNext, RecoverPcs
  <2>2. flock' \in Procs \cup {NoProc} /\ rflock' \in Procs \cup {NoProc}
    BY <1>1, <1>r, ReleaseType DEF RecoverNext, Return, SameLocks
  <2> QED BY <1>1, <2>1, <2>2 DEF RecoverNext, SameDirectory, Environment
<1>2. CASE RecoverLoad(r)
  <2>1. dir.journal \in File BY DEF Directory
  <2>2. ASSUME proc' = [proc EXCEPT ![r].pc = "lockOpen", ![r].j = dir.journal]
        PROVE  proc' \in [Procs -> Process]
    BY <1>r, <1>p, <1>q, <2>1, <2>2 DEF Process, RecoverPcs
  <2>3. proc' \in [Procs -> Process]
    BY <1>2, <2>2, <1>r, <1>p, <1>o, GotoType, ReturnType DEF RecoverLoad, RecoverPcs
  <2>4. flock' \in Procs \cup {NoProc} /\ rflock' \in Procs \cup {NoProc}
    BY <1>2, <1>r, ReleaseType DEF RecoverLoad, Return, SameLocks
  <2> QED BY <1>2, <2>3, <2>4 DEF RecoverLoad, SameDirectory, Environment
<1>3. CASE OrphanOpen(r) \/ LockOpen(r)
  <2>1. proc' \in [Procs -> Process]
    BY <1>3, <1>r, <1>p, <1>o, GotoType, ReturnType
    DEF OrphanOpen, LockOpen, OpenForeignLock, RecoverPcs
  <2>2. flock' \in Procs \cup {NoProc} /\ rflock' \in Procs \cup {NoProc}
    BY <1>3, <1>r, ReleaseType DEF OrphanOpen, LockOpen, OpenForeignLock, Return, SameLocks
  <2> QED BY <1>3, <2>1, <2>2 DEF OrphanOpen, LockOpen, SameDirectory, Environment
<1>4. CASE OrphanFlock(r) \/ LockFlock(r)
  <2>1. proc' \in [Procs -> Process]
    BY <1>4, <1>r, <1>p, <1>o, GotoType, ReturnType
    DEF OrphanFlock, LockFlock, TryFlock, RecoverPcs
  <2>2. flock' \in Procs \cup {NoProc} /\ rflock' \in Procs \cup {NoProc}
    BY <1>4, <1>r, ReleaseType DEF OrphanFlock, LockFlock, TryFlock, Return
  <2> QED BY <1>4, <2>1, <2>2
          DEF OrphanFlock, LockFlock, TryFlock, SameDirectory, Environment
<1>5. CASE OrphanCheck(r)
  <2>1. [dir EXCEPT !.lock = "none"] \in Directory
    BY FileTypes, DirectoryTypes, NoNodeType DEF LockFiles
  <2>2. dir' \in Directory /\ disk' \subseteq Directory
    BY <1>5, <2>1, ChangeType DEF OrphanCheck, SameDirectory
  <2>3. proc' \in [Procs -> Process]
    BY <1>5, <1>r, <1>p, <1>o, GotoType, ReturnType DEF OrphanCheck, RecoverPcs
  <2>4. flock' \in Procs \cup {NoProc} /\ rflock' \in Procs \cup {NoProc}
    BY <1>5, <1>r, ReleaseType DEF OrphanCheck, Return
  <2> QED BY <1>5, <2>2, <2>3, <2>4 DEF OrphanCheck, Environment
<1>6. CASE OrphanSync(r) \/ SyncRecovered(r)
  <2>1. dir' \in Directory /\ disk' \subseteq Directory
    BY <1>6, SyncType DEF OrphanSync, SyncRecovered
  <2>2. proc' \in [Procs -> Process]
    BY <1>6, <1>r, <1>o, ReturnType DEF OrphanSync, SyncRecovered
  <2>3. flock' \in Procs \cup {NoProc} /\ rflock' \in Procs \cup {NoProc}
    BY <1>6, <1>r, ReleaseType DEF OrphanSync, SyncRecovered, Return
  <2> QED BY <1>6, <2>1, <2>2, <2>3 DEF OrphanSync, SyncRecovered, Environment
<1>7. CASE RecoverCheck(r)
  <2>1. [dir EXCEPT !.rlock = TRUE] \in Directory
    BY FileTypes, DirectoryTypes, NoNodeType
  <2>2. dir' \in Directory /\ disk' \subseteq Directory
    BY <1>7, <2>1, ChangeType DEF RecoverCheck, SameDirectory
  <2>3. proc' \in [Procs -> Process]
    BY <1>7, <1>r, <1>p, <1>o, GotoType, ReturnType DEF RecoverCheck, RecoverPcs
  <2>4. flock' \in Procs \cup {NoProc} /\ rflock' \in Procs \cup {NoProc}
    BY <1>7, <1>r, ReleaseType DEF RecoverCheck, Return
  <2> QED BY <1>7, <2>2, <2>3, <2>4 DEF RecoverCheck, Environment
<1>8. CASE RecoverObserve(r)
  <2>1. FirstRepair(PresentLeaves(dir)) \in Pcs BY <1>p DEF FirstRepair
  <2>2. PresentLeaves(dir) \subseteq Leaves BY DEF PresentLeaves
  <2>3. proc' \in [Procs -> Process]
    BY <1>8, <1>r, <1>q, <2>1, <2>2 DEF RecoverObserve, Process
  <2> QED BY <1>8, <2>3 DEF RecoverObserve, SameDirectory, SameLocks, Environment
<1>9. CASE RecoverStage(r) BY <1>9, <1>r, <1>l, MoveType DEF RecoverStage
<1>10. CASE RecoverBackup(r) BY <1>10, <1>r, <1>l, MoveType DEF RecoverBackup
<1>11. CASE RecoverActivate(r) BY <1>11, <1>r, <1>l, MoveType DEF RecoverActivate
<1>12. CASE RecoverFinalize(r) BY <1>12, <1>r, FinalizeType DEF RecoverFinalize
<1>13. CASE RecoverVerified(r)
  <2>1. dir' \in Directory /\ disk' \subseteq Directory
    BY <1>13, SyncType DEF RecoverVerified, SameDirectory
  <2>2. ASSUME proc' = [proc EXCEPT ![r].pc = "verifiedPersist", ![r].step = "begin",
                                    ![r].j.state = "targetActivated"]
        PROVE  proc' \in [Procs -> Process]
    BY <1>r, <1>p, <1>q, <2>2 DEF Process, File, JournalStates, Steps
  <2>3. proc' \in [Procs -> Process]
    BY <1>13, <1>r, <1>p, <2>2, GotoType DEF RecoverVerified
  <2> QED BY <1>13, <2>1, <2>3 DEF RecoverVerified, SameLocks, Environment
<1>14. CASE RecoverUnlinkRlock(r)
  <2>1. [dir EXCEPT !.rlock = FALSE] \in Directory
    BY FileTypes, DirectoryTypes, NoNodeType
  <2>2. dir' \in Directory /\ disk' \subseteq Directory
    BY <1>14, <2>1, ChangeType DEF RecoverUnlinkRlock
  <2>3. proc' \in [Procs -> Process]
    BY <1>14, <1>r, <1>p, GotoType DEF RecoverUnlinkRlock, RecoverPcs
  <2> QED BY <1>14, <2>2, <2>3 DEF RecoverUnlinkRlock, SameLocks, Environment
<1>15. CASE RecoverRefuses(r)
  <2>1. proc' \in [Procs -> Process]
    BY <1>15, <1>r, <1>o, ReturnType DEF RecoverRefuses
  <2>2. flock' \in Procs \cup {NoProc} /\ rflock' \in Procs \cup {NoProc}
    BY <1>15, <1>r, ReleaseType DEF RecoverRefuses, Return
  <2> QED BY <1>15, <2>1, <2>2 DEF RecoverRefuses, SameDirectory, Environment
<1> QED BY <1>1, <1>2, <1>3, <1>4, <1>5, <1>6, <1>7, <1>8, <1>9, <1>10, <1>11,
           <1>12, <1>13, <1>14, <1>15 DEF RecoverStep

LEMMA FaultTypes ==
    ASSUME TypeOK,
           \/ CrashOwner \/ OwnerError \/ PowerLoss
           \/ \E r \in Recoverers : CrashRecoverer(r) \/ RecoverError(r)
    PROVE  TypeOK'
<1> USE DEF TypeOK
<1>o. Owner \in Procs /\ Recoverers \subseteq Procs BY DEF Procs
<1>p. {"idle", "manual", "dead"} \subseteq Pcs BY DEF Pcs, RecoverPcs, Outcomes, OwnerPcs
<1>f. Fault => faults' \in 0..MaxFaults BY FaultAssumption DEF Fault
<1>1. CASE CrashOwner
  <2>1. proc' \in [Procs -> Process] BY <1>1, <1>o, <1>p, StartType DEF CrashOwner
  <2>2. flock' \in Procs \cup {NoProc} /\ rflock' \in Procs \cup {NoProc}
    BY <1>1, <1>o, ReleaseType DEF CrashOwner
  <2> QED BY <1>1, <1>f, <2>1, <2>2 DEF CrashOwner, SameDirectory
<1>2. CASE OwnerError BY <1>2, <1>f, OwnerThrowsTypes DEF OwnerError
<1>3. CASE PowerLoss
  <2>1. proc' \in [Procs -> Process] BY <1>3, <1>p, StartType DEF PowerLoss
  <2>2. dir' \in Directory /\ disk' \subseteq Directory BY <1>3 DEF PowerLoss
  <2> QED BY <1>3, <1>f, <2>1, <2>2 DEF PowerLoss
<1>4. ASSUME NEW r \in Recoverers, CrashRecoverer(r) \/ RecoverError(r)
      PROVE  TypeOK'
  <2>1. proc' \in [Procs -> Process]
    BY <1>4, <1>o, <1>p, ReturnType DEF CrashRecoverer, RecoverError
  <2>2. flock' \in Procs \cup {NoProc} /\ rflock' \in Procs \cup {NoProc}
    BY <1>4, <1>o, ReleaseType DEF CrashRecoverer, RecoverError, Return
  <2> QED BY <1>4, <1>f, <2>1, <2>2 DEF CrashRecoverer, RecoverError, SameDirectory
<1> QED BY <1>1, <1>2, <1>3, <1>4

LEMMA ForeignTypes ==
    ASSUME TypeOK, ForeignLock \/ ForeignInstall \/ ForeignUnlock
    PROVE  TypeOK'
<1> USE DEF TypeOK
<1>1. FreshNode("other") \in Node BY NoNodeType, NodeTypes DEF Trees
<1>2. /\ [dir EXCEPT !.lock = "foreign"] \in Directory
      /\ [dir EXCEPT !.lock = "none"] \in Directory
      /\ [dir EXCEPT !.node["target"] = FreshNode("other")] \in Directory
  BY <1>1, FileTypes, DirectoryTypes, NoNodeType DEF LockFiles
<1>3. CASE ForeignLock BY <1>2, <1>3 DEF ForeignLock, SameLocks
<1>4. CASE ForeignInstall BY <1>2, <1>4 DEF ForeignInstall, SameLocks
<1>5. CASE ForeignUnlock BY <1>2, <1>5 DEF ForeignUnlock, SameLocks
<1> QED BY <1>3, <1>4, <1>5

LEMMA TypeInit == Init => TypeOK
<1> SUFFICES ASSUME Init PROVE TypeOK OBVIOUS
<1>1. FreshNode("old") \in Node /\ FreshNode("new") \in Node
  BY NoNodeType, NodeTypes DEF Trees
<1>2. InitialDirectory \in Directory
  BY <1>1, NoNodeType, FileTypes DEF InitialDirectory, Directory, LockFiles
<1>3. {"new", "idle"} \subseteq Pcs BY DEF Pcs, OwnerPcs, RecoverPcs
<1>4. proc \in [Procs -> Process] BY <1>3, StartType DEF Init
<1> QED BY <1>2, <1>4, FaultAssumption DEF Init, TypeOK

LEMMA TypeStep == TypeOK /\ [Next]_vars => TypeOK'
<1> SUFFICES ASSUME TypeOK, [Next]_vars PROVE TypeOK' OBVIOUS
<1>1. CASE UNCHANGED vars BY <1>1 DEF vars, TypeOK
<1>2. CASE OwnerNext BY <1>2, OwnerTypes
<1>3. ASSUME NEW r \in Recoverers, CallRecover(r) \/ RecoverNextStep(r)
      PROVE  TypeOK'
  <2>r. r \in Procs BY DEF Procs
  <2>1. CASE RecoverStep(r) BY <2>1, RecoverTypes
  <2>2. CASE ProcessStep(r) BY <2>r, <2>2, StoreTypes, SwapTypes DEF ProcessStep
  <2>3. CASE CallRecover(r) \/ ReturnToCaller(r)
    <3>1. {"next", "idle"} \subseteq Pcs BY DEF Pcs, RecoverPcs
    <3>2. Present(dir, "target") \in BOOLEAN BY DEF Present
    <3>3. proc' \in [Procs -> Process]
      BY <2>r, <2>3, <3>1, <3>2, StartType DEF CallRecover, ReturnToCaller, TypeOK
    <3> QED BY <2>3, <3>3
            DEF CallRecover, ReturnToCaller, SameDirectory, SameLocks, Environment, TypeOK
  <2> QED BY <1>3, <2>1, <2>2, <2>3 DEF RecoverNextStep
<1>4. CASE \/ CrashOwner \/ OwnerError \/ PowerLoss
           \/ \E r \in Recoverers : CrashRecoverer(r) \/ RecoverError(r)
  BY <1>4, FaultTypes
<1>5. CASE ForeignLock \/ ForeignInstall \/ ForeignUnlock BY <1>5, ForeignTypes
<1> QED BY <1>1, <1>2, <1>3, <1>4, <1>5 DEF Next

(* Every variable of the swap, its journal, its locks and its processes    *)
(* keeps its type, whatever the owner, the recoverers and the faults do.   *)
THEOREM TypeCorrect == Spec => []TypeOK
BY TypeInit, TypeStep, PTL DEF Spec

-----------------------------------------------------------------------------
(* Mutual exclusion.  LockOwnership is inductive: a step changes the state *)
(* of one process and at most its own hold on the lock.                    *)

LEMMA OneProcessMoves ==
    ASSUME TypeOK, LockOwnership, NEW p \in Procs,
           \A q \in Procs \ {p} : proc'[q] = proc[q],
           \A q \in Procs \ {p} : flock = q => flock' = q,
           proc'[p].pc \in HoldingPcs => flock' = p,
           p \in Recoverers /\ proc'[p].pc \in OwningPcs => ~OwnerAlive,
           p = Owner /\ ~OwnerAlive => proc'[p] = proc[p]
    PROVE  LockOwnership'
<1>1. ASSUME NEW q \in Procs, proc'[q].pc \in HoldingPcs PROVE flock' = q
  BY <1>1 DEF LockOwnership
<1>2. ASSUME NEW r \in Recoverers, proc'[r].pc \in OwningPcs PROVE ~OwnerAlive'
  <2>1. r \in Procs /\ Owner \in Procs /\ r # Owner BY ProcAssumption DEF Procs
  <2>2. ~OwnerAlive
    BY <1>2, <2>1 DEF LockOwnership
  <2>3. proc'[Owner] = proc[Owner] BY <2>1, <2>2
  <2> QED BY <2>2, <2>3 DEF OwnerAlive
<1> QED BY <1>1, <1>2 DEF LockOwnership

LEMMA GotoEffect ==
    ASSUME TypeOK, NEW p \in Procs, NEW pc, Goto(p, pc)
    PROVE  proc'[p].pc = pc /\ \A q \in Procs \ {p} : proc'[q] = proc[q]
BY DEF TypeOK, Goto, Process

LEMMA IntoEffect ==
    ASSUME TypeOK, NEW p \in Procs, NEW s, Into(p, s)
    PROVE  proc'[p].pc = proc[p].pc /\ \A q \in Procs \ {p} : proc'[q] = proc[q]
BY DEF TypeOK, Into, Process

LEMMA ReleaseEffect ==
    ASSUME NEW p \in Procs, Release(p)
    PROVE  \A q \in Procs \ {p} : flock = q => flock' = q
BY DEF Release

LEMMA ReturnEffect ==
    ASSUME TypeOK, NEW r \in Procs, NEW pc, Return(r, pc)
    PROVE  /\ proc'[r].pc = pc
           /\ \A q \in Procs \ {r} : proc'[q] = proc[q]
           /\ \A q \in Procs \ {r} : flock = q => flock' = q
BY ReleaseEffect DEF TypeOK, Return, StartOf

(* A step that keeps the process's lock and leads from a holding to a      *)
(* holding place.                                                          *)
LEMMA HoldingStep ==
    ASSUME TypeOK, LockOwnership, NEW p \in Procs,
           proc[p].pc \in HoldingPcs, proc[p].pc # "dead",
           p \in Recoverers /\ proc'[p].pc \in OwningPcs => proc[p].pc \in OwningPcs,
           \A q \in Procs \ {p} : proc'[q] = proc[q],
           flock' = flock
    PROVE  LockOwnership'
<1>1. flock' = p BY DEF LockOwnership
<1>2. p = Owner => OwnerAlive BY DEF OwnerAlive
<1>3. p \in Recoverers /\ proc'[p].pc \in OwningPcs => ~OwnerAlive
  BY DEF LockOwnership
<1> QED BY <1>1, <1>2, <1>3, OneProcessMoves

(* A step that leads to a place where no lock is needed.                   *)
LEMMA LeavingStep ==
    ASSUME TypeOK, LockOwnership, NEW p \in Procs,
           p = Owner => OwnerAlive,
           proc'[p].pc \notin HoldingPcs,
           \A q \in Procs \ {p} : proc'[q] = proc[q],
           \A q \in Procs \ {p} : flock = q => flock' = q
    PROVE  LockOwnership'
<1>1. OwningPcs \subseteq HoldingPcs BY DEF OwningPcs, HoldingPcs
<1> QED BY <1>1, OneProcessMoves

LEMMA ProcessKeepsLock ==
    ASSUME TypeOK, LockOwnership, NEW p \in Procs, ProcessStep(p)
    PROVE  LockOwnership'
<1>m. MutatingPcs \subseteq OwningPcs /\ OwningPcs \subseteq HoldingPcs
  BY DEF OwningPcs, HoldingPcs
<1>h. "dead" \notin HoldingPcs BY DEF HoldingPcs, MutatingPcs, PersistPcs
<1>p. PersistPcs \subseteq HoldingPcs BY DEF HoldingPcs, MutatingPcs
<1>1. CASE PersistCreate(p) \/ PersistWrite(p) \/ PersistReplace(p)
  <2>1. Into(p, "created") \/ Into(p, "written") \/ Into(p, "changed")
    BY <1>1 DEF PersistCreate, PersistWrite, PersistReplace
  <2>2. proc[p].pc \in HoldingPcs /\ flock' = flock
    BY <1>1, <1>p DEF PersistCreate, PersistWrite, PersistReplace, SameLocks
  <2> QED BY <1>h, <2>1, <2>2, IntoEffect, HoldingStep
<1>2. CASE PersistSync(p)
  <2>1. proc[p].pc \in PersistPcs /\ flock' = flock
    BY <1>2 DEF PersistSync, SameLocks
  <2>2. /\ proc'[p].pc = AfterPersist(proc[p].pc)
        /\ \A q \in Procs \ {p} : proc'[q] = proc[q]
    BY <1>2 DEF PersistSync, TypeOK, Process
  <2>3. AfterPersist(proc[p].pc) \in OwningPcs => proc[p].pc \in OwningPcs
    BY <2>1 DEF AfterPersist, OwningPcs, MutatingPcs, PersistPcs
  <2> QED BY <1>h, <1>p, <2>1, <2>2, <2>3, HoldingStep
<1>3. CASE UnlinkJournal(p) \/ UnlinkLock(p)
  <2>1. proc[p].pc \in MutatingPcs /\ flock' = flock
    BY <1>3 DEF UnlinkJournal, UnlinkLock, At, SameLocks, MutatingPcs
  <2>2. Goto(p, "unlinkLock") \/ Goto(p, "syncRemoved")
    BY <1>3 DEF UnlinkJournal, UnlinkLock
  <2> QED BY <1>m, <1>h, <2>1, <2>2, GotoEffect, HoldingStep
<1>4. CASE SyncRemoved(p)
  <2>1. proc[p].pc \in MutatingPcs BY <1>4 DEF SyncRemoved, At, MutatingPcs
  <2>2. CASE Goto(p, "unlinkRlock") /\ SameLocks
    BY <1>m, <1>h, <2>1, <2>2, GotoEffect, HoldingStep DEF SameLocks
  <2>3. CASE Goto(p, "done") /\ SameLocks
    BY <1>m, <1>h, <2>1, <2>3, GotoEffect, HoldingStep DEF SameLocks
  <2>4. CASE Goto(p, "cancelled") /\ Release(p)
    <3>1. p = Owner => OwnerAlive BY <1>m, <1>h, <2>1 DEF OwnerAlive
    <3>2. "cancelled" \notin HoldingPcs BY DEF HoldingPcs, MutatingPcs, PersistPcs
    <3> QED BY <2>4, <3>1, <3>2, GotoEffect, ReleaseEffect, LeavingStep
  <2> QED BY <1>4, <2>2, <2>3, <2>4 DEF SyncRemoved
<1>5. CASE StageSynced(p) \/ BackupSynced(p) \/ ActivateSynced(p)
  <2>1. proc[p].pc \in MutatingPcs
    BY <1>5 DEF StageSynced, BackupSynced, ActivateSynced, At, MutatingPcs
  <2>2. PICK pc, j : MoveSynced(p, pc, j)
    BY <1>5 DEF StageSynced, BackupSynced, ActivateSynced
  <2>3. flock' = flock /\ \A q \in Procs \ {p} : proc'[q] = proc[q]
    BY <2>2 DEF MoveSynced, SameLocks, TypeOK
  <2> QED BY <1>m, <1>h, <2>1, <2>3, HoldingStep
<1>6. CASE GutBackup(p) \/ UnlinkBackup(p)
  <2>1. proc[p].pc \in MutatingPcs /\ flock' = flock
    BY <1>6 DEF GutBackup, UnlinkBackup, At, MutatingPcs, SameLocks
  <2>2. Into(p, "written") \/ Into(p, "changed") BY <1>6 DEF GutBackup, UnlinkBackup
  <2> QED BY <1>m, <1>h, <2>1, <2>2, IntoEffect, HoldingStep
<1>7. CASE BackupRemoved(p)
  <2>1. proc[p].pc \in MutatingPcs /\ flock' = flock
    BY <1>7 DEF BackupRemoved, At, MutatingPcs, SameLocks
  <2> QED BY <1>7, <1>m, <1>h, <2>1, GotoEffect, HoldingStep DEF BackupRemoved
<1> QED BY <1>1, <1>2, <1>3, <1>4, <1>5, <1>6, <1>7 DEF ProcessStep, StoreStep, SwapStep

LEMMA MoveKeepsLock ==
    ASSUME TypeOK, LockOwnership, NEW p \in Procs, NEW from, NEW to,
           proc[p].pc \in MutatingPcs, Move(p, from, to)
    PROVE  LockOwnership'
<1>1. /\ flock' = flock
      /\ proc'[p].pc = proc[p].pc
      /\ \A q \in Procs \ {p} : proc'[q] = proc[q]
  BY DEF Move, SameLocks, TypeOK, Process
<1>2. proc[p].pc \in HoldingPcs /\ proc[p].pc # "dead"
  BY DEF HoldingPcs, MutatingPcs, PersistPcs
<1> QED BY <1>1, <1>2, HoldingStep

LEMMA FinalizeKeepsLock ==
    ASSUME TypeOK, LockOwnership, NEW p \in Procs, At(p, "finalize"), FinalizeRoot(p)
    PROVE  LockOwnership'
<1>1. /\ flock' = flock
      /\ proc'[p].pc = proc[p].pc
      /\ \A q \in Procs \ {p} : proc'[q] = proc[q]
  BY IntoEffect DEF FinalizeRoot, SameLocks
<1>2. proc[p].pc \in HoldingPcs /\ proc[p].pc # "dead"
  BY DEF At, HoldingPcs, MutatingPcs, PersistPcs
<1> QED BY <1>1, <1>2, HoldingStep

LEMMA OwnerThrowsKeepsLock ==
    ASSUME TypeOK, LockOwnership, OwnerThrows
    PROVE  LockOwnership'
<1>1. Owner \in Procs BY DEF Procs
<1>2. OwnerAlive BY DEF OwnerThrows, At, OwnerAlive
<1>3. "failed" \notin HoldingPcs BY DEF HoldingPcs, MutatingPcs, PersistPcs
<1> QED BY <1>1, <1>2, <1>3, GotoEffect, ReleaseEffect, LeavingStep DEF OwnerThrows

LEMMA OwnerKeepsLock ==
    ASSUME TypeOK, LockOwnership, OwnerNext
    PROVE  LockOwnership'
<1>o. Owner \in Procs BY DEF Procs
<1>r. Owner \notin Recoverers BY ProcAssumption
<1>h. {"lockHeld", "lockWritten", "locked", "prepared", "stage", "unlinkJournal",
       "preparePersist", "completePersist", "finalize"} \subseteq HoldingPcs
  BY DEF HoldingPcs, MutatingPcs, PersistPcs
<1>n. {"open", "lockCreated", "failed", "dead"} \cap HoldingPcs = {}
  BY DEF HoldingPcs, MutatingPcs, PersistPcs
<1>1. CASE FlockLock
  <2>1. flock = NoProc /\ OwnerAlive
    BY <1>1 DEF FlockLock, OwnerAt, OwnerAccepts, At, OwnerAlive
  <2>2. \A q \in Procs : flock # q BY <2>1, ProcAssumption DEF Procs
  <2>3. Goto(Owner, "lockHeld") /\ flock' = Owner BY <1>1 DEF FlockLock
  <2> QED BY <1>o, <1>r, <2>1, <2>2, <2>3, GotoEffect, OneProcessMoves
<1>2. CASE CreateLock
  <2>1. OwnerAlive /\ flock' = flock
    BY <1>2 DEF CreateLock, OwnerAt, At, OwnerAlive, SameLocks
  <2> QED BY <1>2, <1>o, <1>n, <2>1, GotoEffect, LeavingStep DEF CreateLock
<1>3. CASE WriteLock
  <2>1. proc[Owner].pc \in HoldingPcs /\ flock' = flock
    BY <1>3, <1>h DEF WriteLock, OwnerAt, At, SameLocks
  <2> QED BY <1>3, <1>o, <1>r, <1>n, <2>1, GotoEffect, HoldingStep DEF WriteLock
<1>4. CASE SyncLock
  <2>1. proc[Owner].pc \in HoldingPcs /\ flock' = flock
    BY <1>4, <1>h DEF SyncLock, OwnerAt, At, SameLocks
  <2> QED BY <1>4, <1>o, <1>r, <1>n, <2>1, GotoEffect, HoldingStep DEF SyncLock
<1>5. CASE ExecuteStage \/ ExecuteBackup \/ ExecuteActivate
  <2>1. proc[Owner].pc \in MutatingPcs
    BY <1>5 DEF ExecuteStage, ExecuteBackup, ExecuteActivate, OwnerAt, At, MutatingPcs
  <2> QED BY <1>5, <1>o, <2>1, MoveKeepsLock
          DEF ExecuteStage, ExecuteBackup, ExecuteActivate
<1>6. CASE ExecuteFinalize
  BY <1>6, <1>o, FinalizeKeepsLock DEF ExecuteFinalize, OwnerAt
<1>7. CASE ExecuteVerified \/ PrepareDurableJournal
  <2>1. proc[Owner].pc \in HoldingPcs /\ flock' = flock
    BY <1>7, <1>h DEF ExecuteVerified, PrepareDurableJournal, OwnerAt, At, SameLocks
  <2>2. \A q \in Procs \ {Owner} : proc'[q] = proc[q]
    BY <1>7 DEF ExecuteVerified, PrepareDurableJournal, TypeOK
  <2> QED BY <1>o, <1>r, <1>n, <2>1, <2>2, HoldingStep
<1>8. CASE OwnerRefuses BY <1>8, OwnerThrowsKeepsLock DEF OwnerRefuses
<1>9. CASE Construct
  <2>1. OwnerAlive /\ flock' = flock
    BY <1>9 DEF Construct, OwnerAt, At, OwnerAlive, SameLocks
  <2>2. proc'[Owner].pc = "open" /\ \A q \in Procs \ {Owner} : proc'[q] = proc[q]
    BY <1>9, <1>o DEF Construct, TypeOK, Process
  <2> QED BY <1>o, <1>n, <2>1, <2>2, LeavingStep
<1>10. CASE CancelPrepared
  <2>1. proc[Owner].pc \in HoldingPcs /\ OwnerAlive
    BY <1>10, <1>h DEF CancelPrepared, OwnerAt, At, OwnerAlive
  <2>2. CASE Goto(Owner, "unlinkJournal") /\ SameLocks
    BY <1>o, <1>r, <1>n, <2>1, <2>2, GotoEffect, HoldingStep DEF SameLocks
  <2>3. CASE Goto(Owner, "failed") /\ Release(Owner)
    BY <1>o, <1>n, <2>1, <2>3, GotoEffect, ReleaseEffect, LeavingStep
  <2> QED BY <1>10, <2>2, <2>3 DEF CancelPrepared
<1>11. CASE BeginExecute
  <2>1. proc[Owner].pc \in HoldingPcs /\ flock' = flock
    BY <1>11, <1>h DEF BeginExecute, OwnerAt, At, SameLocks
  <2> QED BY <1>11, <1>o, <1>r, <1>n, <2>1, GotoEffect, HoldingStep DEF BeginExecute
<1>12. CASE OwnerExit
  <2>1. OwnerAlive BY <1>12 DEF OwnerExit, OwnerAlive
  <2> QED BY <1>12, <1>o, <1>n, <2>1, GotoEffect, ReleaseEffect, LeavingStep DEF OwnerExit
<1>13. CASE ProcessStep(Owner) BY <1>13, <1>o, ProcessKeepsLock
<1> QED BY <1>1, <1>2, <1>3, <1>4, <1>5, <1>6, <1>7, <1>8, <1>9, <1>10, <1>11,
           <1>12, <1>13 DEF OwnerNext, OwnerStep

LEMMA RecovererKeepsLock ==
    ASSUME TypeOK, LockOwnership, NEW r \in Recoverers,
           CallRecover(r) \/ RecoverNextStep(r)
    PROVE  LockOwnership'
<1>r. r \in Procs /\ r # Owner BY ProcAssumption DEF Procs
<1>h. {"orphanCheck", "check", "observe", "unlinkRlock", "syncRecovered"} \subseteq HoldingPcs
  BY DEF HoldingPcs
<1>n. ({"idle", "next", "load", "orphanOpen", "orphanFlock", "orphanSync", "lockOpen",
        "lockFlock", "dead"} \cup Outcomes) \cap HoldingPcs = {}
  BY DEF HoldingPcs, MutatingPcs, PersistPcs, Outcomes
<1>w. {"orphanCheck", "check"} \cap OwningPcs = {}
  BY DEF OwningPcs, MutatingPcs, PersistPcs
<1>u. {"observe", "unlinkRlock", "syncRecovered", "finalize"} \subseteq OwningPcs
  BY DEF OwningPcs, MutatingPcs
<1>m. MutatingPcs \subseteq HoldingPcs BY DEF HoldingPcs
<1>out. ASSUME NEW pc \in Outcomes, Return(r, pc) PROVE LockOwnership'
  BY <1>r, <1>n, <1>out, ReturnEffect, LeavingStep
<1>go. ASSUME NEW pc, pc \notin HoldingPcs, Goto(r, pc), SameLocks PROVE LockOwnership'
  BY <1>r, <1>go, GotoEffect, LeavingStep DEF SameLocks
<1>1. CASE CallRecover(r) \/ ReturnToCaller(r)
  <2>1. /\ proc'[r].pc \in {"next", "idle"} /\ flock' = flock
        /\ \A q \in Procs \ {r} : proc'[q] = proc[q]
    BY <1>1, <1>r DEF CallRecover, ReturnToCaller, SameLocks, TypeOK, StartOf
  <2> QED BY <1>r, <1>n, <2>1, LeavingStep
<1>2. CASE ProcessStep(r) BY <1>2, <1>r, ProcessKeepsLock
<1>3. CASE RecoverNext(r)
  BY <1>3, <1>n, <1>out, <1>go DEF RecoverNext, Outcomes
<1>4. CASE RecoverLoad(r)
  <2>1. ASSUME proc' = [proc EXCEPT ![r].pc = "lockOpen", ![r].j = dir.journal], SameLocks
        PROVE  LockOwnership'
    <3>1. /\ proc'[r].pc = "lockOpen" /\ flock' = flock
          /\ \A q \in Procs \ {r} : proc'[q] = proc[q]
      BY <1>r, <2>1 DEF SameLocks, TypeOK, Process
    <3> QED BY <1>r, <1>n, <3>1, LeavingStep
  <2> QED BY <1>4, <1>n, <1>out, <1>go, <2>1 DEF RecoverLoad, Outcomes
<1>5. CASE OrphanOpen(r) \/ LockOpen(r)
  BY <1>5, <1>n, <1>out, <1>go DEF OrphanOpen, LockOpen, OpenForeignLock, Outcomes
<1>6. CASE OrphanFlock(r) \/ LockFlock(r)
  <2>1. PICK to \in {"orphanCheck", "check"} :
           \/ Return(r, "live")
           \/ flock = NoProc /\ flock' = r /\ Goto(r, to)
    BY <1>6 DEF OrphanFlock, LockFlock, TryFlock
  <2>2. CASE flock = NoProc /\ flock' = r /\ Goto(r, to)
    <3>1. \A q \in Procs : flock # q BY <2>2, ProcAssumption DEF Procs
    <3> QED BY <1>r, <1>w, <2>2, <3>1, GotoEffect, OneProcessMoves
  <2> QED BY <1>out, <2>1, <2>2 DEF Outcomes
<1>7. CASE OrphanCheck(r)
  <2>1. CASE Goto(r, "orphanSync") /\ Release(r)
    BY <1>r, <1>n, <2>1, GotoEffect, ReleaseEffect, LeavingStep
  <2> QED BY <1>7, <1>out, <2>1 DEF OrphanCheck, Outcomes
<1>8. CASE OrphanSync(r) \/ SyncRecovered(r)
  BY <1>8, <1>out DEF OrphanSync, SyncRecovered, Outcomes
<1>9. CASE RecoverCheck(r)
  <2>1. CASE ~OwnerAlive /\ Goto(r, "observe") /\ flock' = flock
    <3>1. proc[r].pc \in HoldingPcs BY <1>9, <1>h DEF RecoverCheck, RecoverAt, At
    <3>2. flock' = r BY <1>r, <2>1, <3>1 DEF LockOwnership
    <3> QED BY <1>r, <2>1, <3>2, GotoEffect, OneProcessMoves
  <2> QED BY <1>9, <1>out, <2>1 DEF RecoverCheck, Outcomes
<1>10. CASE RecoverObserve(r)
  <2>1. /\ proc[r].pc = "observe" /\ flock' = flock
        /\ \A q \in Procs \ {r} : proc'[q] = proc[q]
    BY <1>10, <1>r DEF RecoverObserve, RecoverAt, At, SameLocks, TypeOK
  <2> QED BY <1>r, <1>h, <1>u, <1>n, <2>1, HoldingStep
<1>11. CASE RecoverStage(r) \/ RecoverBackup(r) \/ RecoverActivate(r)
  <2>1. proc[r].pc \in MutatingPcs
    BY <1>11 DEF RecoverStage, RecoverBackup, RecoverActivate, RecoverAt, At, MutatingPcs
  <2> QED BY <1>11, <1>r, <2>1, MoveKeepsLock DEF RecoverStage, RecoverBackup, RecoverActivate
<1>12. CASE RecoverFinalize(r)
  BY <1>12, <1>r, FinalizeKeepsLock DEF RecoverFinalize, RecoverAt
<1>13. CASE RecoverVerified(r)
  <2>1. proc[r].pc = "finalize" /\ flock' = flock
    BY <1>13 DEF RecoverVerified, Finished, At, SameLocks
  <2>2. \A q \in Procs \ {r} : proc'[q] = proc[q]
    BY <1>13, <1>r DEF RecoverVerified, Goto, TypeOK
  <2>3. "finalize" \in HoldingPcs BY <1>m DEF MutatingPcs
  <2> QED BY <1>r, <1>u, <1>n, <2>1, <2>2, <2>3, HoldingStep
<1>14. CASE RecoverUnlinkRlock(r)
  <2>1. proc[r].pc = "unlinkRlock" /\ flock' = flock
    BY <1>14 DEF RecoverUnlinkRlock, RecoverAt, At, SameLocks
  <2> QED BY <1>14, <1>r, <1>h, <1>u, <1>n, <2>1, GotoEffect, HoldingStep
          DEF RecoverUnlinkRlock
<1>15. CASE RecoverRefuses(r) BY <1>15, <1>out DEF RecoverRefuses, Outcomes
<1> QED BY <1>1, <1>2, <1>3, <1>4, <1>5, <1>6, <1>7, <1>8, <1>9, <1>10, <1>11,
           <1>12, <1>13, <1>14, <1>15 DEF RecoverNextStep, RecoverStep

LEMMA FaultKeepsLock ==
    ASSUME TypeOK, LockOwnership,
           \/ CrashOwner \/ OwnerError \/ PowerLoss
           \/ \E r \in Recoverers : CrashRecoverer(r) \/ RecoverError(r)
    PROVE  LockOwnership'
<1>n. {"idle", "manual", "dead"} \cap HoldingPcs = {}
  BY DEF HoldingPcs, MutatingPcs, PersistPcs
<1>m. OwningPcs \subseteq HoldingPcs BY DEF HoldingPcs, OwningPcs
<1>1. CASE CrashOwner
  <2>1. Owner \in Procs BY DEF Procs
  <2>2. proc'[Owner].pc = "dead" /\ \A q \in Procs \ {Owner} : proc'[q] = proc[q]
    BY <1>1, <2>1 DEF CrashOwner, TypeOK, StartOf
  <2> QED BY <1>1, <1>n, <2>1, <2>2, ReleaseEffect, LeavingStep DEF CrashOwner
<1>2. CASE OwnerError BY <1>2, OwnerThrowsKeepsLock DEF OwnerError
<1>3. CASE PowerLoss
  <2>1. \A p \in Procs : proc'[p].pc \in {"dead", "idle"}
    BY <1>3 DEF PowerLoss, StartOf
  <2>2. Recoverers \subseteq Procs BY DEF Procs
  <2> QED BY <1>n, <1>m, <2>1, <2>2 DEF LockOwnership
<1>4. ASSUME NEW r \in Recoverers, CrashRecoverer(r) \/ RecoverError(r)
      PROVE  LockOwnership'
  <2>1. r \in Procs /\ r # Owner BY ProcAssumption DEF Procs
  <2>2. Return(r, "idle") \/ Return(r, "manual")
    BY <1>4 DEF CrashRecoverer, RecoverError
  <2> QED BY <1>n, <2>1, <2>2, ReturnEffect, LeavingStep
<1> QED BY <1>1, <1>2, <1>3, <1>4

LEMMA LockOwnershipInit == Init => LockOwnership
<1>1. {"new", "idle"} \cap HoldingPcs = {}
  BY DEF HoldingPcs, MutatingPcs, PersistPcs
<1>2. OwningPcs \subseteq HoldingPcs /\ Recoverers \subseteq Procs
  BY DEF HoldingPcs, OwningPcs, Procs
<1>3. Init => \A p \in Procs : proc[p].pc \in {"new", "idle"}
  BY DEF Init, StartOf
<1> QED BY <1>1, <1>2, <1>3 DEF LockOwnership

LEMMA LockOwnershipStep == TypeOK /\ LockOwnership /\ [Next]_vars => LockOwnership'
<1> SUFFICES ASSUME TypeOK, LockOwnership, [Next]_vars PROVE LockOwnership' OBVIOUS
<1>1. CASE UNCHANGED vars BY <1>1 DEF vars, LockOwnership, OwnerAlive
<1>2. CASE OwnerNext BY <1>2, OwnerKeepsLock
<1>3. ASSUME NEW r \in Recoverers, CallRecover(r) \/ RecoverNextStep(r)
      PROVE  LockOwnership'
  BY <1>3, RecovererKeepsLock
<1>4. CASE \/ CrashOwner \/ OwnerError \/ PowerLoss
           \/ \E r \in Recoverers : CrashRecoverer(r) \/ RecoverError(r)
  BY <1>4, FaultKeepsLock
<1>5. CASE ForeignLock \/ ForeignInstall \/ ForeignUnlock
  BY <1>5 DEF ForeignLock, ForeignInstall, ForeignUnlock, SameLocks, LockOwnership, OwnerAlive
<1> QED BY <1>1, <1>2, <1>3, <1>4, <1>5 DEF Next

LEMMA LockOwnershipHolds == Spec => []LockOwnership
BY TypeCorrect, LockOwnershipInit, LockOwnershipStep, PTL DEF Spec

(* At most one process is inside the swap, among any number of recoverers, *)
(* after any number of crashes, power losses and failing calls.            *)
THEOREM MutualExclusion == Spec => []ExclusiveMutation
<1>1. LockOwnership => ExclusiveMutation
  BY DEF LockOwnership, ExclusiveMutation, Mutating, HoldingPcs
<1> QED BY <1>1, LockOwnershipHolds, PTL

(* No recoverer changes the swap while the owner's process lives.          *)
THEOREM LiveOwnerSafe == Spec => []LiveOwnerNeverRecovered
<1>1. LockOwnership => LiveOwnerNeverRecovered
  BY DEF LockOwnership, LiveOwnerNeverRecovered, Mutating, OwningPcs
<1> QED BY <1>1, LockOwnershipHolds, PTL

-----------------------------------------------------------------------------
(* The swap.  A directory that may survive is in one of five shapes, and a *)
(* process inside the swap knows in which one: SwapInv is inductive.       *)

Kept(n) == n.tree \in {"old", "other"} /\ n.whole

Payload(n) == n.tree = "new" /\ n.whole

(* Nothing has moved yet, or the transaction was cancelled.                *)
Staged(d) ==
    /\ Kept(d.node["target"]) /\ Payload(d.node["stage"])
    /\ d.node["prepared"] = NoNode /\ d.node["backup"] = NoNode

(* The payload is beside the target.                                       *)
Beside(d) ==
    /\ Kept(d.node["target"]) /\ Payload(d.node["prepared"])
    /\ d.node["stage"] = NoNode /\ d.node["backup"] = NoNode

(* The target is moved aside.                                              *)
Aside(d) ==
    /\ Payload(d.node["prepared"]) /\ Kept(d.node["backup"])
    /\ d.node["target"] = NoNode /\ d.node["stage"] = NoNode

(* The payload is the target.  The backup loses files only behind the      *)
(* journal that says so.                                                   *)
Activated(d) ==
    /\ Payload(d.node["target"]) /\ d.node["backup"].tree \in {"old", "other"}
    /\ d.node["stage"] = NoNode /\ d.node["prepared"] = NoNode
    /\ \/ d.node["backup"].whole
       \/ /\ d.node["target"].final
          /\ d.journal.state \in {"targetActivated", "completed", "none"}

(* Only the target is left: the payload, or what a later transaction put   *)
(* in its place.                                                           *)
Over(d) ==
    /\ \/ Payload(d.node["target"]) /\ d.node["target"].final
       \/ d.node["target"].tree = "other" /\ d.node["target"].whole
    /\ d.node["stage"] = NoNode /\ d.node["prepared"] = NoNode
    /\ d.node["backup"] = NoNode

Settled(d) == Staged(d) \/ Over(d)

(* The journal, if there is one, tells the shape.  A recoverer may have    *)
(* activated the payload under a journal that still says prepared.         *)
JournalTells(d, alive) ==
    /\ d.journal.state # "torn"
    /\ d.journal.state = "prepared" =>
          Staged(d) \/ Beside(d) \/ Aside(d) \/ (Activated(d) /\ ~alive)
    /\ d.journal.state = "backupCreated" => Aside(d) \/ Activated(d)
    /\ d.journal.state = "targetActivated" => Activated(d)
    /\ d.journal.state = "completed" => Activated(d) \/ Over(d)

DirectoryFits(d, alive) ==
    /\ Staged(d) \/ Beside(d) \/ Aside(d) \/ Activated(d) \/ Over(d)
    /\ d.lock # "ours" => Settled(d)
    /\ JournalTells(d, alive)

DiskFits == dir \in disk /\ \A d \in disk : DirectoryFits(d, OwnerAlive)

(* Pcs at which the lock file is this transaction's.                       *)
LockedPcs == {"lockWritten", "locked", "preparePersist", "prepared", "observe"}
                \cup (MutatingPcs \ {"syncRemoved"})

(* Pcs at which a process relies on the directory.                         *)
KnowingPcs == LockedPcs \cup {"lockCreated", "lockHeld"}

(* The directory as process p left or found it.                            *)
ShapeKnown(p) ==
    LET pc == proc[p].pc
        began == proc[p].step = "begin"
    IN
    /\ pc \in {"lockWritten", "locked", "unlinkJournal", "unlinkLock"} => Settled(dir)
    /\ pc \in {"preparePersist", "prepared"} => Staged(dir)
    /\ pc = "stage" => IF began THEN Staged(dir) ELSE Beside(dir)
    /\ pc = "stagePersist" => Beside(dir)
    /\ pc = "backup" => IF began THEN Beside(dir) ELSE Aside(dir)
    /\ pc = "backupPersist" => Aside(dir)
    /\ pc = "activate" => IF began THEN Aside(dir) ELSE Activated(dir)
    /\ pc \in {"activatePersist", "verifiedPersist", "completePersist"} => Activated(dir)
    /\ pc = "finalize" => \/ Activated(dir) /\ "backup" \in proc[p].saw
                          \/ began /\ p # Owner /\ Over(dir) /\ "backup" \notin proc[p].saw
    /\ pc = "removeBackup" =>
          IF proc[p].step = "changed" THEN Over(dir) ELSE Activated(dir)
    /\ \/ pc \in {"verifiedPersist", "completePersist", "removeBackup"}
       \/ pc = "finalize" /\ proc[p].step = "changed"
       => dir.node["target"].final

(* What p remembers, and what it has written.                              *)
RecordKnown(p) ==
    LET q == proc[p] IN
    /\ q.pc \in {"preparePersist", "prepared", "stage", "stagePersist"}
          => q.j.state = "prepared"
    /\ q.pc = "backupPersist" => q.j.state = "backupCreated"
    /\ q.pc \in {"activatePersist", "verifiedPersist"} => q.j.state = "targetActivated"
    /\ q.pc = "completePersist" => q.j.state = "completed"
    /\ \/ q.pc \in {"backupPersist", "activate", "activatePersist"}
       \/ q.pc = "backup" /\ q.step # "begin"
       => "backup" \in q.saw
    /\ q.pc \in PersistPcs =>
          /\ q.step = "created" => dir.next.state # "none"
          /\ q.step = "written" => dir.next = q.j
          /\ q.step = "changed" => dir.journal = q.j
    /\ q.pc = "activate" /\ p = Owner => dir.journal.state = "backupCreated"
    /\ q.pc = "removeBackup" => dir.journal.state = "completed"

LockKnown(p) ==
    /\ proc[p].pc \in {"lockCreated", "lockHeld"} => dir.lock = "torn"
    /\ proc[p].pc \in LockedPcs => dir.lock = "ours"

Knows(p) == ShapeKnown(p) /\ RecordKnown(p) /\ LockKnown(p)

SwapInv ==
    /\ TypeOK /\ LockOwnership /\ DiskFits
    /\ foreign = "holding" => dir.lock = "foreign"
    /\ \A r \in Recoverers : proc[r].pc \notin OwnerPcs \cup {"preparePersist"}
    /\ \A p \in Procs : Knows(p)

-----------------------------------------------------------------------------
(* What the system calls do to the shapes.                                 *)

LEMMA NodesOf ==
    ASSUME NEW d \in Directory
    PROVE  /\ d.node \in [Leaves -> Node]
           /\ d.node["target"] \in Node /\ d.node["stage"] \in Node
           /\ d.node["prepared"] \in Node /\ d.node["backup"] \in Node
BY DEF Directory, Leaves

(* A shape is a matter of the leaves; only Activated looks at the journal. *)
LEMMA SameLeaves ==
    ASSUME NEW d, NEW e, e.node = d.node
    PROVE  /\ Staged(e) <=> Staged(d)
           /\ Beside(e) <=> Beside(d)
           /\ Aside(e) <=> Aside(d)
           /\ Over(e) <=> Over(d)
           /\ Settled(e) <=> Settled(d)
           /\ Activated(d) /\ e.journal.state \in {d.journal.state, "targetActivated",
                                                   "completed", "none"}
                => Activated(e)
BY DEF Staged, Beside, Aside, Over, Settled, Activated

LEMMA TouchedKeeps ==
    ASSUME NEW n \in Node, NEW t \in Nat
    PROVE  /\ Touched(n, t).tree = n.tree /\ Touched(n, t).whole = n.whole
           /\ Touched(n, t).final = n.final
BY DEF Touched, Node

LEMMA RenamedLeaves ==
    ASSUME NEW d \in Directory, NEW from \in Leaves, NEW to \in Leaves, from # to, NEW t \in Nat
    PROVE  LET e == Renamed(d, from, to, t) IN
           /\ e.node[to].tree = d.node[from].tree /\ e.node[to].whole = d.node[from].whole
           /\ e.node[from] = NoNode
           /\ \A leaf \in Leaves \ {from, to} : e.node[leaf] = d.node[leaf]
           /\ e.journal = d.journal /\ e.next = d.next /\ e.lock = d.lock
<1>1. d.node \in [Leaves -> Node] /\ d.node[from] \in Node BY DEF Directory
<1>2. Renamed(d, from, to, t).node =
        [d.node EXCEPT ![to] = Touched(d.node[from], t), ![from] = NoNode]
  BY DEF Renamed, Directory
<1>3. /\ Renamed(d, from, to, t).journal = d.journal /\ Renamed(d, from, to, t).next = d.next
      /\ Renamed(d, from, to, t).lock = d.lock
  BY DEF Renamed, Directory
<1> QED BY <1>1, <1>2, <1>3, TouchedKeeps

LEMMA StagedToBeside ==
    ASSUME NEW d \in Directory, Staged(d), NEW t \in Nat
    PROVE  Beside(Renamed(d, "stage", "prepared", t))
<1> DEFINE e == Renamed(d, "stage", "prepared", t)
<1>1. /\ e.node["prepared"].tree = d.node["stage"].tree
      /\ e.node["prepared"].whole = d.node["stage"].whole
      /\ e.node["stage"] = NoNode /\ e.node["target"] = d.node["target"]
      /\ e.node["backup"] = d.node["backup"]
  BY RenamedLeaves DEF Leaves
<1>2. e = Renamed(d, "stage", "prepared", t) OBVIOUS
<1> HIDE DEF e
<1>3. Beside(e) BY <1>1 DEF Staged, Beside, Kept, Payload
<1> QED BY <1>2, <1>3

LEMMA BesideToAside ==
    ASSUME NEW d \in Directory, Beside(d), NEW t \in Nat
    PROVE  Aside(Renamed(d, "target", "backup", t))
<1> DEFINE e == Renamed(d, "target", "backup", t)
<1>1. /\ e.node["backup"].tree = d.node["target"].tree
      /\ e.node["backup"].whole = d.node["target"].whole
      /\ e.node["target"] = NoNode /\ e.node["prepared"] = d.node["prepared"]
      /\ e.node["stage"] = d.node["stage"]
  BY RenamedLeaves DEF Leaves
<1>2. e = Renamed(d, "target", "backup", t) OBVIOUS
<1> HIDE DEF e
<1>3. Aside(e) BY <1>1 DEF Beside, Aside, Kept, Payload
<1> QED BY <1>2, <1>3

LEMMA AsideToActivated ==
    ASSUME NEW d \in Directory, Aside(d), NEW t \in Nat
    PROVE  Activated(Renamed(d, "prepared", "target", t))
<1> DEFINE e == Renamed(d, "prepared", "target", t)
<1>1. /\ e.node["target"].tree = d.node["prepared"].tree
      /\ e.node["target"].whole = d.node["prepared"].whole
      /\ e.node["prepared"] = NoNode /\ e.node["backup"] = d.node["backup"]
      /\ e.node["stage"] = d.node["stage"]
  BY RenamedLeaves DEF Leaves
<1>2. e = Renamed(d, "prepared", "target", t) OBVIOUS
<1> HIDE DEF e
<1>3. Activated(e) BY <1>1 DEF Aside, Activated, Kept, Payload
<1> QED BY <1>2, <1>3

(* Finalized, Gutted and Removed change one leaf.                          *)
LEMMA ChangedLeaf ==
    ASSUME NEW d \in Directory, NEW leaf \in Leaves, NEW n
    PROVE  LET e == [d EXCEPT !.node[leaf] = n] IN
           /\ e.node[leaf] = n
           /\ \A other \in Leaves \ {leaf} : e.node[other] = d.node[other]
           /\ e.journal = d.journal /\ e.next = d.next /\ e.lock = d.lock
BY DEF Directory

LEMMA FinalizedKeeps ==
    ASSUME NEW d \in Directory, Activated(d), NEW t \in Nat
    PROVE  LET e == Finalized(d, "target", t) IN
           /\ Activated(e) /\ e.node["target"].final
           /\ e.journal = d.journal /\ e.lock = d.lock
<1> DEFINE n == Touched([d.node["target"] EXCEPT !.final = TRUE], t)
           e == [d EXCEPT !.node["target"] = n]
<1>1. e = Finalized(d, "target", t) BY DEF Finalized, Directory, Leaves
<1>2. n.tree = d.node["target"].tree /\ n.whole = d.node["target"].whole /\ n.final
  BY NodesOf DEF Touched, Node
<1>3. /\ e.node["target"] = n /\ e.node["stage"] = d.node["stage"]
      /\ e.node["prepared"] = d.node["prepared"] /\ e.node["backup"] = d.node["backup"]
      /\ e.journal = d.journal /\ e.lock = d.lock
  BY ChangedLeaf DEF Leaves
<1> HIDE DEF n, e
<1>4. Activated(e) /\ e.node["target"].final
  BY <1>2, <1>3 DEF Activated, Payload
<1> QED BY <1>1, <1>3, <1>4

LEMMA GuttedKeeps ==
    ASSUME NEW d \in Directory, Activated(d), d.node["target"].final,
           d.journal.state = "completed", NEW t \in Nat
    PROVE  LET e == Gutted(d, "backup", t) IN
           /\ Activated(e) /\ e.node["target"].final
           /\ e.journal = d.journal /\ e.lock = d.lock
<1> DEFINE n == Touched([d.node["backup"] EXCEPT !.whole = FALSE], t)
           e == [d EXCEPT !.node["backup"] = n]
<1>1. e = Gutted(d, "backup", t) BY DEF Gutted, Directory, Leaves
<1>2. n.tree = d.node["backup"].tree
  BY NodesOf DEF Touched, Node
<1>3. /\ e.node["backup"] = n /\ e.node["stage"] = d.node["stage"]
      /\ e.node["prepared"] = d.node["prepared"] /\ e.node["target"] = d.node["target"]
      /\ e.journal = d.journal /\ e.lock = d.lock
  BY ChangedLeaf DEF Leaves
<1> HIDE DEF n, e
<1>4. Activated(e) /\ e.node["target"].final
  BY <1>2, <1>3 DEF Activated, Payload
<1> QED BY <1>1, <1>3, <1>4

LEMMA RemovedEnds ==
    ASSUME NEW d \in Directory, Activated(d), d.node["target"].final
    PROVE  LET e == Removed(d, "backup") IN
           /\ Over(e) /\ e.node["target"].final
           /\ e.journal = d.journal /\ e.lock = d.lock
<1> DEFINE e == [d EXCEPT !.node["backup"] = NoNode]
<1>1. e = Removed(d, "backup") BY DEF Removed
<1>2. /\ e.node["backup"] = NoNode /\ e.node["stage"] = d.node["stage"]
      /\ e.node["prepared"] = d.node["prepared"] /\ e.node["target"] = d.node["target"]
      /\ e.journal = d.journal /\ e.lock = d.lock
  BY ChangedLeaf DEF Leaves
<1> HIDE DEF e
<1>3. Over(e) /\ e.node["target"].final
  BY <1>2 DEF Activated, Over, Payload
<1> QED BY <1>1, <1>2, <1>3

(* The leaves that are there tell the shape, and the shape the leaves.     *)
LEMMA ShapeLeaves ==
    ASSUME NEW d \in Directory
    PROVE  /\ Staged(d) => PresentLeaves(d) = {"target", "stage"}
           /\ Beside(d) => PresentLeaves(d) = {"target", "prepared"}
           /\ Aside(d) => PresentLeaves(d) = {"prepared", "backup"}
           /\ Activated(d) => PresentLeaves(d) = {"target", "backup"}
           /\ Over(d) => PresentLeaves(d) = {"target"}
<1>1. NoNode.tree = "none" BY DEF NoNode
<1>2. \A leaf : leaf \in PresentLeaves(d) <=>
         \/ leaf = "target" /\ d.node["target"].tree # "none"
         \/ leaf = "stage" /\ d.node["stage"].tree # "none"
         \/ leaf = "prepared" /\ d.node["prepared"].tree # "none"
         \/ leaf = "backup" /\ d.node["backup"].tree # "none"
  BY DEF PresentLeaves, Present, Leaves
<1>3. Staged(d) => PresentLeaves(d) = {"target", "stage"}
  BY <1>1, <1>2 DEF Staged, Kept, Payload
<1>4. Beside(d) => PresentLeaves(d) = {"target", "prepared"}
  BY <1>1, <1>2 DEF Beside, Kept, Payload
<1>5. Aside(d) => PresentLeaves(d) = {"prepared", "backup"}
  BY <1>1, <1>2 DEF Aside, Kept, Payload
<1>6. Activated(d) => PresentLeaves(d) = {"target", "backup"}
  BY <1>1, <1>2 DEF Activated, Payload
<1>7. Over(d) => PresentLeaves(d) = {"target"}
  BY <1>1, <1>2 DEF Over, Payload
<1> QED BY <1>3, <1>4, <1>5, <1>6, <1>7

(* A directory with a new journal, lock or next file.                      *)
LEMMA FieldsOf ==
    ASSUME NEW d \in Directory, NEW f, NEW g
    PROVE  /\ [d EXCEPT !.next = f].node = d.node
           /\ [d EXCEPT !.next = f].journal = d.journal
           /\ [d EXCEPT !.next = f].lock = d.lock
           /\ [d EXCEPT !.next = f].next = f
           /\ [d EXCEPT !.journal = g, !.next = f].node = d.node
           /\ [d EXCEPT !.journal = g, !.next = f].journal = g
           /\ [d EXCEPT !.journal = g, !.next = f].lock = d.lock
           /\ [d EXCEPT !.journal = f].node = d.node
           /\ [d EXCEPT !.journal = f].journal = f
           /\ [d EXCEPT !.journal = f].lock = d.lock
           /\ [d EXCEPT !.lock = f].node = d.node
           /\ [d EXCEPT !.lock = f].journal = d.journal
           /\ [d EXCEPT !.lock = f].lock = f
           /\ [d EXCEPT !.rlock = f].node = d.node
           /\ [d EXCEPT !.rlock = f].journal = d.journal
           /\ [d EXCEPT !.rlock = f].lock = d.lock
           /\ [d EXCEPT !.rlock = f].next = d.next
BY DEF Directory

(* The same leaves and the same journal fit as well, under this            *)
(* transaction's lock or in a settled shape.                               *)
LEMMA FitsAlike ==
    ASSUME NEW d, NEW e, NEW alive, DirectoryFits(d, alive),
           e.node = d.node, e.journal = d.journal,
           e.lock = d.lock \/ e.lock = "ours" \/ Settled(d)
    PROVE  DirectoryFits(e, alive)
<1>1. Activated(d) => Activated(e) BY SameLeaves
<1> QED BY <1>1, SameLeaves DEF DirectoryFits, JournalTells

LEMMA FitsWithoutOwner ==
    ASSUME NEW d, DirectoryFits(d, TRUE)
    PROVE  DirectoryFits(d, FALSE)
BY DEF DirectoryFits, JournalTells

-----------------------------------------------------------------------------
(* One step of one process.                                                *)

(* What may survive afterwards fits.                                       *)
DiskStep == dir' \in disk' /\ \A d \in disk' : DirectoryFits(d, OwnerAlive)

(* Process p, and nothing else, takes a step, as the owner or in the place *)
(* of a dead one.                                                          *)
StepOf(p) ==
    /\ TypeOK' /\ LockOwnership' /\ foreign' = foreign
    /\ \A q \in Procs \ {p} : proc'[q] = proc[q]
    /\ p = Owner => OwnerAlive
    /\ p # Owner => proc'[p].pc \notin OwnerPcs \cup {"preparePersist"}
    /\ dir' # dir => p = Owner \/ (~OwnerAlive /\ proc[p].pc \in HoldingPcs)

LEMMA SomePcs ==
    /\ MutatingPcs \subseteq OwningPcs /\ OwningPcs \subseteq HoldingPcs
    /\ PersistPcs \subseteq MutatingPcs \cup {"preparePersist"}
    /\ KnowingPcs \subseteq HoldingPcs \cup {"lockCreated"}
    /\ KnowingPcs \subseteq OwningPcs \cup OwnerPcs \cup {"preparePersist"}
    /\ "dead" \notin KnowingPcs /\ Outcomes \cap KnowingPcs = {}
    /\ Outcomes \cap (OwnerPcs \cup {"preparePersist"}) = {}
BY DEF MutatingPcs, OwningPcs, HoldingPcs, PersistPcs, KnowingPcs, LockedPcs, OwnerPcs, Outcomes

(* At any other pc a process relies on nothing.                            *)
LEMMA Ignorant ==
    ASSUME NEW p, proc'[p].pc \notin KnowingPcs
    PROVE  Knows(p)'
<1>1. /\ proc'[p].pc \notin {"lockCreated", "lockHeld", "lockWritten", "locked",
                             "preparePersist", "prepared", "observe"}
      /\ proc'[p].pc \notin MutatingPcs \ {"syncRemoved"}
  BY DEF KnowingPcs, LockedPcs
<1>2. ShapeKnown(p)' BY <1>1 DEF ShapeKnown, MutatingPcs, PersistPcs
<1>3. RecordKnown(p)' BY <1>1 DEF RecordKnown, MutatingPcs, PersistPcs
<1>4. LockKnown(p)' BY <1>1 DEF LockKnown, LockedPcs
<1> QED BY <1>2, <1>3, <1>4 DEF Knows

LEMMA KnowsAlike ==
    ASSUME NEW p, Knows(p), proc'[p] = proc[p], dir' = dir
    PROVE  Knows(p)'
BY DEF Knows, ShapeKnown, RecordKnown, LockKnown

(* Whoever changes the directory is the only one who relies on it.         *)
LEMMA OnlyOneKnows ==
    ASSUME SwapInv, NEW p \in Procs, StepOf(p), dir' # dir, NEW q \in Procs \ {p}
    PROVE  proc[q].pc \notin KnowingPcs
<1>1. CASE p = Owner
  <2>1. q \in Recoverers /\ OwnerAlive BY <1>1 DEF Procs, StepOf
  <2>2. proc[q].pc \notin OwningPcs BY <2>1 DEF SwapInv, LockOwnership
  <2> QED BY <2>1, <2>2, SomePcs DEF SwapInv
<1>2. CASE p # Owner
  <2>1. ~OwnerAlive /\ flock = p BY <1>2 DEF StepOf, SwapInv, LockOwnership
  <2>2. CASE q = Owner BY <2>1, <2>2, SomePcs DEF OwnerAlive
  <2>3. CASE q \in Recoverers
    <3>1. proc[q].pc \notin HoldingPcs BY <2>1 DEF SwapInv, LockOwnership
    <3>2. proc[q].pc \notin OwnerPcs BY <2>3 DEF SwapInv
    <3> QED BY <3>1, <3>2, SomePcs DEF OwnerPcs
  <2> QED BY <2>2, <2>3 DEF Procs
<1> QED BY <1>1, <1>2

LEMMA StepKept ==
    ASSUME SwapInv, NEW p \in Procs, StepOf(p), DiskStep, Knows(p)',
           dir.lock = "foreign" => dir'.lock = "foreign"
    PROVE  SwapInv'
<1>1. TypeOK' /\ LockOwnership' BY DEF StepOf
<1>2. OwnerAlive' => OwnerAlive
  BY DEF StepOf, OwnerAlive, Procs
<1>3. DiskFits'
  <2>1. ASSUME NEW d \in disk' PROVE DirectoryFits(d, OwnerAlive')
    <3>1. DirectoryFits(d, OwnerAlive) BY <2>1 DEF DiskStep
    <3>2. OwnerAlive \in BOOLEAN /\ OwnerAlive' \in BOOLEAN BY DEF OwnerAlive
    <3>3. CASE OwnerAlive' = OwnerAlive BY <3>1, <3>3
    <3>4. CASE OwnerAlive = TRUE /\ OwnerAlive' = FALSE
      BY <3>1, <3>4, FitsWithoutOwner
    <3> QED BY <1>2, <3>2, <3>3, <3>4
  <2> QED BY <2>1 DEF DiskFits, DiskStep
<1>4. (foreign = "holding" => dir.lock = "foreign")'
  BY DEF SwapInv, StepOf
<1>5. \A r \in Recoverers : proc'[r].pc \notin OwnerPcs \cup {"preparePersist"}
  BY ProcAssumption DEF SwapInv, StepOf, Procs
<1>6. ASSUME NEW q \in Procs PROVE Knows(q)'
  <2>1. CASE q = p BY <2>1
  <2>2. CASE q # p /\ dir' = dir
    BY <2>2, KnowsAlike DEF SwapInv, StepOf
  <2>3. CASE q # p /\ dir' # dir
    <3>1. proc'[q].pc \notin KnowingPcs BY <2>3, OnlyOneKnows DEF StepOf
    <3> QED BY <3>1, Ignorant
  <2> QED BY <2>1, <2>2, <2>3
<1> QED BY <1>1, <1>3, <1>4, <1>5, <1>6 DEF SwapInv

(* The directory and its durable states stay, or are made durable.         *)
LEMMA QuietStep ==
    ASSUME SwapInv, NEW p \in Procs, StepOf(p), Knows(p)', SameDirectory \/ SyncLinuxDirectory
    PROVE  SwapInv'
<1>1. dir' = dir /\ disk' \in {disk, {dir}} BY DEF SameDirectory, SyncLinuxDirectory
<1>2. DiskStep BY <1>1 DEF SwapInv, DiskFits, DiskStep
<1> QED BY <1>1, <1>2, StepKept

(* A change to a directory that fits.                                      *)
LEMMA ChangeStep ==
    ASSUME SwapInv, NEW p \in Procs, StepOf(p), Knows(p)', NEW d, Change(d),
           DirectoryFits(d, OwnerAlive), d.lock = dir.lock \/ dir.lock # "foreign"
    PROVE  SwapInv'
<1>1. dir' = d /\ disk' = disk \cup {d} BY DEF Change
<1>2. DiskStep BY <1>1 DEF SwapInv, DiskFits, DiskStep
<1> QED BY <1>1, <1>2, StepKept

LEMMA DirFits ==
    ASSUME SwapInv
    PROVE  dir \in Directory /\ DirectoryFits(dir, OwnerAlive)
BY DEF SwapInv, TypeOK, DiskFits

(* Where a process is after a step.                                        *)
LEMMA GotoRecord ==
    ASSUME TypeOK, NEW p \in Procs, NEW pc, Goto(p, pc)
    PROVE  /\ proc'[p].pc = pc /\ proc'[p].step = "begin"
           /\ proc'[p].j = proc[p].j /\ proc'[p].saw = proc[p].saw
           /\ \A q \in Procs \ {p} : proc'[q] = proc[q]
BY DEF TypeOK, Goto, Process

LEMMA IntoRecord ==
    ASSUME TypeOK, NEW p \in Procs, NEW s, Into(p, s)
    PROVE  /\ proc'[p].pc = proc[p].pc /\ proc'[p].step = s
           /\ proc'[p].j = proc[p].j /\ proc'[p].saw = proc[p].saw
           /\ \A q \in Procs \ {p} : proc'[q] = proc[q]
BY DEF TypeOK, Into, Process

(* A process inside the swap is the live owner, or holds the lock of a     *)
(* dead one.                                                               *)
LEMMA Inside ==
    ASSUME SwapInv, NEW p \in Procs, proc[p].pc \in MutatingPcs \cup {"preparePersist"}
    PROVE  /\ p = Owner => OwnerAlive
           /\ p # Owner => ~OwnerAlive /\ proc[p].pc \in MutatingPcs
           /\ p = Owner \/ (~OwnerAlive /\ proc[p].pc \in HoldingPcs)
<1>1. "dead" \notin MutatingPcs BY DEF MutatingPcs, PersistPcs
<1>2. p # Owner => p \in Recoverers BY DEF Procs
<1> QED BY <1>1, <1>2, SomePcs DEF SwapInv, LockOwnership, OwnerAlive

-----------------------------------------------------------------------------
(* Persist and Remove of the journal store.                                *)

LEMMA InsideStep ==
    ASSUME SwapInv, TypeOK', LockOwnership', NEW p \in Procs,
           proc[p].pc \in MutatingPcs \cup {"preparePersist"}, foreign' = foreign,
           \A q \in Procs \ {p} : proc'[q] = proc[q],
           p # Owner => proc'[p].pc \notin OwnerPcs \cup {"preparePersist"}
    PROVE  StepOf(p)
BY Inside DEF StepOf

LEMMA PersistPcsInside ==
    /\ PersistPcs \subseteq MutatingPcs \cup {"preparePersist"}
    /\ (PersistPcs \ {"preparePersist"}) \cap (OwnerPcs \cup {"preparePersist"}) = {}
    /\ MutatingPcs \cap (OwnerPcs \cup {"preparePersist"}) = {}
    /\ PersistPcs \subseteq LockedPcs
    /\ LockedPcs \cap {"lockCreated", "lockHeld"} = {}
BY DEF PersistPcs, MutatingPcs, OwnerPcs, LockedPcs

(* Inside Persist only the files change: what a process knows of the       *)
(* leaves and of the lock stays.                                           *)
LEMMA PersistKnows ==
    ASSUME NEW p, Knows(p), proc[p].pc \in PersistPcs, proc'[p].pc = proc[p].pc,
           proc'[p].j = proc[p].j, dir'.node = dir.node, dir'.lock = dir.lock,
           dir'.journal.state \in {dir.journal.state, proc[p].j.state},
           proc'[p].step = "created" => dir'.next.state # "none",
           proc'[p].step = "written" => dir'.next = proc[p].j,
           proc'[p].step = "changed" => dir'.journal = proc[p].j,
           proc'[p].saw = proc[p].saw
    PROVE  Knows(p)'
<1>1. proc[p].pc \in {"preparePersist", "stagePersist", "backupPersist",
                      "activatePersist", "verifiedPersist", "completePersist"}
  BY DEF PersistPcs
<1>2. Activated(dir) /\ proc[p].pc \in {"activatePersist", "verifiedPersist", "completePersist"}
        => Activated(dir)'
  <2>1. proc[p].pc \in {"activatePersist", "verifiedPersist", "completePersist"}
          => proc[p].j.state \in {"targetActivated", "completed"}
    BY DEF Knows, RecordKnown
  <2> QED BY <2>1, SameLeaves
<1>3. /\ Staged(dir) <=> Staged(dir)'
      /\ Beside(dir) <=> Beside(dir)'
      /\ Aside(dir) <=> Aside(dir)'
  BY SameLeaves
<1>4. ShapeKnown(p)' BY <1>1, <1>2, <1>3 DEF Knows, ShapeKnown
<1>5. RecordKnown(p)' BY <1>1 DEF Knows, RecordKnown
<1>6. LockKnown(p)' BY <1>1 DEF Knows, LockKnown
<1> QED BY <1>4, <1>5, <1>6 DEF Knows

LEMMA KeepsPersistCreate ==
    ASSUME SwapInv, TypeOK', LockOwnership', NEW p \in Procs, PersistCreate(p)
    PROVE  SwapInv'
<1> DEFINE d == [dir EXCEPT !.next = TornFile]
<1>1. dir \in Directory /\ DirectoryFits(dir, OwnerAlive) /\ TypeOK /\ Knows(p)
  BY DirFits DEF SwapInv
<1>2. proc[p].pc \in PersistPcs /\ Change(d) /\ Into(p, "created") /\ foreign' = foreign
  BY DEF PersistCreate, Environment
<1>3. d.node = dir.node /\ d.journal = dir.journal /\ d.lock = dir.lock /\ d.next = TornFile
  BY <1>1, FieldsOf
<1> HIDE DEF d
<1>4. TornFile.state = "torn" BY DEF TornFile, NoFile
<1>5. dir' = d BY <1>2 DEF Change
<1>6. Knows(p)' BY <1>1, <1>2, <1>3, <1>4, <1>5, IntoRecord, PersistKnows
<1>7. StepOf(p)
  BY <1>1, <1>2, IntoRecord, InsideStep, PersistPcsInside, ProcAssumption DEF SwapInv, Procs
<1>8. DirectoryFits(d, OwnerAlive) BY <1>1, <1>3, FitsAlike
<1> QED BY <1>2, <1>3, <1>6, <1>7, <1>8, ChangeStep

LEMMA KeepsPersistWrite ==
    ASSUME SwapInv, TypeOK', LockOwnership', NEW p \in Procs, PersistWrite(p)
    PROVE  SwapInv'
<1> DEFINE Written(d) == IF d.next.state = "none" THEN d ELSE [d EXCEPT !.next = proc[p].j]
<1>1. dir \in Directory /\ disk \subseteq Directory /\ TypeOK /\ Knows(p) BY DEF SwapInv, TypeOK
<1>2. /\ proc[p].pc \in PersistPcs /\ proc[p].step = "created" /\ Into(p, "written")
      /\ foreign' = foreign /\ dir' = Written(dir) /\ disk' = {Written(d) : d \in disk}
  BY DEF PersistWrite, Environment
<1>3. dir.next.state # "none" BY <1>1, <1>2 DEF Knows, RecordKnown
<1>4. /\ dir'.node = dir.node /\ dir'.journal = dir.journal /\ dir'.lock = dir.lock
      /\ dir'.next = proc[p].j
  BY <1>1, <1>2, <1>3, FieldsOf
<1>5. Knows(p)' BY <1>1, <1>2, <1>4, IntoRecord, PersistKnows
<1>6. StepOf(p)
  BY <1>1, <1>2, IntoRecord, InsideStep, PersistPcsInside, ProcAssumption DEF SwapInv, Procs
<1>7. DiskStep
  <2>1. ASSUME NEW d \in disk PROVE DirectoryFits(Written(d), OwnerAlive)
    <3>1. DirectoryFits(d, OwnerAlive) /\ d \in Directory BY <1>1 DEF SwapInv, DiskFits
    <3>2. /\ Written(d).node = d.node /\ Written(d).journal = d.journal
          /\ Written(d).lock = d.lock
      BY <3>1, FieldsOf
    <3> QED BY <3>1, <3>2, FitsAlike
  <2>2. dir' \in disk' BY <1>2 DEF SwapInv, DiskFits
  <2> QED BY <1>2, <2>1, <2>2 DEF DiskStep
<1> QED BY <1>4, <1>5, <1>6, <1>7, StepKept

(* The journal that a Persist puts in place tells the shape.               *)
LEMMA KeepsPersistReplace ==
    ASSUME SwapInv, TypeOK', LockOwnership', NEW p \in Procs, PersistReplace(p)
    PROVE  SwapInv'
<1> DEFINE d == [dir EXCEPT !.journal = dir.next, !.next = NoFile]
<1>1. dir \in Directory /\ DirectoryFits(dir, OwnerAlive) /\ TypeOK /\ Knows(p)
  BY DirFits DEF SwapInv
<1>2. /\ proc[p].pc \in PersistPcs /\ proc[p].step = "written" /\ Change(d)
      /\ Into(p, "changed") /\ foreign' = foreign
  BY DEF PersistReplace, Environment
<1>3. d.node = dir.node /\ d.journal = proc[p].j /\ d.lock = dir.lock
  <2>1. dir.next = proc[p].j BY <1>1, <1>2 DEF Knows, RecordKnown
  <2> QED BY <1>1, <2>1, FieldsOf
<1> HIDE DEF d
<1>5. dir' = d BY <1>2 DEF Change
<1>6. Knows(p)' BY <1>1, <1>2, <1>3, <1>5, IntoRecord, PersistKnows
<1>7. StepOf(p)
  BY <1>1, <1>2, IntoRecord, InsideStep, PersistPcsInside, ProcAssumption DEF SwapInv, Procs
<1>8. DirectoryFits(d, OwnerAlive)
  <2>1. d.lock = "ours"
    BY <1>1, <1>2, <1>3, PersistPcsInside DEF Knows, LockKnown
  <2>2. \/ Staged(d) /\ d.journal.state = "prepared"
        \/ Beside(d) /\ d.journal.state = "prepared"
        \/ Aside(d) /\ d.journal.state = "backupCreated"
        \/ Activated(d) /\ d.journal.state \in {"targetActivated", "completed"}
    <3>1. proc'[p].pc \in {"preparePersist", "stagePersist", "backupPersist",
                          "activatePersist", "verifiedPersist", "completePersist"}
      BY <1>1, <1>2, IntoRecord DEF PersistPcs
    <3>2. proc'[p].j = d.journal BY <1>1, <1>2, <1>3, IntoRecord
    <3> QED BY <1>5, <1>6, <3>1, <3>2 DEF Knows, ShapeKnown, RecordKnown
  <2> QED BY <2>1, <2>2 DEF DirectoryFits, JournalTells
<1> QED BY <1>2, <1>3, <1>6, <1>7, <1>8, ChangeStep

LEMMA KeepsPersistSync ==
    ASSUME SwapInv, TypeOK', LockOwnership', NEW p \in Procs, PersistSync(p)
    PROVE  SwapInv'
<1>1. dir \in Directory /\ TypeOK /\ Knows(p) BY DirFits DEF SwapInv
<1>2. /\ proc[p].pc \in PersistPcs /\ proc[p].step = "changed" /\ SyncLinuxDirectory
      /\ foreign' = foreign /\ dir' = dir
  BY DEF PersistSync, Environment, SyncLinuxDirectory
<1>3. /\ proc'[p].pc = AfterPersist(proc[p].pc) /\ proc'[p].step = "begin"
      /\ proc'[p].saw = proc[p].saw
      /\ proc[p].pc = "verifiedPersist" => proc'[p].j.state = "completed"
      /\ proc[p].pc # "verifiedPersist" => proc'[p].j.state = proc[p].j.state
      /\ \A q \in Procs \ {p} : proc'[q] = proc[q]
  BY <1>1 DEF PersistSync, TypeOK, Process, File
<1>4. \/ proc[p].pc = "preparePersist" /\ proc'[p].pc = "prepared"
      \/ proc[p].pc = "stagePersist" /\ proc'[p].pc = "backup"
      \/ proc[p].pc = "backupPersist" /\ proc'[p].pc = "activate"
      \/ proc[p].pc = "activatePersist" /\ proc'[p].pc = "finalize"
      \/ proc[p].pc = "verifiedPersist" /\ proc'[p].pc = "completePersist"
      \/ proc[p].pc = "completePersist" /\ proc'[p].pc = "removeBackup"
  BY <1>2, <1>3 DEF PersistPcs, AfterPersist
<1>5. StepOf(p)
  <2>1. p # Owner => proc[p].pc # "preparePersist" BY DEF SwapInv, Procs
  <2>2. p # Owner => proc'[p].pc \notin OwnerPcs \cup {"preparePersist"}
    BY <1>4, <2>1 DEF OwnerPcs
  <2> QED BY <1>2, <1>3, <2>2, InsideStep, PersistPcsInside
<1>6. ShapeKnown(p)' BY <1>1, <1>2, <1>3, <1>4 DEF Knows, ShapeKnown, RecordKnown
<1>7. RecordKnown(p)' BY <1>1, <1>2, <1>3, <1>4 DEF Knows, RecordKnown, PersistPcs
<1>8. LockKnown(p)' BY <1>1, <1>2, <1>4, PersistPcsInside DEF Knows, LockKnown
<1> QED BY <1>2, <1>5, <1>6, <1>7, <1>8, QuietStep DEF Knows

LEMMA KeepsUnlinkJournal ==
    ASSUME SwapInv, TypeOK', LockOwnership', NEW p \in Procs, UnlinkJournal(p)
    PROVE  SwapInv'
<1> DEFINE d == [dir EXCEPT !.journal = NoFile]
<1>1. dir \in Directory /\ DirectoryFits(dir, OwnerAlive) /\ TypeOK /\ Knows(p)
  BY DirFits DEF SwapInv
<1>2. proc[p].pc = "unlinkJournal" /\ Change(d) /\ Goto(p, "unlinkLock") /\ foreign' = foreign
  BY DEF UnlinkJournal, Environment, At
<1>3. d.node = dir.node /\ d.journal = NoFile /\ d.lock = dir.lock
  BY <1>1, FieldsOf
<1> HIDE DEF d
<1>4. NoFile.state = "none" BY DEF NoFile
<1>5. dir' = d BY <1>2 DEF Change
<1>6. "unlinkJournal" \in MutatingPcs /\ "unlinkJournal" \in LockedPcs
  BY DEF MutatingPcs, LockedPcs
<1>7. Settled(d) /\ d.lock = "ours"
  BY <1>1, <1>2, <1>3, <1>6, SameLeaves DEF Knows, ShapeKnown, LockKnown
<1>8. Knows(p)'
  <2>1. proc'[p].pc = "unlinkLock" BY <1>1, <1>2, GotoRecord
  <2> QED BY <1>5, <1>7, <2>1 DEF Knows, ShapeKnown, RecordKnown, LockKnown, PersistPcs
<1>9. StepOf(p)
  <2>1. "unlinkLock" \notin OwnerPcs \cup {"preparePersist"} BY DEF OwnerPcs
  <2> QED BY <1>1, <1>2, <1>6, <2>1, GotoRecord, InsideStep
<1>10. DirectoryFits(d, OwnerAlive)
  BY <1>3, <1>4, <1>7 DEF DirectoryFits, JournalTells, Settled
<1> QED BY <1>2, <1>3, <1>8, <1>9, <1>10, ChangeStep

LEMMA KeepsUnlinkLock ==
    ASSUME SwapInv, TypeOK', LockOwnership', NEW p \in Procs, UnlinkLock(p)
    PROVE  SwapInv'
<1> DEFINE d == [dir EXCEPT !.lock = "none"]
<1>1. dir \in Directory /\ DirectoryFits(dir, OwnerAlive) /\ TypeOK /\ Knows(p)
  BY DirFits DEF SwapInv
<1>2. proc[p].pc = "unlinkLock" /\ Change(d) /\ Goto(p, "syncRemoved") /\ foreign' = foreign
  BY DEF UnlinkLock, Environment, At
<1>3. d.node = dir.node /\ d.journal = dir.journal
  BY <1>1, FieldsOf
<1> HIDE DEF d
<1>4. "unlinkLock" \in MutatingPcs /\ "unlinkLock" \in LockedPcs
  BY DEF MutatingPcs, LockedPcs
<1>5. Settled(dir) /\ dir.lock = "ours"
  BY <1>1, <1>2, <1>4 DEF Knows, ShapeKnown, LockKnown
<1>6. Knows(p)'
  <2>1. "syncRemoved" \notin KnowingPcs BY DEF KnowingPcs, LockedPcs
  <2> QED BY <1>1, <1>2, <2>1, GotoRecord, Ignorant
<1>7. StepOf(p)
  <2>1. "syncRemoved" \notin OwnerPcs \cup {"preparePersist"} BY DEF OwnerPcs
  <2> QED BY <1>1, <1>2, <1>4, <2>1, GotoRecord, InsideStep
<1>8. DirectoryFits(d, OwnerAlive) BY <1>1, <1>3, <1>5, FitsAlike
<1> QED BY <1>2, <1>5, <1>6, <1>7, <1>8, ChangeStep

LEMMA KeepsSyncRemoved ==
    ASSUME SwapInv, TypeOK', LockOwnership', NEW p \in Procs, SyncRemoved(p)
    PROVE  SwapInv'
<1>1. TypeOK BY DEF SwapInv
<1>2. /\ proc[p].pc = "syncRemoved" /\ SyncLinuxDirectory /\ foreign' = foreign
      /\ \/ p # Owner /\ Goto(p, "unlinkRlock")
         \/ p = Owner /\ (Goto(p, "done") \/ Goto(p, "cancelled"))
  BY DEF SyncRemoved, Environment, At
<1>3. /\ proc'[p].pc \in {"unlinkRlock", "done", "cancelled"}
      /\ p # Owner => proc'[p].pc = "unlinkRlock"
      /\ \A q \in Procs \ {p} : proc'[q] = proc[q]
  BY <1>1, <1>2, GotoRecord
<1>4. Knows(p)'
  <2>1. KnowingPcs \cap {"unlinkRlock", "done", "cancelled"} = {}
    BY DEF KnowingPcs, LockedPcs, MutatingPcs, PersistPcs
  <2> QED BY <1>3, <2>1, Ignorant
<1>5. StepOf(p)
  <2>1. "unlinkRlock" \notin OwnerPcs \cup {"preparePersist"} /\ "syncRemoved" \in MutatingPcs
    BY DEF OwnerPcs, MutatingPcs
  <2> QED BY <1>2, <1>3, <2>1, InsideStep
<1> QED BY <1>2, <1>4, <1>5, QuietStep

-----------------------------------------------------------------------------
(* The renames, the final mode and the removal of the backup.              *)

LEMMA TicksAreNat == Ticks \subseteq Nat
BY TickAssumption

(* What a Move leaves in the record of the process.                        *)
LEMMA MoveRecord ==
    ASSUME TypeOK, NEW p \in Procs, NEW from, NEW to, Move(p, from, to)
    PROVE  /\ proc'[p].pc = proc[p].pc /\ proc'[p].step = "changed"
           /\ proc'[p].j = proc[p].j /\ proc'[p].saw = (proc[p].saw \ {from}) \cup {to}
           /\ \A q \in Procs \ {p} : proc'[q] = proc[q]
           /\ proc[p].step = "begin" /\ foreign' = foreign
           /\ \E t \in Nat : Change(Renamed(dir, from, to, t))
BY TicksAreNat DEF Move, TypeOK, Process, Environment

(* The journal that stands is still right in the shape a Move leads to.    *)
LEMMA KeepsMoveStage ==
    ASSUME SwapInv, TypeOK', LockOwnership', NEW p \in Procs, proc[p].pc = "stage",
           Move(p, "stage", "prepared")
    PROVE  SwapInv'
<1>1. dir \in Directory /\ DirectoryFits(dir, OwnerAlive) /\ TypeOK /\ Knows(p)
  BY DirFits DEF SwapInv
<1>2. PICK t \in Nat : Change(Renamed(dir, "stage", "prepared", t))
  BY <1>1, MoveRecord
<1> DEFINE d == Renamed(dir, "stage", "prepared", t)
<1>3. d.journal = dir.journal /\ d.lock = dir.lock
  BY <1>1, RenamedLeaves DEF Leaves
<1>4. "stage" \in MutatingPcs /\ "stage" \in LockedPcs BY DEF MutatingPcs, LockedPcs
<1>5. Staged(dir) /\ dir.lock = "ours" /\ proc[p].j.state = "prepared"
  BY <1>1, <1>4, MoveRecord DEF Knows, ShapeKnown, RecordKnown, LockKnown
<1>6. Beside(d) BY <1>1, <1>5, StagedToBeside
<1> HIDE DEF d
<1>7. dir.journal.state \notin {"torn", "backupCreated", "targetActivated", "completed"}
  <2>1. ~Aside(dir) /\ ~Activated(dir) /\ ~Over(dir)
    BY <1>5 DEF Staged, Aside, Activated, Over, Kept, Payload, NoNode
  <2> QED BY <1>1, <2>1 DEF DirectoryFits, JournalTells
<1>8. DirectoryFits(d, OwnerAlive)
  BY <1>3, <1>5, <1>6, <1>7 DEF DirectoryFits, JournalTells
<1>9. dir' = d BY <1>2 DEF Change, d
<1>10. Knows(p)'
  <2>1. /\ proc'[p].pc = "stage" /\ proc'[p].step = "changed"
        /\ proc'[p].j.state = "prepared"
    BY <1>1, <1>5, MoveRecord
  <2> QED BY <1>3, <1>5, <1>6, <1>9, <2>1
          DEF Knows, ShapeKnown, RecordKnown, LockKnown, PersistPcs
<1>11. StepOf(p)
  BY <1>1, <1>4, MoveRecord, InsideStep, PersistPcsInside
<1> QED BY <1>2, <1>3, <1>8, <1>10, <1>11, ChangeStep DEF d

LEMMA KeepsMoveBackup ==
    ASSUME SwapInv, TypeOK', LockOwnership', NEW p \in Procs, proc[p].pc = "backup",
           Move(p, "target", "backup")
    PROVE  SwapInv'
<1>1. dir \in Directory /\ DirectoryFits(dir, OwnerAlive) /\ TypeOK /\ Knows(p)
  BY DirFits DEF SwapInv
<1>2. PICK t \in Nat : Change(Renamed(dir, "target", "backup", t))
  BY <1>1, MoveRecord
<1> DEFINE d == Renamed(dir, "target", "backup", t)
<1>3. d.journal = dir.journal /\ d.lock = dir.lock
  BY <1>1, RenamedLeaves DEF Leaves
<1>4. "backup" \in MutatingPcs /\ "backup" \in LockedPcs BY DEF MutatingPcs, LockedPcs
<1>5. Beside(dir) /\ dir.lock = "ours"
  BY <1>1, <1>4, MoveRecord DEF Knows, ShapeKnown, LockKnown
<1>6. Aside(d) BY <1>1, <1>5, BesideToAside
<1> HIDE DEF d
<1>7. dir.journal.state \notin {"torn", "backupCreated", "targetActivated", "completed"}
  <2>1. ~Aside(dir) /\ ~Activated(dir) /\ ~Over(dir)
    BY <1>5 DEF Beside, Aside, Activated, Over, Kept, Payload, NoNode
  <2> QED BY <1>1, <2>1 DEF DirectoryFits, JournalTells
<1>8. DirectoryFits(d, OwnerAlive)
  BY <1>3, <1>5, <1>6, <1>7 DEF DirectoryFits, JournalTells
<1>9. dir' = d BY <1>2 DEF Change, d
<1>10. Knows(p)'
  <2>1. /\ proc'[p].pc = "backup" /\ proc'[p].step = "changed"
        /\ "backup" \in proc'[p].saw
    BY <1>1, <1>5, MoveRecord
  <2> QED BY <1>3, <1>5, <1>6, <1>9, <2>1
          DEF Knows, ShapeKnown, RecordKnown, LockKnown, PersistPcs
<1>11. StepOf(p)
  BY <1>1, <1>4, MoveRecord, InsideStep, PersistPcsInside
<1> QED BY <1>2, <1>3, <1>8, <1>10, <1>11, ChangeStep DEF d

(* The owner activates under backupCreated, a recoverer without the owner. *)
LEMMA KeepsMoveActivate ==
    ASSUME SwapInv, TypeOK', LockOwnership', NEW p \in Procs, proc[p].pc = "activate",
           Move(p, "prepared", "target")
    PROVE  SwapInv'
<1>1. dir \in Directory /\ DirectoryFits(dir, OwnerAlive) /\ TypeOK /\ Knows(p)
  BY DirFits DEF SwapInv
<1>2. PICK t \in Nat : Change(Renamed(dir, "prepared", "target", t))
  BY <1>1, MoveRecord
<1> DEFINE d == Renamed(dir, "prepared", "target", t)
<1>3. d.journal = dir.journal /\ d.lock = dir.lock
  BY <1>1, RenamedLeaves DEF Leaves
<1>4. "activate" \in MutatingPcs /\ "activate" \in LockedPcs BY DEF MutatingPcs, LockedPcs
<1>5. /\ Aside(dir) /\ dir.lock = "ours" /\ "backup" \in proc[p].saw
      /\ p = Owner => dir.journal.state = "backupCreated"
  BY <1>1, <1>4, MoveRecord DEF Knows, ShapeKnown, RecordKnown, LockKnown
<1>6. Activated(d) BY <1>1, <1>5, AsideToActivated
<1> HIDE DEF d
<1>7. dir.journal.state # "torn" BY <1>1 DEF DirectoryFits, JournalTells
<1>8. DirectoryFits(d, OwnerAlive)
  <2>1. p # Owner => ~OwnerAlive BY <1>4, Inside
  <2> QED BY <1>3, <1>5, <1>6, <1>7, <2>1 DEF DirectoryFits, JournalTells
<1>9. dir' = d BY <1>2 DEF Change, d
<1>10. Knows(p)'
  <2>1. /\ proc'[p].pc = "activate" /\ proc'[p].step = "changed"
        /\ "backup" \in proc'[p].saw
    BY <1>1, <1>5, MoveRecord
  <2> QED BY <1>3, <1>5, <1>6, <1>9, <2>1
          DEF Knows, ShapeKnown, RecordKnown, LockKnown, PersistPcs
<1>11. StepOf(p)
  BY <1>1, <1>4, MoveRecord, InsideStep, PersistPcsInside
<1> QED BY <1>2, <1>3, <1>8, <1>10, <1>11, ChangeStep DEF d

LEMMA KeepsFinalizeRoot ==
    ASSUME SwapInv, TypeOK', LockOwnership', NEW p \in Procs, proc[p].pc = "finalize",
           "backup" \in proc[p].saw, FinalizeRoot(p)
    PROVE  SwapInv'
<1>1. dir \in Directory /\ DirectoryFits(dir, OwnerAlive) /\ TypeOK /\ Knows(p)
  BY DirFits DEF SwapInv
<1>2. Into(p, "changed") /\ foreign' = foreign BY DEF FinalizeRoot, Environment
<1>3. PICK t \in Nat : Change(Finalized(dir, "target", t))
  BY TicksAreNat DEF FinalizeRoot
<1> DEFINE d == Finalized(dir, "target", t)
<1>4. "finalize" \in MutatingPcs /\ "finalize" \in LockedPcs BY DEF MutatingPcs, LockedPcs
<1>5. Activated(dir) /\ dir.lock = "ours"
  BY <1>1, <1>4 DEF Knows, ShapeKnown, LockKnown
<1>6. /\ Activated(d) /\ d.node["target"].final
      /\ d.journal = dir.journal /\ d.lock = dir.lock
  BY <1>1, <1>5, FinalizedKeeps
<1> HIDE DEF d
<1>7. DirectoryFits(d, OwnerAlive)
  <2>1. ~Staged(dir) /\ ~Beside(dir) /\ ~Aside(dir)
    BY <1>5 DEF Staged, Beside, Aside, Activated, Payload, Kept, NoNode
  <2> QED BY <1>1, <1>5, <1>6, <2>1 DEF DirectoryFits, JournalTells
<1>8. dir' = d BY <1>3 DEF Change, d
<1>9. Knows(p)'
  <2>1. /\ proc'[p].pc = "finalize" /\ proc'[p].step = "changed"
        /\ "backup" \in proc'[p].saw
    BY <1>1, <1>2, IntoRecord
  <2> QED BY <1>5, <1>6, <1>8, <2>1
          DEF Knows, ShapeKnown, RecordKnown, LockKnown, PersistPcs
<1>10. StepOf(p)
  BY <1>1, <1>2, <1>4, IntoRecord, InsideStep, PersistPcsInside
<1> QED BY <1>3, <1>6, <1>7, <1>9, <1>10, ChangeStep DEF d

(* The fsync after a rename, and the record for the next journal.          *)
LEMMA MoveSyncedRecord ==
    ASSUME TypeOK, NEW p \in Procs, NEW pc, NEW j, MoveSynced(p, pc, j)
    PROVE  /\ proc'[p].pc = pc /\ proc'[p].step = "begin"
           /\ proc'[p].j = j /\ proc'[p].saw = proc[p].saw
           /\ \A q \in Procs \ {p} : proc'[q] = proc[q]
           /\ proc[p].step = "changed" /\ foreign' = foreign
           /\ SyncLinuxDirectory /\ dir' = dir
BY DEF MoveSynced, TypeOK, Process, Environment, SyncLinuxDirectory

LEMMA KeepsMoveSynced ==
    ASSUME SwapInv, TypeOK', LockOwnership', NEW p \in Procs,
           StageSynced(p) \/ BackupSynced(p) \/ ActivateSynced(p)
    PROVE  SwapInv'
<1>1. TypeOK /\ Knows(p) /\ proc[p].j \in File BY DEF SwapInv, TypeOK, Process
<1>2. /\ "stage" \in MutatingPcs /\ "stage" \in LockedPcs
      /\ "backup" \in MutatingPcs /\ "backup" \in LockedPcs
      /\ "activate" \in MutatingPcs /\ "activate" \in LockedPcs
      /\ {"stagePersist", "backupPersist", "activatePersist"} \subseteq MutatingPcs
  BY DEF MutatingPcs, LockedPcs, PersistPcs
<1>3. CASE StageSynced(p)
  <2> DEFINE j == [proc[p].j EXCEPT !.stage = dir.node["prepared"]]
  <2>1. proc[p].pc = "stage" /\ MoveSynced(p, "stagePersist", j)
    BY <1>3 DEF StageSynced, At
  <2>2. j.state = proc[p].j.state BY <1>1 DEF File
  <2> HIDE DEF j
  <2>3. Knows(p)'
    BY <1>1, <1>2, <2>1, <2>2, MoveSyncedRecord
    DEF Knows, ShapeKnown, RecordKnown, LockKnown, PersistPcs
  <2>4. StepOf(p) BY <1>1, <1>2, <2>1, MoveSyncedRecord, InsideStep, PersistPcsInside
  <2> QED BY <1>1, <2>1, <2>3, <2>4, MoveSyncedRecord, QuietStep
<1>4. CASE BackupSynced(p)
  <2> DEFINE j == [proc[p].j EXCEPT !.target = dir.node["backup"], !.state = "backupCreated"]
  <2>1. proc[p].pc = "backup" /\ MoveSynced(p, "backupPersist", j)
    BY <1>4 DEF BackupSynced, At
  <2>2. j.state = "backupCreated" BY <1>1 DEF File
  <2> HIDE DEF j
  <2>3. Knows(p)'
    BY <1>1, <1>2, <2>1, <2>2, MoveSyncedRecord
    DEF Knows, ShapeKnown, RecordKnown, LockKnown, PersistPcs
  <2>4. StepOf(p) BY <1>1, <1>2, <2>1, MoveSyncedRecord, InsideStep, PersistPcsInside
  <2> QED BY <1>1, <2>1, <2>3, <2>4, MoveSyncedRecord, QuietStep
<1>5. CASE ActivateSynced(p)
  <2> DEFINE j == [proc[p].j EXCEPT !.stage = dir.node["target"], !.state = "targetActivated"]
  <2>1. proc[p].pc = "activate" /\ MoveSynced(p, "activatePersist", j)
    BY <1>5 DEF ActivateSynced, At
  <2>2. j.state = "targetActivated" BY <1>1 DEF File
  <2> HIDE DEF j
  <2>3. Knows(p)'
    BY <1>1, <1>2, <2>1, <2>2, MoveSyncedRecord
    DEF Knows, ShapeKnown, RecordKnown, LockKnown, PersistPcs
  <2>4. StepOf(p) BY <1>1, <1>2, <2>1, MoveSyncedRecord, InsideStep, PersistPcsInside
  <2> QED BY <1>1, <2>1, <2>3, <2>4, MoveSyncedRecord, QuietStep
<1> QED BY <1>3, <1>4, <1>5

(* The backup goes behind the completed journal.                           *)
LEMMA KeepsBackupRemoval ==
    ASSUME SwapInv, TypeOK', LockOwnership', NEW p \in Procs,
           GutBackup(p) \/ UnlinkBackup(p) \/ BackupRemoved(p)
    PROVE  SwapInv'
<1>1. dir \in Directory /\ DirectoryFits(dir, OwnerAlive) /\ TypeOK /\ Knows(p)
  BY DirFits DEF SwapInv
<1>2. proc[p].pc = "removeBackup" /\ foreign' = foreign
  BY DEF GutBackup, UnlinkBackup, BackupRemoved, At, Environment
<1>3. /\ "removeBackup" \in MutatingPcs /\ "removeBackup" \in LockedPcs
      /\ "unlinkJournal" \in MutatingPcs
  BY DEF MutatingPcs, LockedPcs
<1>4. /\ proc[p].step = "changed" => Over(dir)
      /\ proc[p].step # "changed" => Activated(dir)
      /\ dir.node["target"].final
      /\ dir.journal.state = "completed" /\ dir.lock = "ours"
  BY <1>1, <1>2, <1>3 DEF Knows, ShapeKnown, RecordKnown, LockKnown
<1>5. CASE GutBackup(p)
  <2>1. proc[p].step = "begin" /\ Into(p, "written") BY <1>5 DEF GutBackup
  <2>2. PICK t \in Nat : Change(Gutted(dir, "backup", t))
    BY <1>5, TicksAreNat DEF GutBackup
  <2> DEFINE d == Gutted(dir, "backup", t)
  <2>3. /\ Activated(d) /\ d.node["target"].final
        /\ d.journal = dir.journal /\ d.lock = dir.lock
    BY <1>1, <1>4, <2>1, GuttedKeeps
  <2> HIDE DEF d
  <2>4. DirectoryFits(d, OwnerAlive) BY <1>4, <2>3 DEF DirectoryFits, JournalTells
  <2>5. dir' = d BY <2>2 DEF Change, d
  <2>6. proc'[p].pc = "removeBackup" /\ proc'[p].step = "written"
    BY <1>1, <1>2, <2>1, IntoRecord
  <2>7. Knows(p)'
    BY <1>4, <2>3, <2>5, <2>6 DEF Knows, ShapeKnown, RecordKnown, LockKnown, PersistPcs
  <2>8. StepOf(p)
    BY <1>1, <1>2, <1>3, <2>1, IntoRecord, InsideStep, PersistPcsInside
  <2> QED BY <2>2, <2>3, <2>4, <2>7, <2>8, ChangeStep DEF d
<1>6. CASE UnlinkBackup(p)
  <2> DEFINE d == Removed(dir, "backup")
  <2>1. proc[p].step = "written" /\ Into(p, "changed") /\ Change(d)
    BY <1>6 DEF UnlinkBackup
  <2>2. /\ Over(d) /\ d.node["target"].final
        /\ d.journal = dir.journal /\ d.lock = dir.lock
    BY <1>1, <1>4, <2>1, RemovedEnds
  <2> HIDE DEF d
  <2>3. DirectoryFits(d, OwnerAlive) BY <1>4, <2>2 DEF DirectoryFits, JournalTells
  <2>4. dir' = d BY <2>1 DEF Change
  <2>5. proc'[p].pc = "removeBackup" /\ proc'[p].step = "changed"
    BY <1>1, <1>2, <2>1, IntoRecord
  <2>6. Knows(p)'
    BY <1>4, <2>2, <2>4, <2>5 DEF Knows, ShapeKnown, RecordKnown, LockKnown, PersistPcs
  <2>7. StepOf(p)
    BY <1>1, <1>2, <1>3, <2>1, IntoRecord, InsideStep, PersistPcsInside
  <2> QED BY <2>1, <2>2, <2>3, <2>6, <2>7, ChangeStep
<1>7. CASE BackupRemoved(p)
  <2>1. /\ proc[p].step = "changed" /\ Goto(p, "unlinkJournal") /\ SyncLinuxDirectory
        /\ dir' = dir
    BY <1>7 DEF BackupRemoved, SyncLinuxDirectory
  <2>2. proc'[p].pc = "unlinkJournal" BY <1>1, <2>1, GotoRecord
  <2>3. Knows(p)'
    BY <1>4, <2>1, <2>2 DEF Knows, ShapeKnown, RecordKnown, LockKnown, PersistPcs, Settled
  <2>4. StepOf(p)
    BY <1>1, <1>2, <1>3, <2>1, GotoRecord, InsideStep, PersistPcsInside
  <2> QED BY <2>1, <2>3, <2>4, QuietStep
<1> QED BY <1>5, <1>6, <1>7

LEMMA KeepsProcessStep ==
    ASSUME SwapInv, TypeOK', LockOwnership', NEW p \in Procs, ProcessStep(p)
    PROVE  SwapInv'
BY KeepsPersistCreate, KeepsPersistWrite, KeepsPersistReplace, KeepsPersistSync,
   KeepsUnlinkJournal, KeepsUnlinkLock, KeepsSyncRemoved, KeepsMoveSynced, KeepsBackupRemoval
DEF ProcessStep, StoreStep, SwapStep

-----------------------------------------------------------------------------
(* The owner.                                                              *)

LEMMA OwnerMoves ==
    ASSUME SwapInv, TypeOK', LockOwnership', OwnerAlive, foreign' = foreign,
           \A q \in Procs \ {Owner} : proc'[q] = proc[q]
    PROVE  Owner \in Procs /\ StepOf(Owner)
BY DEF StepOf, Procs

(* Five shapes are not in each other's way.                                *)
LEMMA ShapesDiffer ==
    ASSUME NEW d
    PROVE  /\ Staged(d) => ~Beside(d) /\ ~Aside(d) /\ ~Activated(d) /\ ~Over(d)
           /\ Beside(d) => ~Aside(d) /\ ~Activated(d) /\ ~Over(d)
           /\ Aside(d) => ~Activated(d) /\ ~Over(d)
           /\ Activated(d) => ~Over(d)
BY DEF Staged, Beside, Aside, Activated, Over, Kept, Payload, NoNode

(* In a settled directory the lock may change.                             *)
LEMMA LockChangeFits ==
    ASSUME NEW d \in Directory, NEW alive, DirectoryFits(d, alive), Settled(d), NEW l
    PROVE  DirectoryFits([d EXCEPT !.lock = l], alive)
<1> DEFINE e == [d EXCEPT !.lock = l]
<1>1. e.node = d.node /\ e.journal = d.journal BY FieldsOf
<1> HIDE DEF e
<1>2. DirectoryFits(e, alive) BY <1>1, FitsAlike
<1> QED BY <1>2 DEF e

LEMMA KeepsTakingLock ==
    ASSUME SwapInv, TypeOK', LockOwnership',
           Construct \/ CreateLock \/ FlockLock \/ WriteLock \/ SyncLock
    PROVE  SwapInv'
<1>1. dir \in Directory /\ disk \subseteq Directory /\ DirectoryFits(dir, OwnerAlive) /\ TypeOK
  BY DirFits DEF SwapInv, TypeOK
<1>2. Owner \in Procs BY DEF Procs
<1>3. Knows(Owner) BY <1>2 DEF SwapInv
<1>4. /\ proc[Owner].pc \in {"new", "open", "lockCreated", "lockHeld", "lockWritten"}
      /\ OwnerAlive /\ foreign' = foreign
  BY DEF Construct, CreateLock, FlockLock, WriteLock, SyncLock, OwnerAt, At, Environment, OwnerAlive
<1>5. CASE Construct
  <2>1. proc'[Owner].pc = "open" /\ \A q \in Procs \ {Owner} : proc'[q] = proc[q]
    BY <1>1, <1>2, <1>5 DEF Construct, TypeOK, Process
  <2>2. "open" \notin KnowingPcs
    BY DEF KnowingPcs, LockedPcs, MutatingPcs, PersistPcs
  <2> QED BY <1>4, <1>5, <2>1, <2>2, OwnerMoves, Ignorant, QuietStep DEF Construct
<1>6. CASE CreateLock
  <2> DEFINE d == [dir EXCEPT !.lock = "torn"]
  <2>1. Change(d) /\ Goto(Owner, "lockCreated") /\ dir.lock = "none"
    BY <1>6 DEF CreateLock, OwnerAt, OwnerAccepts, At
  <2>2. d.node = dir.node /\ d.journal = dir.journal /\ d.lock = "torn" BY <1>1, FieldsOf
  <2> HIDE DEF d
  <2>3. DirectoryFits(d, OwnerAlive)
    BY <1>1, <2>1, <2>2, FitsAlike DEF DirectoryFits
  <2>4. proc'[Owner].pc = "lockCreated" /\ dir' = d
    BY <1>1, <1>2, <2>1, GotoRecord DEF Change
  <2>5. "lockCreated" \notin LockedPcs BY DEF LockedPcs, MutatingPcs, PersistPcs
  <2>6. Knows(Owner)'
    BY <2>2, <2>4, <2>5 DEF Knows, ShapeKnown, RecordKnown, LockKnown, PersistPcs
  <2> QED BY <1>1, <1>2, <1>4, <2>1, <2>3, <2>6, GotoRecord, OwnerMoves, ChangeStep
<1>7. CASE FlockLock
  <2>1. SameDirectory /\ dir' = dir /\ Goto(Owner, "lockHeld") /\ proc[Owner].pc = "lockCreated"
    BY <1>7 DEF FlockLock, SameDirectory, OwnerAt, At
  <2>2. proc'[Owner].pc = "lockHeld" BY <1>1, <1>2, <2>1, GotoRecord
  <2>3. "lockHeld" \notin LockedPcs BY DEF LockedPcs, MutatingPcs, PersistPcs
  <2>4. Knows(Owner)'
    BY <1>3, <2>1, <2>2, <2>3 DEF Knows, ShapeKnown, RecordKnown, LockKnown, PersistPcs
  <2> QED BY <1>1, <1>2, <1>4, <2>1, <2>4, GotoRecord, OwnerMoves, QuietStep
<1>8. CASE WriteLock
  <2> DEFINE Written(d) == IF d.lock = "torn" THEN [d EXCEPT !.lock = "ours"] ELSE d
  <2>1. /\ dir' = Written(dir) /\ disk' = {Written(d) : d \in disk}
        /\ Goto(Owner, "lockWritten") /\ proc[Owner].pc = "lockHeld"
    BY <1>8 DEF WriteLock, OwnerAt, At
  <2>2. dir.lock = "torn" BY <1>3, <2>1 DEF Knows, LockKnown
  <2>3. dir'.node = dir.node /\ dir'.lock = "ours" BY <1>1, <2>1, <2>2, FieldsOf
  <2>4. Settled(dir') BY <1>1, <2>2, <2>3, SameLeaves DEF DirectoryFits
  <2>5. Knows(Owner)'
    <3>1. proc'[Owner].pc = "lockWritten" BY <1>1, <1>2, <2>1, GotoRecord
    <3> QED BY <2>3, <2>4, <3>1 DEF Knows, ShapeKnown, RecordKnown, LockKnown, PersistPcs
  <2>6. DiskStep
    <3>1. ASSUME NEW d \in disk PROVE DirectoryFits(Written(d), OwnerAlive)
      <4>1. DirectoryFits(d, OwnerAlive) /\ d \in Directory BY <1>1 DEF SwapInv, DiskFits
      <4>2. /\ Written(d).node = d.node /\ Written(d).journal = d.journal
            /\ Written(d).lock \in {d.lock, "ours"}
        BY <4>1, FieldsOf
      <4> QED BY <4>1, <4>2, FitsAlike
    <3>2. dir' \in disk' BY <2>1 DEF SwapInv, DiskFits
    <3> QED BY <2>1, <3>1, <3>2 DEF DiskStep
  <2> QED BY <1>1, <1>2, <1>4, <2>1, <2>2, <2>5, <2>6, GotoRecord, OwnerMoves, StepKept
<1>9. CASE SyncLock
  <2>1. /\ SyncLinuxDirectory /\ dir' = dir /\ Goto(Owner, "locked")
        /\ proc[Owner].pc = "lockWritten"
    BY <1>9 DEF SyncLock, SyncLinuxDirectory, OwnerAt, At
  <2>2. proc'[Owner].pc = "locked" BY <1>1, <1>2, <2>1, GotoRecord
  <2>3. Knows(Owner)'
    BY <1>3, <2>1, <2>2 DEF Knows, ShapeKnown, RecordKnown, LockKnown, PersistPcs, LockedPcs
  <2> QED BY <1>1, <1>2, <1>4, <2>1, <2>3, GotoRecord, OwnerMoves, QuietStep
<1> QED BY <1>5, <1>6, <1>7, <1>8, <1>9

LEMMA KeepsPreparing ==
    ASSUME SwapInv, TypeOK', LockOwnership',
           PrepareDurableJournal \/ CancelPrepared \/ BeginExecute
    PROVE  SwapInv'
<1>1. dir \in Directory /\ TypeOK BY DirFits DEF SwapInv
<1>2. Owner \in Procs BY DEF Procs
<1>3. Knows(Owner) BY <1>2 DEF SwapInv
<1>4. /\ proc[Owner].pc \in {"locked", "prepared"} /\ proc[Owner].step = "begin"
      /\ OwnerAlive /\ foreign' = foreign /\ SameDirectory /\ dir' = dir
  BY DEF PrepareDurableJournal, CancelPrepared, BeginExecute, OwnerAt, At, Environment,
         OwnerAlive, SameDirectory
<1>5. dir.lock = "ours" BY <1>3, <1>4 DEF Knows, LockKnown, LockedPcs
<1>6. CASE PrepareDurableJournal
  <2>1. /\ proc'[Owner].pc = "preparePersist" /\ proc'[Owner].step = "begin"
        /\ proc'[Owner].j.state = "prepared"
        /\ \A q \in Procs \ {Owner} : proc'[q] = proc[q]
    BY <1>1, <1>2, <1>4, <1>6 DEF PrepareDurableJournal, TypeOK, Process, File
  <2>2. Staged(dir)
    <3>1. proc[Owner].pc = "locked" /\ OwnerAccepts
      BY <1>6 DEF PrepareDurableJournal, OwnerAt, At
    <3>2. Present(dir, "stage") BY <3>1 DEF OwnerAccepts, Matches
    <3>3. Settled(dir) BY <1>3, <3>1 DEF Knows, ShapeKnown
    <3> QED BY <3>2, <3>3 DEF Settled, Over, Present, NoNode
  <2>3. Knows(Owner)'
    BY <1>4, <1>5, <2>1, <2>2 DEF Knows, ShapeKnown, RecordKnown, LockKnown, PersistPcs
  <2> QED BY <1>4, <2>1, <2>3, OwnerMoves, QuietStep
<1>7. CASE CancelPrepared
  <2>1. proc[Owner].pc = "prepared" /\ (Goto(Owner, "unlinkJournal") \/ Goto(Owner, "failed"))
    BY <1>7 DEF CancelPrepared, OwnerAt, At
  <2>2. /\ proc'[Owner].pc \in {"unlinkJournal", "failed"}
        /\ \A q \in Procs \ {Owner} : proc'[q] = proc[q]
    BY <1>1, <1>2, <2>1, GotoRecord
  <2>3. Knows(Owner)'
    <3>1. CASE proc'[Owner].pc = "failed"
      <4>1. "failed" \notin KnowingPcs BY DEF KnowingPcs, LockedPcs, MutatingPcs, PersistPcs
      <4> QED BY <3>1, <4>1, Ignorant
    <3>2. CASE proc'[Owner].pc = "unlinkJournal"
      BY <1>3, <1>4, <1>5, <2>1, <3>2
      DEF Knows, ShapeKnown, RecordKnown, LockKnown, PersistPcs, Settled
    <3> QED BY <2>2, <3>1, <3>2
  <2> QED BY <1>4, <2>2, <2>3, OwnerMoves, QuietStep
<1>8. CASE BeginExecute
  <2>1. proc[Owner].pc = "prepared" /\ Goto(Owner, "stage")
    BY <1>8 DEF BeginExecute, OwnerAt, At
  <2>2. Knows(Owner)'
    BY <1>1, <1>2, <1>3, <1>4, <1>5, <2>1, GotoRecord
    DEF Knows, ShapeKnown, RecordKnown, LockKnown, PersistPcs
  <2> QED BY <1>1, <1>2, <1>4, <2>1, <2>2, GotoRecord, OwnerMoves, QuietStep
<1> QED BY <1>6, <1>7, <1>8

LEMMA KeepsExecute ==
    ASSUME SwapInv, TypeOK', LockOwnership',
           ExecuteStage \/ ExecuteBackup \/ ExecuteActivate \/ ExecuteFinalize \/ ExecuteVerified
    PROVE  SwapInv'
<1>1. dir \in Directory /\ TypeOK BY DirFits DEF SwapInv
<1>2. Owner \in Procs BY DEF Procs
<1>3. Knows(Owner) BY <1>2 DEF SwapInv
<1>4. CASE ExecuteStage BY <1>2, <1>4, KeepsMoveStage DEF ExecuteStage, OwnerAt, At
<1>5. CASE ExecuteBackup BY <1>2, <1>5, KeepsMoveBackup DEF ExecuteBackup, OwnerAt, At
<1>6. CASE ExecuteActivate BY <1>2, <1>6, KeepsMoveActivate DEF ExecuteActivate, OwnerAt, At
<1>7. CASE ExecuteFinalize
  <2>1. proc[Owner].pc = "finalize" /\ FinalizeRoot(Owner)
    BY <1>7 DEF ExecuteFinalize, OwnerAt, At
  <2>2. "backup" \in proc[Owner].saw BY <1>3, <2>1 DEF Knows, ShapeKnown
  <2> QED BY <1>2, <2>1, <2>2, KeepsFinalizeRoot
<1>8. CASE ExecuteVerified
  <2>1. /\ proc[Owner].pc = "finalize" /\ proc[Owner].step = "changed"
        /\ SyncLinuxDirectory /\ dir' = dir /\ foreign' = foreign /\ OwnerAlive
    BY <1>8 DEF ExecuteVerified, At, SyncLinuxDirectory, Environment, OwnerAlive
  <2>2. /\ proc'[Owner].pc = "completePersist" /\ proc'[Owner].step = "begin"
        /\ proc'[Owner].j.state = "completed"
        /\ \A q \in Procs \ {Owner} : proc'[q] = proc[q]
    BY <1>1, <1>2, <1>8 DEF ExecuteVerified, TypeOK, Process, File
  <2>3. Activated(dir) /\ dir.node["target"].final /\ dir.lock = "ours"
    <3>1. "finalize" \in LockedPcs BY DEF LockedPcs, MutatingPcs
    <3> QED BY <1>3, <2>1, <3>1 DEF Knows, ShapeKnown, LockKnown
  <2>4. Knows(Owner)'
    BY <2>1, <2>2, <2>3 DEF Knows, ShapeKnown, RecordKnown, LockKnown, PersistPcs
  <2> QED BY <2>1, <2>2, <2>4, OwnerMoves, QuietStep
<1> QED BY <1>4, <1>5, <1>6, <1>7, <1>8

(* A thrown owner drops its lock only while the directory is settled.      *)
LEMMA KeepsThrowing ==
    ASSUME SwapInv, TypeOK', LockOwnership', OwnerThrows
    PROVE  SwapInv'
<1>1. dir \in Directory /\ TypeOK /\ DirectoryFits(dir, OwnerAlive) BY DirFits DEF SwapInv
<1>2. Owner \in Procs BY DEF Procs
<1>3. Knows(Owner) BY <1>2 DEF SwapInv
<1>4. OwnerAlive /\ foreign' = foreign /\ Goto(Owner, "failed")
  BY DEF OwnerThrows, OwnerAlive, At
<1>5. StepOf(Owner) BY <1>1, <1>2, <1>4, GotoRecord, OwnerMoves
<1>6. Knows(Owner)'
  <2>1. "failed" \notin KnowingPcs BY DEF KnowingPcs, LockedPcs, MutatingPcs, PersistPcs
  <2> QED BY <1>1, <1>2, <1>4, <2>1, GotoRecord, Ignorant
<1> DEFINE d == [dir EXCEPT !.lock = "none"]
<1>7. CASE proc[Owner].pc \in {"lockCreated", "lockHeld", "lockWritten", "locked"}
  <2>1. Settled(dir) /\ dir.lock \in {"torn", "ours"}
    <3>1. "lockWritten" \in LockedPcs /\ "locked" \in LockedPcs BY DEF LockedPcs
    <3>2. CASE proc[Owner].pc \in {"lockWritten", "locked"}
      BY <1>3, <3>1, <3>2 DEF Knows, ShapeKnown, LockKnown
    <3>3. CASE proc[Owner].pc \in {"lockCreated", "lockHeld"}
      BY <1>1, <1>3, <3>3 DEF Knows, LockKnown, DirectoryFits
    <3> QED BY <1>7, <3>2, <3>3
  <2>2. DirectoryFits(d, OwnerAlive) BY <1>1, <2>1, LockChangeFits
  <2>3. dir' = d /\ disk' \in {{d}, disk \cup {d}}
    BY <1>7 DEF OwnerThrows, Change, At
  <2>4. DiskStep BY <2>2, <2>3 DEF DiskStep, SwapInv, DiskFits
  <2> QED BY <1>2, <1>5, <1>6, <2>1, <2>4, StepKept
<1>8. CASE proc[Owner].pc \notin {"lockCreated", "lockHeld", "lockWritten", "locked"}
  <2>1. SameDirectory BY <1>8 DEF OwnerThrows, At
  <2> QED BY <1>2, <1>5, <1>6, <2>1, QuietStep
<1> QED BY <1>7, <1>8

LEMMA KeepsOwnerEnding ==
    ASSUME SwapInv, TypeOK', LockOwnership', OwnerExit \/ CrashOwner
    PROVE  SwapInv'
<1>1. TypeOK BY DEF SwapInv
<1>2. Owner \in Procs BY DEF Procs
<1>3. OwnerAlive /\ foreign' = foreign /\ SameDirectory
  BY DEF OwnerExit, CrashOwner, OwnerAlive, Environment
<1>4. proc'[Owner].pc = "dead" /\ \A q \in Procs \ {Owner} : proc'[q] = proc[q]
  <2>1. CASE OwnerExit BY <1>1, <1>2, <2>1, GotoRecord DEF OwnerExit
  <2>2. CASE CrashOwner BY <1>1, <1>2, <2>2 DEF CrashOwner, TypeOK, StartOf
  <2> QED BY <2>1, <2>2
<1> QED BY <1>2, <1>3, <1>4, SomePcs, OwnerMoves, Ignorant, QuietStep

-----------------------------------------------------------------------------
(* A recoverer.                                                            *)

LEMMA UnknowingPcs ==
    (RecoverPcs \ {"observe"}) \cap (KnowingPcs \cup OwnerPcs \cup {"preparePersist"}) = {}
BY DEF RecoverPcs, Outcomes, KnowingPcs, LockedPcs, MutatingPcs, PersistPcs, OwnerPcs

LEMMA QuietRecoverer ==
    ASSUME SwapInv, TypeOK', LockOwnership', NEW r \in Recoverers, foreign' = foreign,
           proc'[r].pc \in RecoverPcs \ {"observe"},
           \A q \in Procs \ {r} : proc'[q] = proc[q], SameDirectory \/ SyncLinuxDirectory
    PROVE  SwapInv'
<1>1. r \in Procs /\ r # Owner BY ProcAssumption DEF Procs
<1>2. Knows(r)' BY UnknowingPcs, Ignorant
<1>3. StepOf(r)
  BY <1>1, UnknowingPcs DEF StepOf, SameDirectory, SyncLinuxDirectory
<1> QED BY <1>1, <1>2, <1>3, QuietStep

LEMMA ReturnRecord ==
    ASSUME TypeOK, NEW r \in Procs, NEW pc, Return(r, pc)
    PROVE  proc'[r].pc = pc /\ \A q \in Procs \ {r} : proc'[q] = proc[q]
BY DEF TypeOK, Return, StartOf

LEMMA KeepsCalling ==
    ASSUME SwapInv, TypeOK', LockOwnership', NEW r \in Recoverers,
           \/ CallRecover(r) \/ RecoverNext(r) \/ RecoverLoad(r)
           \/ OrphanOpen(r) \/ OrphanFlock(r) \/ OrphanSync(r)
           \/ LockOpen(r) \/ LockFlock(r) \/ SyncRecovered(r)
           \/ RecoverRefuses(r) \/ ReturnToCaller(r)
           \/ CrashRecoverer(r) \/ RecoverError(r)
    PROVE  SwapInv'
<1>1. TypeOK /\ r \in Procs BY DEF SwapInv, Procs
<1>2. SameDirectory \/ SyncLinuxDirectory
  BY DEF CallRecover, RecoverNext, RecoverLoad, OrphanOpen, OrphanFlock, OrphanSync, LockOpen,
         LockFlock, TryFlock, SyncRecovered, RecoverRefuses, ReturnToCaller, CrashRecoverer,
         RecoverError
<1>3. foreign' = foreign
  BY DEF CallRecover, RecoverNext, RecoverLoad, OrphanOpen, OrphanFlock, OrphanSync, LockOpen,
         LockFlock, TryFlock, SyncRecovered, RecoverRefuses, ReturnToCaller, CrashRecoverer,
         RecoverError, Environment
<1> DEFINE Goes(pc) == proc'[r].pc = pc /\ \A q \in Procs \ {r} : proc'[q] = proc[q]
<1>4. \E pc \in RecoverPcs \ {"observe"} : Goes(pc)
  <2>1. ASSUME NEW pc \in RecoverPcs \ {"observe"}, Return(r, pc) \/ Goto(r, pc) PROVE <1>4
    BY <1>1, <2>1, ReturnRecord, GotoRecord
  <2>2. {"next", "load", "orphanOpen", "lockOpen", "orphanFlock", "lockFlock", "orphanCheck",
         "check", "idle", "manual", "nothing", "live", "recovered"}
           \subseteq RecoverPcs \ {"observe"}
    BY DEF RecoverPcs, Outcomes
  <2>3. CASE CallRecover(r)
    <3>1. Goes("next") BY <1>1, <2>3 DEF CallRecover, TypeOK, StartOf
    <3> QED BY <2>2, <3>1
  <2>4. CASE RecoverNext(r) BY <2>1, <2>2, <2>4 DEF RecoverNext
  <2>5. CASE RecoverLoad(r)
    <3>1. \/ Return(r, "manual") \/ Goto(r, "orphanOpen")
          \/ proc' = [proc EXCEPT ![r].pc = "lockOpen", ![r].j = dir.journal]
      BY <2>5 DEF RecoverLoad
    <3>2. CASE proc' = [proc EXCEPT ![r].pc = "lockOpen", ![r].j = dir.journal]
      <4>1. Goes("lockOpen") BY <1>1, <3>2 DEF TypeOK, Process
      <4> QED BY <2>2, <4>1
    <3> QED BY <2>1, <2>2, <3>1, <3>2
  <2>6. CASE OrphanOpen(r) \/ LockOpen(r)
    <3>1. \/ Return(r, "nothing") \/ Return(r, "manual") \/ Return(r, "live")
          \/ Goto(r, "orphanFlock") \/ Goto(r, "lockFlock")
      BY <2>6 DEF OrphanOpen, LockOpen, OpenForeignLock
    <3> QED BY <2>1, <2>2, <3>1
  <2>7. CASE OrphanFlock(r) \/ LockFlock(r)
    <3>1. Return(r, "live") \/ Goto(r, "orphanCheck") \/ Goto(r, "check")
      BY <2>7 DEF OrphanFlock, LockFlock, TryFlock
    <3> QED BY <2>1, <2>2, <3>1
  <2>8. CASE OrphanSync(r) BY <2>1, <2>2, <2>8 DEF OrphanSync
  <2>9. CASE SyncRecovered(r) BY <2>1, <2>2, <2>9 DEF SyncRecovered
  <2>10. CASE RecoverRefuses(r) BY <2>1, <2>2, <2>10 DEF RecoverRefuses
  <2>11. CASE ReturnToCaller(r)
    <3>1. Goes("idle") BY <1>1, <2>11 DEF ReturnToCaller, TypeOK, StartOf
    <3> QED BY <2>2, <3>1
  <2>12. CASE CrashRecoverer(r) BY <2>1, <2>2, <2>12 DEF CrashRecoverer
  <2>13. CASE RecoverError(r) BY <2>1, <2>2, <2>13 DEF RecoverError
  <2> QED BY <2>3, <2>4, <2>5, <2>6, <2>7, <2>8, <2>9, <2>10, <2>11, <2>12, <2>13
<1> QED BY <1>2, <1>3, <1>4, QuietRecoverer

(* The orphan's lock goes only when nothing has moved or all is over.      *)
LEMMA KeepsOrphanCheck ==
    ASSUME SwapInv, TypeOK', LockOwnership', NEW r \in Recoverers, OrphanCheck(r)
    PROVE  SwapInv'
<1>1. dir \in Directory /\ TypeOK /\ DirectoryFits(dir, OwnerAlive) BY DirFits DEF SwapInv
<1>2. r \in Procs /\ r # Owner BY ProcAssumption DEF Procs
<1>3. proc[r].pc = "orphanCheck" /\ foreign' = foreign
  BY DEF OrphanCheck, RecoverAt, At, Environment
<1>4. CASE SameDirectory /\ (Return(r, "manual") \/ Return(r, "live"))
  <2>1. {"manual", "live"} \subseteq RecoverPcs \ {"observe"} BY DEF RecoverPcs, Outcomes
  <2> QED BY <1>1, <1>2, <1>3, <1>4, <2>1, ReturnRecord, QuietRecoverer
<1>5. CASE /\ dir.lock = "ours" /\ ~OwnerAlive
           /\ ~(Present(dir, "prepared") \/ Present(dir, "backup"))
           /\ Change([dir EXCEPT !.lock = "none"]) /\ Goto(r, "orphanSync")
  <2>1. Settled(dir)
    BY <1>1, <1>5 DEF DirectoryFits, Settled, Beside, Aside, Activated, Present, Payload, Kept
  <2>2. DirectoryFits([dir EXCEPT !.lock = "none"], OwnerAlive)
    BY <1>1, <2>1, LockChangeFits
  <2>3. "orphanSync" \in RecoverPcs \ {"observe"} BY DEF RecoverPcs
  <2>4. Knows(r)' BY <1>1, <1>2, <1>5, <2>3, GotoRecord, UnknowingPcs, Ignorant
  <2>5. StepOf(r)
    <3>1. "orphanCheck" \in HoldingPcs BY DEF HoldingPcs
    <3> QED BY <1>1, <1>2, <1>3, <1>5, <2>3, <3>1, GotoRecord, UnknowingPcs DEF StepOf
  <2> QED BY <1>2, <1>5, <2>2, <2>4, <2>5, ChangeStep
<1> QED BY <1>4, <1>5 DEF OrphanCheck

LEMMA KeepsRecoverCheck ==
    ASSUME SwapInv, TypeOK', LockOwnership', NEW r \in Recoverers, RecoverCheck(r)
    PROVE  SwapInv'
<1>1. dir \in Directory /\ TypeOK /\ DirectoryFits(dir, OwnerAlive) BY DirFits DEF SwapInv
<1>2. r \in Procs /\ r # Owner BY ProcAssumption DEF Procs
<1>3. proc[r].pc = "check" /\ foreign' = foreign
  BY DEF RecoverCheck, RecoverAt, At, Environment
<1>4. {"manual", "live"} \subseteq RecoverPcs \ {"observe"} BY DEF RecoverPcs, Outcomes
<1>5. CASE SameDirectory /\ (Return(r, "manual") \/ Return(r, "live"))
  BY <1>1, <1>2, <1>3, <1>4, <1>5, ReturnRecord, QuietRecoverer
<1>6. CASE /\ dir.lock = "ours" /\ ~OwnerAlive
           /\ Change([dir EXCEPT !.rlock = TRUE])
           /\ Return(r, "live") \/ Goto(r, "observe")
  <2> DEFINE d == [dir EXCEPT !.rlock = TRUE]
  <2>1. d.node = dir.node /\ d.journal = dir.journal /\ d.lock = dir.lock BY <1>1, FieldsOf
  <2>2. DirectoryFits(d, OwnerAlive) BY <1>1, <2>1, FitsAlike
  <2>3. Change(d) BY <1>6
  <2> HIDE DEF d
  <2>4. dir' = d BY <2>3 DEF Change
  <2>5. /\ proc'[r].pc \in {"live", "observe"}
        /\ \A q \in Procs \ {r} : proc'[q] = proc[q]
    BY <1>1, <1>2, <1>6, ReturnRecord, GotoRecord
  <2>6. Knows(r)'
    <3>1. CASE proc'[r].pc = "live" BY <1>4, <3>1, UnknowingPcs, Ignorant
    <3>2. CASE proc'[r].pc = "observe"
      BY <1>6, <2>1, <2>4, <3>2 DEF Knows, ShapeKnown, RecordKnown, LockKnown, PersistPcs
    <3> QED BY <2>5, <3>1, <3>2
  <2>7. StepOf(r)
    <3>1. "check" \in HoldingPcs BY DEF HoldingPcs
    <3>2. {"live", "observe"} \cap (OwnerPcs \cup {"preparePersist"}) = {} BY DEF OwnerPcs
    <3> QED BY <1>2, <1>3, <1>6, <2>5, <3>1, <3>2 DEF StepOf
  <2> QED BY <1>2, <2>1, <2>2, <2>3, <2>6, <2>7, ChangeStep
<1> QED BY <1>5, <1>6 DEF RecoverCheck

(* The leaves that are there tell where the repair starts.                 *)
LEMMA KeepsRecoverObserve ==
    ASSUME SwapInv, TypeOK', LockOwnership', NEW r \in Recoverers, RecoverObserve(r)
    PROVE  SwapInv'
<1>1. dir \in Directory /\ TypeOK /\ DirectoryFits(dir, OwnerAlive) BY DirFits DEF SwapInv
<1>2. r \in Procs /\ r # Owner BY ProcAssumption DEF Procs
<1>3. Knows(r) BY <1>2 DEF SwapInv
<1>4. /\ proc[r].pc = "observe" /\ proc[r].step = "begin" /\ foreign' = foreign
      /\ SameDirectory /\ dir' = dir
      /\ CompatibleObservation(proc[r].j.state, PresentLeaves(dir))
  BY DEF RecoverObserve, RecoverAt, At, Environment, SameDirectory, Recognised
<1>5. /\ proc'[r].pc = FirstRepair(PresentLeaves(dir)) /\ proc'[r].step = "begin"
      /\ proc'[r].j = proc[r].j /\ proc'[r].saw = PresentLeaves(dir)
      /\ \A q \in Procs \ {r} : proc'[q] = proc[q]
  BY <1>1, <1>2, <1>4 DEF RecoverObserve, TypeOK, Process
<1>6. dir.lock = "ours" BY <1>3, <1>4 DEF Knows, LockKnown, LockedPcs
<1>7. \/ /\ Staged(dir) /\ proc'[r].pc = "stage" /\ proc[r].j.state = "prepared"
      \/ Beside(dir) /\ proc'[r].pc = "backup"
      \/ Aside(dir) /\ proc'[r].pc = "activate" /\ "backup" \in proc'[r].saw
      \/ Activated(dir) /\ proc'[r].pc = "finalize" /\ "backup" \in proc'[r].saw
      \/ Over(dir) /\ proc'[r].pc = "finalize" /\ "backup" \notin proc'[r].saw
  <2>1. CASE Staged(dir)
    <3>1. PresentLeaves(dir) = {"target", "stage"} BY <1>1, <2>1, ShapeLeaves
    <3>2. proc[r].j.state = "prepared" BY <1>4, <3>1 DEF CompatibleObservation
    <3> QED BY <1>5, <2>1, <3>1, <3>2 DEF FirstRepair
  <2>2. CASE Beside(dir)
    <3>1. PresentLeaves(dir) = {"target", "prepared"} BY <1>1, <2>2, ShapeLeaves
    <3> QED BY <1>5, <2>2, <3>1 DEF FirstRepair
  <2>3. CASE Aside(dir)
    <3>1. PresentLeaves(dir) = {"prepared", "backup"} BY <1>1, <2>3, ShapeLeaves
    <3> QED BY <1>5, <2>3, <3>1 DEF FirstRepair
  <2>4. CASE Activated(dir)
    <3>1. PresentLeaves(dir) = {"target", "backup"} BY <1>1, <2>4, ShapeLeaves
    <3>2. PresentLeaves(dir) # {"prepared", "backup"} BY <3>1
    <3> QED BY <1>5, <2>4, <3>1, <3>2 DEF FirstRepair
  <2>5. CASE Over(dir)
    <3>1. PresentLeaves(dir) = {"target"} BY <1>1, <2>5, ShapeLeaves
    <3>2. PresentLeaves(dir) # {"prepared", "backup"} BY <3>1
    <3> QED BY <1>5, <2>5, <3>1, <3>2 DEF FirstRepair
  <2> QED BY <1>1, <2>1, <2>2, <2>3, <2>4, <2>5 DEF DirectoryFits
<1>8. Knows(r)'
  BY <1>2, <1>4, <1>5, <1>6, <1>7 DEF Knows, ShapeKnown, RecordKnown, LockKnown, PersistPcs
<1>9. StepOf(r)
  <2>1. {"stage", "backup", "activate", "finalize"} \cap (OwnerPcs \cup {"preparePersist"}) = {}
    BY DEF OwnerPcs
  <2> QED BY <1>2, <1>4, <1>5, <1>7, <2>1 DEF StepOf
<1> QED BY <1>2, <1>4, <1>8, <1>9, QuietStep

LEMMA KeepsRecoverSwap ==
    ASSUME SwapInv, TypeOK', LockOwnership', NEW r \in Recoverers,
           \/ RecoverStage(r) \/ RecoverBackup(r) \/ RecoverActivate(r)
           \/ RecoverFinalize(r) \/ RecoverVerified(r) \/ RecoverUnlinkRlock(r)
    PROVE  SwapInv'
<1>1. dir \in Directory /\ TypeOK /\ DirectoryFits(dir, OwnerAlive) BY DirFits DEF SwapInv
<1>2. r \in Procs /\ r # Owner BY ProcAssumption DEF Procs
<1>3. Knows(r) BY <1>2 DEF SwapInv
<1>4. CASE RecoverStage(r) BY <1>2, <1>4, KeepsMoveStage DEF RecoverStage, RecoverAt, At
<1>5. CASE RecoverBackup(r) BY <1>2, <1>5, KeepsMoveBackup DEF RecoverBackup, RecoverAt, At
<1>6. CASE RecoverActivate(r)
  BY <1>2, <1>6, KeepsMoveActivate DEF RecoverActivate, RecoverAt, At
<1>7. CASE RecoverFinalize(r)
  BY <1>2, <1>7, KeepsFinalizeRoot DEF RecoverFinalize, RecoverAt, At
<1>8. CASE RecoverVerified(r)
  <2>1. /\ proc[r].pc = "finalize" /\ foreign' = foreign
        /\ proc[r].step = "changed" \/ "backup" \notin proc[r].saw
    BY <1>8 DEF RecoverVerified, Finished, At, Environment
  <2>2. "finalize" \in MutatingPcs /\ "finalize" \in LockedPcs BY DEF MutatingPcs, LockedPcs
  <2>3. dir.lock = "ours" BY <1>3, <2>1, <2>2 DEF Knows, LockKnown
  <2>4. {"verifiedPersist", "unlinkJournal"} \subseteq MutatingPcs
    BY DEF MutatingPcs, PersistPcs
  <2>5. CASE "backup" \in proc[r].saw
    <3>1. /\ proc'[r].pc = "verifiedPersist" /\ proc'[r].step = "begin"
          /\ proc'[r].j.state = "targetActivated" /\ SyncLinuxDirectory /\ dir' = dir
          /\ \A q \in Procs \ {r} : proc'[q] = proc[q]
      BY <1>1, <1>2, <1>8, <2>5
      DEF RecoverVerified, TypeOK, Process, File, SyncLinuxDirectory
    <3>2. Activated(dir) /\ dir.node["target"].final
      BY <1>3, <2>1, <2>5 DEF Knows, ShapeKnown
    <3>3. Knows(r)'
      BY <2>3, <3>1, <3>2 DEF Knows, ShapeKnown, RecordKnown, LockKnown, PersistPcs
    <3>4. StepOf(r) BY <1>2, <2>1, <2>2, <2>4, <3>1, InsideStep, PersistPcsInside
    <3> QED BY <1>2, <3>1, <3>3, <3>4, QuietStep
  <2>6. CASE "backup" \notin proc[r].saw
    <3>1. Goto(r, "unlinkJournal") /\ SameDirectory /\ dir' = dir
      BY <1>8, <2>6 DEF RecoverVerified, SameDirectory
    <3>2. Over(dir) BY <1>3, <2>1, <2>6 DEF Knows, ShapeKnown
    <3>3. Knows(r)'
      <4>1. proc'[r].pc = "unlinkJournal" BY <1>1, <1>2, <3>1, GotoRecord
      <4> QED BY <2>3, <3>1, <3>2, <4>1
              DEF Knows, ShapeKnown, RecordKnown, LockKnown, PersistPcs, Settled
    <3>4. StepOf(r)
      BY <1>1, <1>2, <2>1, <2>2, <2>4, <3>1, GotoRecord, InsideStep, PersistPcsInside
    <3> QED BY <1>2, <3>1, <3>3, <3>4, QuietStep
  <2> QED BY <2>5, <2>6
<1>9. CASE RecoverUnlinkRlock(r)
  <2> DEFINE d == [dir EXCEPT !.rlock = FALSE]
  <2>1. /\ proc[r].pc = "unlinkRlock" /\ Change(d) /\ Goto(r, "syncRecovered")
        /\ foreign' = foreign
    BY <1>9 DEF RecoverUnlinkRlock, RecoverAt, At, Environment
  <2>2. d.node = dir.node /\ d.journal = dir.journal /\ d.lock = dir.lock BY <1>1, FieldsOf
  <2> HIDE DEF d
  <2>3. DirectoryFits(d, OwnerAlive) BY <1>1, <2>2, FitsAlike
  <2>4. "syncRecovered" \in RecoverPcs \ {"observe"} BY DEF RecoverPcs
  <2>5. Knows(r)' BY <1>1, <1>2, <2>1, <2>4, GotoRecord, UnknowingPcs, Ignorant
  <2>6. StepOf(r)
    <3>1. "unlinkRlock" \in HoldingPcs /\ "unlinkRlock" \in OwningPcs
      BY DEF HoldingPcs, OwningPcs
    <3>2. ~OwnerAlive BY <2>1, <3>1 DEF SwapInv, LockOwnership
    <3> QED BY <1>1, <1>2, <2>1, <2>4, <3>1, <3>2, GotoRecord, UnknowingPcs DEF StepOf
  <2> QED BY <1>2, <2>1, <2>2, <2>3, <2>5, <2>6, ChangeStep
<1> QED BY <1>4, <1>5, <1>6, <1>7, <1>8, <1>9

LEMMA KeepsRecovererStep ==
    ASSUME SwapInv, TypeOK', LockOwnership', NEW r \in Recoverers,
           CallRecover(r) \/ RecoverNextStep(r) \/ CrashRecoverer(r) \/ RecoverError(r)
    PROVE  SwapInv'
<1>1. r \in Procs BY DEF Procs
<1>2. CASE ProcessStep(r) BY <1>1, <1>2, KeepsProcessStep
<1>3. CASE RecoverStep(r)
  BY <1>3, KeepsCalling, KeepsOrphanCheck, KeepsRecoverCheck, KeepsRecoverObserve,
     KeepsRecoverSwap DEF RecoverStep
<1>4. CASE CallRecover(r) \/ ReturnToCaller(r) \/ CrashRecoverer(r) \/ RecoverError(r)
  BY <1>4, KeepsCalling
<1> QED BY <1>2, <1>3, <1>4 DEF RecoverNextStep

-----------------------------------------------------------------------------
(* Power loss, and the other transaction.                                  *)

LEMMA KeepsPowerLoss ==
    ASSUME SwapInv, TypeOK', LockOwnership', PowerLoss
    PROVE  SwapInv'
<1>1. /\ \A r \in Recoverers : proc'[r].pc = "idle"
      /\ proc'[Owner].pc = "dead" /\ ~OwnerAlive'
  BY ProcAssumption DEF PowerLoss, StartOf, Procs, OwnerAlive
<1>2. PICK d \in disk : dir' = d /\ disk' = {d} BY DEF PowerLoss
<1>3. DiskFits'
  <2>1. DirectoryFits(d, OwnerAlive) /\ OwnerAlive \in BOOLEAN
    BY DEF SwapInv, DiskFits, OwnerAlive
  <2>2. DirectoryFits(d, FALSE)
    <3>1. CASE OwnerAlive = TRUE BY <2>1, <3>1, FitsWithoutOwner
    <3>2. CASE OwnerAlive = FALSE BY <2>1, <3>2
    <3> QED BY <2>1, <3>1, <3>2
  <2>3. OwnerAlive' = FALSE BY <1>1 DEF OwnerAlive
  <2> QED BY <1>2, <2>2, <2>3 DEF DiskFits
<1>4. foreign' # "holding" BY DEF PowerLoss
<1>5. "idle" \in RecoverPcs \ {"observe"} BY DEF RecoverPcs
<1>6. ASSUME NEW p \in Procs PROVE Knows(p)'
  <2>1. proc'[p].pc \in {"idle", "dead"} BY <1>1 DEF Procs
  <2> QED BY <1>5, <2>1, UnknowingPcs, SomePcs, Ignorant
<1> QED BY <1>1, <1>3, <1>4, <1>5, <1>6, UnknowingPcs DEF SwapInv

(* No process relies on a directory that is free or another transaction's. *)
LEMMA KeepsForeign ==
    ASSUME SwapInv, TypeOK', LockOwnership', ForeignLock \/ ForeignInstall \/ ForeignUnlock
    PROVE  SwapInv'
<1>1. dir \in Directory /\ TypeOK /\ DirectoryFits(dir, OwnerAlive) BY DirFits DEF SwapInv
<1>2. /\ proc' = proc /\ (OwnerAlive <=> OwnerAlive')
      /\ OwnerAlive \in BOOLEAN /\ OwnerAlive' \in BOOLEAN
  BY DEF ForeignLock, ForeignInstall, ForeignUnlock, OwnerAlive
<1>3. dir.lock \in {"none", "foreign"}
  BY DEF SwapInv, ForeignLock, ForeignInstall, ForeignUnlock
<1>4. Settled(dir) BY <1>1, <1>3 DEF DirectoryFits
<1>5. ASSUME NEW p \in Procs PROVE Knows(p)'
  <2>1. proc[p].pc \notin KnowingPcs
    BY <1>3 DEF SwapInv, Knows, LockKnown, KnowingPcs
  <2> QED BY <1>2, <2>1, Ignorant
<1>6. ASSUME NEW d, dir' = d, disk' = {d}, DirectoryFits(d, OwnerAlive) PROVE DiskFits'
  BY <1>2, <1>6 DEF DiskFits
<1>7. DiskFits' /\ (foreign = "holding" => dir.lock = "foreign")'
  <2>1. CASE ForeignLock
    <3> DEFINE d == [dir EXCEPT !.lock = "foreign"]
    <3>1. dir' = d /\ disk' = {d} BY <2>1 DEF ForeignLock
    <3>2. d.lock = "foreign" BY <1>1, FieldsOf
    <3>3. DirectoryFits(d, OwnerAlive) BY <1>1, <1>4, LockChangeFits
    <3> QED BY <1>6, <3>1, <3>2, <3>3
  <2>2. CASE ForeignUnlock
    <3> DEFINE d == [dir EXCEPT !.lock = "none"]
    <3>1. dir' = d /\ disk' = {d} /\ foreign' = "done" BY <2>2 DEF ForeignUnlock
    <3>2. DirectoryFits(d, OwnerAlive) BY <1>1, <1>4, LockChangeFits
    <3> QED BY <1>6, <3>1, <3>2
  <2>3. CASE ForeignInstall
    <3> DEFINE d == [dir EXCEPT !.node["target"] = FreshNode("other")]
    <3>1. dir' = d /\ disk' = {d} /\ foreign' = foreign BY <2>3 DEF ForeignInstall
    <3>2. /\ d.node["target"] = FreshNode("other") /\ d.node["stage"] = dir.node["stage"]
          /\ d.node["prepared"] = dir.node["prepared"] /\ d.node["backup"] = dir.node["backup"]
          /\ d.journal = dir.journal /\ d.lock = dir.lock
      BY <1>1, ChangedLeaf DEF Leaves
    <3> HIDE DEF d
    <3>3. FreshNode("other").tree = "other" /\ FreshNode("other").whole
      BY DEF FreshNode, NoNode
    <3>4. (Staged(dir) => Staged(d)) /\ (Over(dir) => Over(d))
      BY <3>2, <3>3 DEF Staged, Over, Kept
    <3>5. DirectoryFits(d, OwnerAlive)
      BY <1>1, <1>4, <3>2, <3>4, ShapesDiffer DEF DirectoryFits, JournalTells, Settled
    <3>6. foreign = "holding" => dir'.lock = "foreign" BY <3>1, <3>2 DEF SwapInv
    <3> QED BY <1>6, <3>1, <3>5, <3>6
  <2> QED BY <2>1, <2>2, <2>3
<1> QED BY <1>2, <1>5, <1>7 DEF SwapInv

-----------------------------------------------------------------------------
(* The theorems of the swap.                                               *)

LEMMA SwapInit == Init => SwapInv
<1> SUFFICES ASSUME Init PROVE SwapInv OBVIOUS
<1>1. TypeOK /\ LockOwnership BY TypeInit, LockOwnershipInit
<1>2. /\ \A r \in Recoverers : proc[r].pc = "idle"
      /\ proc[Owner].pc = "new" /\ dir = InitialDirectory /\ disk = {InitialDirectory}
      /\ foreign = "idle"
  BY ProcAssumption DEF Init, StartOf, Procs
<1>3. Staged(InitialDirectory) /\ InitialDirectory.journal.state = "none"
  BY DEF InitialDirectory, Leaves, FreshNode, NoNode, NoFile, Staged, Kept, Payload
<1>4. DiskFits
  BY <1>2, <1>3 DEF DiskFits, DirectoryFits, JournalTells, Settled
<1>5. {"idle", "new"} \cap KnowingPcs = {} /\ "idle" \notin OwnerPcs \cup {"preparePersist"}
  BY DEF KnowingPcs, LockedPcs, MutatingPcs, PersistPcs, OwnerPcs
<1>6. ASSUME NEW p \in Procs PROVE Knows(p)
  <2>1. proc[p].pc \notin KnowingPcs /\ proc[p].pc \in {"idle", "new"}
    BY <1>2, <1>5 DEF Procs
  <2>2. ShapeKnown(p) BY <2>1 DEF ShapeKnown
  <2>3. RecordKnown(p) BY <2>1 DEF RecordKnown, PersistPcs
  <2>4. LockKnown(p) BY <2>1 DEF LockKnown, KnowingPcs
  <2> QED BY <2>2, <2>3, <2>4 DEF Knows
<1> QED BY <1>1, <1>2, <1>4, <1>5, <1>6 DEF SwapInv

LEMMA SwapNext == SwapInv /\ [Next]_vars => SwapInv'
<1> SUFFICES ASSUME SwapInv, [Next]_vars PROVE SwapInv' OBVIOUS
<1>1. TypeOK' /\ LockOwnership'
  BY TypeStep, LockOwnershipStep DEF SwapInv
<1>2. Owner \in Procs BY DEF Procs
<1>3. CASE OwnerNext
  <2>1. CASE ProcessStep(Owner) BY <1>1, <1>2, <2>1, KeepsProcessStep
  <2>2. CASE OwnerRefuses BY <1>1, <2>2, KeepsThrowing DEF OwnerRefuses
  <2>3. CASE OwnerExit BY <1>1, <2>3, KeepsOwnerEnding
  <2> QED BY <1>1, <1>3, <2>1, <2>2, <2>3, KeepsTakingLock, KeepsPreparing, KeepsExecute
          DEF OwnerNext, OwnerStep
<1>4. CASE \E r \in Recoverers : \/ CallRecover(r) \/ RecoverNextStep(r)
                                 \/ CrashRecoverer(r) \/ RecoverError(r)
  BY <1>1, <1>4, KeepsRecovererStep
<1>5. CASE CrashOwner BY <1>1, <1>5, KeepsOwnerEnding
<1>6. CASE OwnerError BY <1>1, <1>6, KeepsThrowing DEF OwnerError
<1>7. CASE PowerLoss BY <1>1, <1>7, KeepsPowerLoss
<1>8. CASE ForeignLock \/ ForeignInstall \/ ForeignUnlock BY <1>1, <1>8, KeepsForeign
<1>9. CASE UNCHANGED vars
  <2>1. dir' = dir /\ disk' = disk /\ foreign' = foreign /\ proc' = proc
        /\ (OwnerAlive <=> OwnerAlive') /\ OwnerAlive \in BOOLEAN /\ OwnerAlive' \in BOOLEAN
    BY <1>9 DEF vars, OwnerAlive
  <2>2. DiskFits' BY <2>1 DEF SwapInv, DiskFits
  <2>3. \A p \in Procs : Knows(p)' BY <2>1, KnowsAlike DEF SwapInv
  <2> QED BY <1>1, <2>1, <2>2, <2>3 DEF SwapInv
<1> QED BY <1>3, <1>4, <1>5, <1>6, <1>7, <1>8, <1>9 DEF Next

(* Whatever interleaving, crash or power loss: every directory that may    *)
(* survive is in one of the five shapes of the swap, under a journal that  *)
(* tells it, and who is inside the swap knows in which one.                *)
THEOREM SwapInvariance == Spec => []SwapInv
BY SwapInit, SwapNext, PTL DEF Spec

(* What the invariant says of one directory that may survive.              *)
LEMMA FittingDirectory ==
    ASSUME NEW d \in Directory, NEW alive, DirectoryFits(d, alive)
    PROVE  /\ Survives(d) /\ d.node["target"].whole
           /\ d.node["target"].tree = "new" /\ ~(Present(d, "backup") /\ d.node["backup"].whole)
              => /\ d.node["target"].final
                 /\ d.journal.state \in {"targetActivated", "completed", "none"}
           /\ ~Present(d, "target") => d.lock = "ours"
           /\ d.journal.state # "none"
              => \/ CompatibleObservation(d.journal.state, PresentLeaves(d))
                 \/ /\ d.journal.state = "prepared" /\ ~alive
                    /\ PresentLeaves(d) = {"target", "backup"}
<1>1. NoNode.tree = "none" /\ NoNode.whole BY DEF NoNode
<1>2. Survives(d) /\ d.node["target"].whole
  BY <1>1 DEF DirectoryFits, Staged, Beside, Aside, Activated, Over, Survives, Kept, Payload
<1>3. ASSUME ~Present(d, "target") PROVE d.lock = "ours"
  BY <1>3 DEF DirectoryFits, Settled, Staged, Over, Present, Kept, Payload
<1>4. d.journal.state \in JournalStates \cup {"none", "torn"} BY DEF Directory, File
<1>5. ASSUME d.journal.state # "none"
      PROVE  \/ CompatibleObservation(d.journal.state, PresentLeaves(d))
             \/ /\ d.journal.state = "prepared" /\ ~alive
                /\ PresentLeaves(d) = {"target", "backup"}
  <2>1. d.journal.state \in {"prepared", "backupCreated", "targetActivated", "completed"}
    BY <1>4, <1>5 DEF JournalStates, DirectoryFits, JournalTells
  <2>2. CASE d.journal.state = "prepared"
    BY <2>2, ShapeLeaves DEF DirectoryFits, JournalTells, CompatibleObservation
  <2>3. CASE d.journal.state = "backupCreated"
    BY <2>3, ShapeLeaves DEF DirectoryFits, JournalTells, CompatibleObservation
  <2>4. CASE d.journal.state = "targetActivated"
    BY <2>4, ShapeLeaves DEF DirectoryFits, JournalTells, CompatibleObservation
  <2>5. CASE d.journal.state = "completed"
    BY <2>5, ShapeLeaves DEF DirectoryFits, JournalTells, CompatibleObservation
  <2> QED BY <2>1, <2>2, <2>3, <2>4, <2>5
<1>6. ASSUME d.node["target"].tree = "new", ~(Present(d, "backup") /\ d.node["backup"].whole)
      PROVE  /\ d.node["target"].final
             /\ d.journal.state \in {"targetActivated", "completed", "none"}
  <2>1. Activated(d) \/ Over(d)
    BY <1>1, <1>6 DEF DirectoryFits, Staged, Beside, Aside, Kept, Present
  <2>2. CASE Activated(d) BY <1>6, <2>2 DEF Activated, Present
  <2>3. CASE Over(d)
    <3>1. d.node["target"].final BY <1>6, <2>3 DEF Over
    <3>2. d.journal.state \notin {"torn", "prepared", "backupCreated"}
      BY <2>3, ShapesDiffer DEF DirectoryFits, JournalTells
    <3> QED BY <1>4, <3>1, <3>2 DEF JournalStates
  <2> QED BY <2>1, <2>2, <2>3
<1> QED BY <1>2, <1>3, <1>5, <1>6

(* LinuxFileTransaction and LinuxRecoveryService: whatever crash, power    *)
(* loss or failing call interrupts them, whoever runs beside whom, what    *)
(* may survive holds a complete application.                               *)
THEOREM PayloadsSurvive == Spec => []PayloadNeverLost
<1>1. SwapInv => PayloadNeverLost
  BY FittingDirectory DEF SwapInv, TypeOK, DiskFits, PayloadNeverLost
<1> QED BY <1>1, SwapInvariance, PTL

(* RemoveLinuxTreeExact: no backup goes, or loses a file, before the       *)
(* payload has its final mode and the journal records the activation.      *)
THEOREM BackupsGoLast == Spec => []BackupDiscardedOnlyWhenFinal
<1>1. SwapInv => BackupDiscardedOnlyWhenFinal
  BY FittingDirectory DEF SwapInv, TypeOK, DiskFits, BackupDiscardedOnlyWhenFinal
<1> QED BY <1>1, SwapInvariance, PTL

(* The lock file: a missing target is covered by this transaction's lock,  *)
(* on every directory that may survive.                                    *)
THEOREM MissingTargetsAreLocked == Spec => []LockCoversMissingTarget
<1>1. SwapInv => LockCoversMissingTarget
  BY FittingDirectory DEF SwapInv, TypeOK, DiskFits, LockCoversMissingTarget
<1> QED BY <1>1, SwapInvariance, PTL

(* Persist before and after each rename: the durable journal is one that   *)
(* CompatibleObservation accepts for the leaves, but for the activation by *)
(* a recoverer under a prepared journal.                                   *)
THEOREM JournalsDescribeTrees == Spec => []JournalDescribesTree
<1>1. SwapInv => JournalDescribesTree
  BY FittingDirectory DEF SwapInv, TypeOK, DiskFits, JournalDescribesTree
<1> QED BY <1>1, SwapInvariance, PTL

=============================================================================
