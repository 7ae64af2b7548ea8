------------------------- MODULE LinuxFileTransaction -------------------------
(***************************************************************************)
(* The durable swap of an installed bundle on Linux: LinuxFileTransaction, *)
(* the journal store it writes through, and LinuxRecoveryService, which    *)
(* finishes the swap of a dead owner.                                      *)
(*                                                                         *)
(* One owner process runs the transaction.  Recoverers are other helper    *)
(* processes that call Recover for the same transaction, at any time and   *)
(* concurrently.  Every system call that changes the directory is a step,  *)
(* so a process may die, and the machine may lose power, between any two.  *)
(*                                                                         *)
(* disk is the set of directory states a power loss may leave: each change *)
(* since the last directory fsync adds one, fsync leaves only the present  *)
(* one.                                                                    *)
(***************************************************************************)
EXTENDS TargetDirectory

CONSTANTS Owner,        \* the helper process that owns the transaction
          Recoverers,   \* helper processes that may call Recover
          NoProc,       \* no process (a free flock)
          Ticks,        \* how far a change time may move in one call
          MaxFaults     \* how many crashes and failing system calls may occur

ASSUME ProcAssumption == /\ Owner \notin Recoverers
                         /\ NoProc \notin Recoverers \cup {Owner}
ASSUME TickAssumption == Ticks \subseteq Nat /\ Ticks # {}
ASSUME FaultAssumption == MaxFaults \in Nat

VARIABLES dir,      \* the directory, as running processes see it
          disk,     \* the directory states that may survive a power loss
          flock,    \* who holds the flock of this transaction's lock file
          rflock,   \* who holds the flock of the recovery lock file
          proc,     \* per process: where it is and what it remembers
          foreign,  \* another transaction on the same target
          faults    \* crashes and failing calls so far

vars == <<dir, disk, flock, rflock, proc, foreign, faults>>

Procs == Recoverers \cup {Owner}

(* Where a process is inside Persist, a rename or a tree removal.          *)
Steps == {"begin", "created", "written", "changed"}

PersistPcs == {"preparePersist", "stagePersist", "backupPersist",
               "activatePersist", "verifiedPersist", "completePersist"}

(* Pcs at which the owner, or a recoverer, changes the application trees.  *)
MutatingPcs == {"stage", "backup", "activate", "finalize", "removeBackup",
                "unlinkJournal", "unlinkLock", "syncRemoved"}
                   \cup (PersistPcs \ {"preparePersist"})

OwnerPcs == {"new", "open", "lockCreated", "lockHeld", "lockWritten", "locked",
             "prepared", "cancelled", "done", "failed", "dead"}

Outcomes == {"recovered", "nothing", "live", "manual"}

RecoverPcs == {"idle", "next", "load", "orphanOpen", "orphanFlock",
               "orphanCheck", "orphanSync", "lockOpen", "lockFlock", "check",
               "observe", "unlinkRlock", "syncRecovered"} \cup Outcomes

Pcs == OwnerPcs \cup RecoverPcs \cup MutatingPcs \cup PersistPcs

(* What a process remembers: the journal it works on (for the owner, the   *)
(* identities taken by its constructor) and the leaves it believes exist.  *)
Process == [pc : Pcs, step : Steps, j : File, saw : SUBSET Leaves]

StartOf(pc) == [pc |-> pc, step |-> "begin", j |-> NoFile, saw |-> {}]

InitialDirectory ==
    [node |-> [leaf \in Leaves |->
                  CASE leaf = "target" -> FreshNode("old")
                    [] leaf = "stage"  -> FreshNode("new")
                    [] OTHER           -> NoNode],
     journal |-> NoFile, next |-> NoFile, lock |-> "none",
     rlock |-> FALSE]

Init == /\ dir = InitialDirectory
        /\ disk = {InitialDirectory}
        /\ flock = NoProc
        /\ rflock = NoProc
        /\ proc = [p \in Procs |-> StartOf(IF p = Owner THEN "new" ELSE "idle")]
        /\ foreign = "idle"
        /\ faults = 0

-----------------------------------------------------------------------------
(* Directory changes and fsync.                                            *)

Change(d) == dir' = d /\ disk' = disk \cup {d}

SyncLinuxDirectory == dir' = dir /\ disk' = {dir}

SameDirectory == UNCHANGED <<dir, disk>>

SameLocks == UNCHANGED <<flock, rflock>>

(* Mutated Release: a return drops the locks of whoever holds them.        *)
ReleaseEverything(p) == flock' = NoProc /\ rflock' = NoProc

(* Closing a process's descriptors releases the flocks it holds.           *)
Release(p) == /\ flock' = IF flock = p THEN NoProc ELSE flock
              /\ rflock' = IF rflock = p THEN NoProc ELSE rflock

At(p, pc) == proc[p].pc = pc

Goto(p, pc) == proc' = [proc EXCEPT ![p].pc = pc, ![p].step = "begin"]

Into(p, step) == proc' = [proc EXCEPT ![p].step = step]

(* Recover returns: its descriptors are closed, its locals are gone.       *)
Return(r, outcome) ==
    /\ proc' = [proc EXCEPT ![r] = StartOf(outcome)]
    /\ Release(r)

OwnerAlive == proc[Owner].pc # "dead"

Environment == UNCHANGED <<foreign, faults>>

-----------------------------------------------------------------------------
(* DurableLinuxTransactionJournalStore::Persist: create ".next", write and *)
(* flush it, rename it over the journal, fsync the directory.              *)

(* Mutated AfterPersist: the backup is removed before the activation.      *)
AfterPersistCleaningEarly(pc) ==
    CASE pc = "preparePersist"  -> "prepared"
      [] pc = "stagePersist"    -> "backup"
      [] pc = "backupPersist"   -> "removeBackup"
      [] pc = "activatePersist" -> "finalize"
      [] pc = "verifiedPersist" -> "completePersist"
      [] pc = "completePersist" -> "removeBackup"

AfterPersist(pc) ==
    CASE pc = "preparePersist"  -> "prepared"
      [] pc = "stagePersist"    -> "backup"
      [] pc = "backupPersist"   -> "activate"
      [] pc = "activatePersist" -> "finalize"
      [] pc = "verifiedPersist" -> "completePersist"
      [] pc = "completePersist" -> "removeBackup"

PersistCreate(p) ==
    /\ proc[p].pc \in PersistPcs /\ proc[p].step = "begin"
    /\ dir.next.state = "none"
    /\ Change([dir EXCEPT !.next = TornFile])
    /\ Into(p, "created")
    /\ SameLocks /\ Environment

(* fdatasync makes the bytes durable wherever the name already is.         *)
PersistWrite(p) ==
    /\ proc[p].pc \in PersistPcs /\ proc[p].step = "created"
    /\ LET Written(d) == IF d.next.state = "none" THEN d
                         ELSE [d EXCEPT !.next = proc[p].j]
       IN  /\ dir' = Written(dir)
           /\ disk' = {Written(d) : d \in disk}
    /\ Into(p, "written")
    /\ SameLocks /\ Environment

PersistReplace(p) ==
    /\ proc[p].pc \in PersistPcs /\ proc[p].step = "written"
    /\ Change([dir EXCEPT !.journal = dir.next, !.next = NoFile])
    /\ Into(p, "changed")
    /\ SameLocks /\ Environment

(* The recoverer marks its already loaded journal completed only after the *)
(* write before it has returned.                                           *)
PersistSync(p) ==
    /\ proc[p].pc \in PersistPcs /\ proc[p].step = "changed"
    /\ SyncLinuxDirectory
    /\ proc' = [proc EXCEPT
          ![p].pc = AfterPersist(proc[p].pc), ![p].step = "begin",
          ![p].j.state = IF proc[p].pc = "verifiedPersist" THEN "completed" ELSE @]
    /\ SameLocks /\ Environment

(* DurableLinuxTransactionJournalStore::Remove: unlink the journal, then   *)
(* the lock, then fsync.  Execute and CancelPrepared both end here;        *)
(* CancelPrepared also closes the lock, Execute keeps it until the owner   *)
(* exits, and a recoverer still has to drop its recovery lock.             *)
UnlinkJournal(p) ==
    /\ At(p, "unlinkJournal")
    /\ Change([dir EXCEPT !.journal = NoFile])
    /\ Goto(p, "unlinkLock")
    /\ SameLocks /\ Environment

UnlinkLock(p) ==
    /\ At(p, "unlinkLock")
    /\ Change([dir EXCEPT !.lock = "none"])
    /\ Goto(p, "syncRemoved")
    /\ SameLocks /\ Environment

SyncRemoved(p) ==
    /\ At(p, "syncRemoved")
    /\ SyncLinuxDirectory
    /\ \/ p # Owner /\ Goto(p, "unlinkRlock") /\ SameLocks
       \/ /\ p = Owner /\ proc[p].j.state = "completed"
          /\ Goto(p, "done") /\ SameLocks
       \/ /\ p = Owner /\ proc[p].j.state # "completed"
          /\ Goto(p, "cancelled") /\ Release(p)
    /\ Environment

StoreStep(p) == \/ PersistCreate(p) \/ PersistWrite(p) \/ PersistReplace(p)
                \/ PersistSync(p) \/ UnlinkJournal(p) \/ UnlinkLock(p)
                \/ SyncRemoved(p)

-----------------------------------------------------------------------------
(* Renames of the swap.  The rename is one step; the fsync after it, with  *)
(* the identity that is read again and goes into the next journal, is      *)
(* another.                                                                *)

Move(p, from, to) ==
    /\ proc[p].step = "begin"
    /\ ~Present(dir, to)
    /\ \E tick \in Ticks : Change(Renamed(dir, from, to, tick))
    /\ proc' = [proc EXCEPT ![p].step = "changed",
                            ![p].saw = (@ \ {from}) \cup {to}]
    /\ SameLocks /\ Environment

(* journal is the record the next Persist will write.                      *)
MoveSynced(p, pc, journal) ==
    /\ proc[p].step = "changed"
    /\ SyncLinuxDirectory
    /\ proc' = [proc EXCEPT ![p].pc = pc, ![p].step = "begin", ![p].j = journal]
    /\ SameLocks /\ Environment

StageSynced(p) ==
    /\ At(p, "stage")
    /\ MoveSynced(p, "stagePersist",
                  [proc[p].j EXCEPT !.stage = dir.node["prepared"]])

(* Mutated BackupSynced: backupCreated is not persisted.                   *)
BackupSyncedUnrecorded(p) ==
    /\ At(p, "backup")
    /\ MoveSynced(p, "activate",
                  [proc[p].j EXCEPT !.target = dir.node["backup"],
                                    !.state = "backupCreated"])

BackupSynced(p) ==
    /\ At(p, "backup")
    /\ MoveSynced(p, "backupPersist",
                  [proc[p].j EXCEPT !.target = dir.node["backup"],
                                    !.state = "backupCreated"])

ActivateSynced(p) ==
    /\ At(p, "activate")
    /\ MoveSynced(p, "activatePersist",
                  [proc[p].j EXCEPT !.stage = dir.node["target"],
                                    !.state = "targetActivated"])

(* RemoveLinuxTreeExact of the backup: the root must be the recorded one   *)
(* (change time aside), then descendants go, then the root, then fsync.    *)
GutBackup(p) ==
    /\ At(p, "removeBackup") /\ proc[p].step = "begin"
    /\ Present(dir, "backup")
    /\ SameIdentity(dir.node["backup"], proc[p].j.target)
    /\ \E tick \in Ticks : Change(Gutted(dir, "backup", tick))
    /\ Into(p, "written")
    /\ SameLocks /\ Environment

UnlinkBackup(p) ==
    /\ At(p, "removeBackup") /\ proc[p].step = "written"
    /\ Change(Removed(dir, "backup"))
    /\ Into(p, "changed")
    /\ SameLocks /\ Environment

BackupRemoved(p) ==
    /\ At(p, "removeBackup") /\ proc[p].step = "changed"
    /\ SyncLinuxDirectory
    /\ Goto(p, "unlinkJournal")
    /\ SameLocks /\ Environment

SwapStep(p) == \/ StageSynced(p) \/ BackupSynced(p) \/ ActivateSynced(p)
               \/ GutBackup(p) \/ UnlinkBackup(p) \/ BackupRemoved(p)

-----------------------------------------------------------------------------
(* The owner: constructor, PrepareDurableJournal, CancelPrepared, Execute. *)

(* What the store, a rename and the backup removal require; else they      *)
(* throw.                                                                  *)
CallAccepts(p) ==
    LET q == proc[p] IN
    CASE q.pc \in PersistPcs -> dir.next.state = "none"
      [] q.pc = "stage" -> ~Present(dir, "prepared")
      [] q.pc = "backup" -> ~Present(dir, "backup")
      [] q.pc = "activate" -> ~Present(dir, "target")
      [] q.pc = "removeBackup" -> /\ Present(dir, "backup")
                                  /\ SameIdentity(dir.node["backup"], q.j.target)
      [] OTHER -> TRUE

(* What each owner step requires before it acts; otherwise it throws.      *)
OwnerAccepts ==
    LET o == proc[Owner] IN
    CASE o.pc = "new" -> Present(dir, "target") /\ Present(dir, "stage")
      [] o.pc = "open" -> dir.lock = "none"
      [] o.pc = "lockCreated" -> flock = NoProc
      [] o.pc = "locked" -> /\ Matches(dir, "target", o.j.target)
                            /\ Matches(dir, "stage", o.j.stage)
                            /\ VerifyPayload(dir, "stage")
      [] o.pc = "stage" -> Matches(dir, "stage", o.j.stage)
      [] o.pc = "backup" -> /\ Matches(dir, "target", o.j.target)
                            /\ Matches(dir, "prepared", o.j.stage)
                            /\ VerifyPayload(dir, "prepared")
      [] o.pc = "activate" -> /\ Matches(dir, "backup", o.j.target)
                              /\ Matches(dir, "prepared", o.j.stage)
                              /\ VerifyPayload(dir, "prepared")
      [] o.pc = "finalize" -> MatchesActivatedRoot(dir, "target", o.j.stage)
      [] OTHER -> TRUE

OwnerAt(pc) == At(Owner, pc) /\ proc[Owner].step = "begin" /\ OwnerAccepts

(* The constructor pins target and stage and records their identities.     *)
Construct ==
    /\ OwnerAt("new")
    /\ proc' = [proc EXCEPT ![Owner].pc = "open",
          ![Owner].saw = {"target", "stage"},
          ![Owner].j = [NoFile EXCEPT !.target = dir.node["target"],
                                      !.stage = dir.node["stage"]]]
    /\ SameDirectory /\ SameLocks /\ Environment

(* O_CREAT | O_EXCL: an existing lock file, whoever owns it, is refused.   *)
CreateLock ==
    /\ OwnerAt("open")
    /\ Change([dir EXCEPT !.lock = "torn"])
    /\ Goto(Owner, "lockCreated")
    /\ SameLocks /\ Environment

(* LOCK_EX | LOCK_NB on the file just created.                             *)
FlockLock ==
    /\ OwnerAt("lockCreated")
    /\ flock' = Owner
    /\ Goto(Owner, "lockHeld")
    /\ SameDirectory /\ UNCHANGED rflock /\ Environment

(* The lock record is written and flushed.                                 *)
WriteLock ==
    /\ OwnerAt("lockHeld")
    /\ LET Written(d) == IF d.lock = "torn" THEN [d EXCEPT !.lock = "ours"] ELSE d
       IN  /\ dir' = Written(dir)
           /\ disk' = {Written(d) : d \in disk}
    /\ Goto(Owner, "lockWritten")
    /\ SameLocks /\ Environment

SyncLock ==
    /\ OwnerAt("lockWritten")
    /\ SyncLinuxDirectory
    /\ Goto(Owner, "locked")
    /\ SameLocks /\ Environment

(* PrepareDurableJournal revalidates, then persists the first journal.     *)
PrepareDurableJournal ==
    /\ OwnerAt("locked")
    /\ proc' = [proc EXCEPT ![Owner].pc = "preparePersist",
                            ![Owner].j.state = "prepared"]
    /\ SameDirectory /\ SameLocks /\ Environment

(* A cancellation whose revalidation fails throws and removes nothing.     *)
CancelPrepared ==
    /\ OwnerAt("prepared")
    /\ \/ /\ Matches(dir, "target", proc[Owner].j.target)
          /\ Matches(dir, "stage", proc[Owner].j.stage)
          /\ Goto(Owner, "unlinkJournal") /\ SameLocks
       \/ /\ ~ /\ Matches(dir, "target", proc[Owner].j.target)
               /\ Matches(dir, "stage", proc[Owner].j.stage)
          /\ Goto(Owner, "failed") /\ Release(Owner)
    /\ SameDirectory /\ Environment

BeginExecute ==
    /\ OwnerAt("prepared")
    /\ Goto(Owner, "stage")
    /\ SameDirectory /\ SameLocks /\ Environment

ExecuteStage == OwnerAt("stage") /\ Move(Owner, "stage", "prepared")

ExecuteBackup == OwnerAt("backup") /\ Move(Owner, "target", "backup")

ExecuteActivate == OwnerAt("activate") /\ Move(Owner, "prepared", "target")

(* Mutated FinalizeRoot: the mode of the activated root stays as staged.   *)
FinalizeRootUnchanged(p) ==
    Into(p, "changed") /\ SameDirectory /\ SameLocks /\ Environment

(* fchmod of the activated root; the fsyncs that follow it are part of the *)
(* next step, which verifies the result.                                   *)
FinalizeRoot(p) ==
    /\ \E tick \in Ticks : Change(Finalized(dir, "target", tick))
    /\ Into(p, "changed")
    /\ SameLocks /\ Environment

ExecuteFinalize == OwnerAt("finalize") /\ FinalizeRoot(Owner)

(* The payload is verified once more before the journal says completed.    *)
ExecuteVerified ==
    /\ At(Owner, "finalize") /\ proc[Owner].step = "changed"
    /\ VerifyPayload(dir, "target")
    /\ proc' = [proc EXCEPT ![Owner].pc = "completePersist",
                            ![Owner].step = "begin",
                            ![Owner].j.state = "completed"]
    /\ SyncLinuxDirectory /\ SameLocks /\ Environment

(* Mutated OwnerThrows: the lock is unlinked whatever the journal says.    *)
OwnerThrowsUnlocking ==
    /\ proc[Owner].pc \notin {"new", "open", "cancelled", "done", "failed", "dead"}
    /\ Change([dir EXCEPT !.lock = "none"])
    /\ Goto(Owner, "failed")
    /\ Release(Owner)
    /\ UNCHANGED foreign

(* An exception leaves the owner.  The constructor's handler, and the      *)
(* destructor while no journal was attempted, unlink the lock; afterwards  *)
(* everything is left for recovery.  Unwinding closes the lock.            *)
OwnerThrows ==
    /\ \/ /\ proc[Owner].pc \in {"lockCreated", "lockHeld", "lockWritten"}
          /\ Change([dir EXCEPT !.lock = "none"])
       \/ /\ At(Owner, "locked")
          /\ LET d == [dir EXCEPT !.lock = "none"] IN dir' = d /\ disk' = {d}
       \/ /\ proc[Owner].pc \notin {"lockCreated", "lockHeld", "lockWritten",
                                    "locked", "cancelled", "done", "failed", "dead"}
          /\ SameDirectory
    /\ Goto(Owner, "failed")
    /\ Release(Owner)
    /\ UNCHANGED foreign

OwnerRefuses ==
    /\ \/ proc[Owner].step = "begin" /\ ~(OwnerAccepts /\ CallAccepts(Owner))
       \/ /\ At(Owner, "finalize") /\ proc[Owner].step = "changed"
          /\ ~VerifyPayload(dir, "target")
    /\ OwnerThrows
    /\ UNCHANGED faults

OwnerExit ==
    /\ proc[Owner].pc \in {"cancelled", "done", "failed"}
    /\ Goto(Owner, "dead")
    /\ Release(Owner)
    /\ SameDirectory /\ Environment

OwnerStep == \/ FlockLock \/ CreateLock \/ WriteLock \/ SyncLock
             \/ ExecuteStage \/ ExecuteBackup \/ ExecuteActivate
             \/ ExecuteFinalize \/ ExecuteVerified \/ OwnerRefuses

-----------------------------------------------------------------------------
(* LinuxRecoveryService::Recover.                                          *)

RecoverAt(r, pc) == At(r, pc) /\ proc[r].step = "begin"

CallRecover(r) ==
    /\ At(r, "idle")
    /\ proc' = [proc EXCEPT ![r] = StartOf("next")]
    /\ SameDirectory /\ SameLocks /\ Environment

(* HasAmbiguousNext.                                                       *)
RecoverNext(r) ==
    /\ RecoverAt(r, "next")
    /\ \/ dir.next.state # "none" /\ Return(r, "manual")
       \/ dir.next.state = "none" /\ Goto(r, "load") /\ SameLocks
    /\ SameDirectory /\ Environment

(* Load: no journal leads to the orphan lock, one that does not decode     *)
(* throws.  The loaded copy is used for the rest of the call.              *)
RecoverLoad(r) ==
    /\ RecoverAt(r, "load")
    /\ \/ dir.journal.state = "torn" /\ Return(r, "manual")
       \/ dir.journal.state = "none" /\ Goto(r, "orphanOpen") /\ SameLocks
       \/ /\ dir.journal.state \in JournalStates
          /\ proc' = [proc EXCEPT ![r].pc = "lockOpen", ![r].j = dir.journal]
          /\ SameLocks
    /\ SameDirectory /\ Environment

(* Opening the lock file and trying its flock.  Another transaction's lock *)
(* is another inode, held while that transaction lives.                    *)
OpenForeignLock(r) ==
    /\ dir.lock = "foreign"
    /\ Return(r, IF foreign = "holding" THEN "live" ELSE "manual")

OrphanOpen(r) ==
    /\ RecoverAt(r, "orphanOpen")
    /\ \/ dir.lock = "none" /\ Return(r, "nothing")
       \/ OpenForeignLock(r)
       \/ dir.lock \in {"torn", "ours"} /\ Goto(r, "orphanFlock") /\ SameLocks
    /\ SameDirectory /\ Environment

LockOpen(r) ==
    /\ RecoverAt(r, "lockOpen")
    /\ \/ dir.lock = "none" /\ Return(r, "manual")
       \/ OpenForeignLock(r)
       \/ dir.lock \in {"torn", "ours"} /\ Goto(r, "lockFlock") /\ SameLocks
    /\ SameDirectory /\ Environment

(* LOCK_EX | LOCK_NB on the inode that was opened.                         *)
TryFlock(r, from, to) ==
    /\ RecoverAt(r, from)
    /\ \/ flock # NoProc /\ Return(r, "live")
       \/ flock = NoProc /\ flock' = r /\ Goto(r, to) /\ UNCHANGED rflock
    /\ SameDirectory /\ Environment

OrphanFlock(r) == TryFlock(r, "orphanFlock", "orphanCheck")

LockFlock(r) == TryFlock(r, "lockFlock", "check")

(* The lock record is read by name.  A dead owner's lock without a journal *)
(* is unlinked when no swap has begun.                                     *)
OrphanCheck(r) ==
    /\ RecoverAt(r, "orphanCheck")
    /\ LET ours == dir.lock = "ours"
           swapping == Present(dir, "prepared") \/ Present(dir, "backup")
       IN  \/ ~ours /\ Return(r, "manual") /\ SameDirectory
           \/ ours /\ OwnerAlive /\ Return(r, "live") /\ SameDirectory
           \/ /\ ours /\ ~OwnerAlive /\ swapping
              /\ Return(r, "manual") /\ SameDirectory
           \/ /\ ours /\ ~OwnerAlive /\ ~swapping
              /\ Change([dir EXCEPT !.lock = "none"])
              /\ Goto(r, "orphanSync") /\ Release(r)
    /\ Environment

(* Mutated OrphanSync: a result that Recover does not declare.             *)
OrphanSyncUndeclared(r) ==
    /\ RecoverAt(r, "orphanSync")
    /\ SyncLinuxDirectory /\ Return(r, "removed") /\ Environment

OrphanSync(r) ==
    /\ RecoverAt(r, "orphanSync")
    /\ SyncLinuxDirectory /\ Return(r, "nothing") /\ Environment

(* Mutated RecoverCheck: the recorded owner's liveness is not checked.     *)
RecoverCheckIgnoringOwner(r) ==
    /\ RecoverAt(r, "check")
    /\ \/ dir.lock # "ours" /\ Return(r, "manual") /\ SameDirectory
       \/ /\ dir.lock = "ours" /\ rflock = NoProc
          /\ Change([dir EXCEPT !.rlock = TRUE])
          /\ rflock' = r /\ Goto(r, "observe") /\ UNCHANGED flock
    /\ Environment

(* Bindings and liveness of the recorded owner, then the recovery lock.    *)
RecoverCheck(r) ==
    /\ RecoverAt(r, "check")
    /\ \/ dir.lock # "ours" /\ Return(r, "manual") /\ SameDirectory
       \/ dir.lock = "ours" /\ OwnerAlive /\ Return(r, "live") /\ SameDirectory
       \/ /\ dir.lock = "ours" /\ ~OwnerAlive
          /\ Change([dir EXCEPT !.rlock = TRUE])
          /\ \/ rflock # NoProc /\ Return(r, "live")
             \/ rflock = NoProc /\ rflock' = r /\ Goto(r, "observe")
                                /\ UNCHANGED flock
    /\ Environment

(* Mutated FirstRepair: a missing target is not activated again.           *)
FirstRepairWithoutActivation(seen) ==
    CASE "stage" \in seen -> "stage"
      [] "stage" \notin seen /\ "prepared" \in seen /\ "backup" \notin seen -> "backup"
      [] OTHER -> "finalize"

(* Where the code's sequence of ifs starts for the leaves that were seen.  *)
FirstRepair(seen) ==
    CASE "stage" \in seen -> "stage"
      [] "stage" \notin seen /\ "prepared" \in seen /\ "backup" \notin seen -> "backup"
      [] seen = {"prepared", "backup"} -> "activate"
      [] OTHER -> "finalize"

Recognised(d, j) ==
    /\ d.lock # "none"
    /\ CompatibleObservation(j.state, PresentLeaves(d))
    /\ Present(d, "target") => \/ SameIdentity(d.node["target"], j.target)
                               \/ MatchesActivatedRoot(d, "target", j.stage)
    /\ Present(d, "backup") => Matches(d, "backup", j.target)

RecoverObserve(r) ==
    /\ RecoverAt(r, "observe")
    /\ Recognised(dir, proc[r].j)
    /\ proc' = [proc EXCEPT ![r].pc = FirstRepair(PresentLeaves(dir)),
                            ![r].saw = PresentLeaves(dir)]
    /\ SameDirectory /\ SameLocks /\ Environment

(* Only the stage, and not an already prepared sibling, is checked before  *)
(* the target is moved aside.                                              *)
RecoverAccepts(r) ==
    LET q == proc[r] IN
    CASE q.pc = "observe" -> Recognised(dir, q.j)
      [] q.pc = "stage" -> Matches(dir, "stage", q.j.stage) /\ VerifyPayload(dir, "stage")
      [] q.pc = "backup" -> "target" \in q.saw /\ Matches(dir, "target", q.j.target)
      [] q.pc = "activate" -> /\ Matches(dir, "prepared", q.j.stage)
                              /\ VerifyPayload(dir, "prepared")
      [] q.pc = "finalize" -> MatchesActivatedRoot(dir, "target", q.j.stage)
      [] OTHER -> TRUE

RecoverStage(r) ==
    RecoverAt(r, "stage") /\ RecoverAccepts(r) /\ Move(r, "stage", "prepared")

RecoverBackup(r) ==
    RecoverAt(r, "backup") /\ RecoverAccepts(r) /\ Move(r, "target", "backup")

RecoverActivate(r) ==
    RecoverAt(r, "activate") /\ RecoverAccepts(r) /\ Move(r, "prepared", "target")

RecoverFinalize(r) ==
    /\ RecoverAt(r, "finalize") /\ RecoverAccepts(r)
    /\ "backup" \in proc[r].saw
    /\ FinalizeRoot(r)

(* The activated target is verified.  A backup must still be the recorded  *)
(* one before two more journal writes authorise its removal; with no       *)
(* backup left only the journal and the locks remain to be removed.        *)
Finished(r) ==
    /\ At(r, "finalize")
    /\ proc[r].step = "changed" \/ "backup" \notin proc[r].saw

FinishAccepts(r) ==
    /\ proc[r].saw \in {{"target"}, {"target", "backup"}}
    /\ MatchesActivatedRoot(dir, "target", proc[r].j.stage)
    /\ VerifyPayload(dir, "target")
    /\ "backup" \in proc[r].saw => Matches(dir, "backup", proc[r].j.target)

RecoverVerified(r) ==
    /\ Finished(r) /\ FinishAccepts(r)
    /\ \/ /\ "backup" \in proc[r].saw
          /\ proc' = [proc EXCEPT ![r].pc = "verifiedPersist", ![r].step = "begin",
                                  ![r].j.state = "targetActivated"]
          /\ SyncLinuxDirectory
       \/ /\ "backup" \notin proc[r].saw
          /\ Goto(r, "unlinkJournal") /\ SameDirectory
    /\ SameLocks /\ Environment

RecoverUnlinkRlock(r) ==
    /\ RecoverAt(r, "unlinkRlock")
    /\ Change([dir EXCEPT !.rlock = FALSE])
    /\ Goto(r, "syncRecovered")
    /\ SameLocks /\ Environment

SyncRecovered(r) ==
    /\ RecoverAt(r, "syncRecovered")
    /\ SyncLinuxDirectory /\ Return(r, "recovered") /\ Environment

(* Every refusal, and every exception, becomes manualActionRequired.       *)
RecoverRefuses(r) ==
    /\ \/ proc[r].step = "begin" /\ ~(RecoverAccepts(r) /\ CallAccepts(r))
       \/ Finished(r) /\ ~FinishAccepts(r)
    /\ Return(r, "manual") /\ SameDirectory /\ Environment

(* The caller takes the outcome and may call again later.                  *)
ReturnToCaller(r) ==
    /\ proc[r].pc \in Outcomes
    /\ proc' = [proc EXCEPT ![r] = StartOf("idle")]
    /\ SameDirectory /\ SameLocks /\ Environment

RecoverStep(r) ==
    \/ RecoverNext(r) \/ RecoverLoad(r) \/ OrphanOpen(r) \/ OrphanFlock(r)
    \/ OrphanCheck(r) \/ OrphanSync(r) \/ LockOpen(r) \/ LockFlock(r)
    \/ RecoverCheck(r) \/ RecoverObserve(r) \/ RecoverStage(r)
    \/ RecoverBackup(r) \/ RecoverActivate(r) \/ RecoverFinalize(r)
    \/ RecoverVerified(r) \/ RecoverUnlinkRlock(r) \/ SyncRecovered(r)
    \/ RecoverRefuses(r)

-----------------------------------------------------------------------------
(* Faults.                                                                 *)

Fault == faults < MaxFaults /\ faults' = faults + 1

(* The owner is killed: its descriptors close, the files stay.             *)
CrashOwner ==
    /\ Fault /\ OwnerAlive
    /\ proc' = [proc EXCEPT ![Owner] = StartOf("dead")]
    /\ Release(Owner) /\ SameDirectory /\ UNCHANGED foreign

(* A system call of the owner fails: it throws.                            *)
OwnerError ==
    /\ Fault
    /\ proc[Owner].pc \notin {"new", "prepared", "cancelled", "done", "failed", "dead"}
    /\ OwnerThrows

CrashRecoverer(r) ==
    /\ Fault /\ proc[r].pc \notin Outcomes \cup {"idle"}
    /\ Return(r, "idle") /\ SameDirectory /\ UNCHANGED foreign

RecoverError(r) ==
    /\ Fault /\ proc[r].pc \notin Outcomes \cup {"idle"}
    /\ Return(r, "manual") /\ SameDirectory /\ UNCHANGED foreign

(* The machine loses power: every process is gone, and the directory is    *)
(* any state that the fsyncs so far allow.                                 *)
PowerLoss ==
    /\ Fault
    /\ \E d \in disk : dir' = d /\ disk' = {d}
    /\ proc' = [p \in Procs |-> StartOf(IF p = Owner THEN "dead" ELSE "idle")]
    /\ flock' = NoProc /\ rflock' = NoProc
    /\ foreign' = IF foreign = "holding" THEN "done" ELSE foreign

-----------------------------------------------------------------------------
(* Another transaction on the same target takes the same lock file and     *)
(* replaces the target; its own swap is not the subject here.              *)

ForeignLock ==
    /\ foreign = "idle" /\ dir.lock = "none" /\ Present(dir, "target")
    /\ LET d == [dir EXCEPT !.lock = "foreign"] IN dir' = d /\ disk' = {d}
    /\ foreign' = "holding"
    /\ UNCHANGED <<proc, faults>> /\ SameLocks

ForeignInstall ==
    /\ foreign = "holding" /\ Present(dir, "target")
    /\ LET d == [dir EXCEPT !.node["target"] = FreshNode("other")]
       IN  dir' = d /\ disk' = {d}
    /\ UNCHANGED <<proc, faults, foreign>> /\ SameLocks

ForeignUnlock ==
    /\ foreign = "holding"
    /\ LET d == [dir EXCEPT !.lock = "none"] IN dir' = d /\ disk' = {d}
    /\ foreign' = "done"
    /\ UNCHANGED <<proc, faults>> /\ SameLocks

-----------------------------------------------------------------------------
ProcessStep(p) == StoreStep(p) \/ SwapStep(p)

OwnerNext == OwnerStep \/ Construct \/ PrepareDurableJournal \/ CancelPrepared
             \/ BeginExecute \/ OwnerExit \/ ProcessStep(Owner)

RecoverNextStep(r) == RecoverStep(r) \/ ProcessStep(r) \/ ReturnToCaller(r)

Next == \/ OwnerNext
        \/ \E r \in Recoverers : CallRecover(r) \/ RecoverNextStep(r)
        \/ CrashOwner \/ OwnerError \/ PowerLoss
        \/ \E r \in Recoverers : CrashRecoverer(r) \/ RecoverError(r)
        \/ ForeignLock \/ ForeignInstall \/ ForeignUnlock

Spec == Init /\ [][Next]_vars

(* The host application restarts after the helper died and then asks for   *)
(* recovery, one request at a time, whenever the last one has returned.    *)
CallRecoverAlone(r) ==
    /\ ~OwnerAlive
    /\ \A q \in Recoverers : At(q, "idle")
    /\ CallRecover(r)

SequentialNext ==
    \/ OwnerNext
    \/ \E r \in Recoverers : CallRecoverAlone(r) \/ RecoverNextStep(r)
    \/ CrashOwner \/ OwnerError \/ PowerLoss
    \/ \E r \in Recoverers : CrashRecoverer(r) \/ RecoverError(r)
    \/ ForeignLock \/ ForeignInstall \/ ForeignUnlock

(* A scheduled process keeps running; the application keeps asking.        *)
SequentialSpec ==
    /\ Init /\ [][SequentialNext]_vars
    /\ WF_vars(OwnerNext)
    /\ \A r \in Recoverers : /\ WF_vars(RecoverNextStep(r))
                              /\ WF_vars(CallRecoverAlone(r))

-----------------------------------------------------------------------------
(* Properties.                                                             *)

(* The variables hold directories, process records and lock holders of the *)
(* declared shapes.                                                        *)
TypeOK ==
    /\ dir \in Directory
    /\ disk \subseteq Directory
    /\ flock \in Procs \cup {NoProc}
    /\ rflock \in Procs \cup {NoProc}
    /\ proc \in [Procs -> Process]
    /\ foreign \in {"idle", "holding", "done"}
    /\ faults \in 0..MaxFaults

(* An application that could be started again: untouched under the target  *)
(* or under the backup.                                                    *)
Survives(d) ==
    \/ d.node["target"].tree # "none" /\ d.node["target"].whole
    \/ d.node["backup"].tree \in {"old", "other"} /\ d.node["backup"].whole

(* Whatever crash, power loss or failing call interrupts Execute and       *)
(* Recover, every directory state that may survive holds a complete        *)
(* application under the target or the backup, and a partly removed tree   *)
(* is never what the target names.                                         *)
PayloadNeverLost ==
    \A d \in disk : Survives(d) /\ d.node["target"].whole

(* RemoveLinuxTreeExact is the only destructive step: on every directory   *)
(* state that may survive, an activated payload whose backup is gone, or   *)
(* has lost a file, is in its final mode, under a journal that records its *)
(* activation or is already removed.                                       *)
BackupDiscardedOnlyWhenFinal ==
    \A d \in disk :
        d.node["target"].tree = "new" /\ ~(Present(d, "backup") /\ d.node["backup"].whole)
        => /\ d.node["target"].final
           /\ d.journal.state \in {"targetActivated", "completed", "none"}

(* The transaction lock, the liveness check and the recovery lock admit    *)
(* one process at a time to the swap, whoever crashes and whoever recovers *)
(* a recoverer.                                                            *)
Mutating(p) == proc[p].pc \in MutatingPcs

ExclusiveMutation ==
    \A p, q \in Procs : Mutating(p) /\ Mutating(q) => p = q

(* While the target is missing, on any state that may survive, the lock of *)
(* this transaction is there: no other transaction can start on the gap.   *)
(* (Its journal may not be: Recover reads it before it holds the locks.)   *)
LockCoversMissingTarget ==
    \A d \in disk :
        ~Present(d, "target") => d.lock = "ours"

(* Write-ahead discipline: on every state that may survive, the leaves are *)
(* ones CompatibleObservation accepts under the durable journal, which is  *)
(* never torn.  The one exception is a Recover that found the target moved *)
(* aside under a prepared journal: it activates the payload before it      *)
(* writes the journal again.                                               *)
JournalDescribesTree ==
    \A d \in disk :
        d.journal.state # "none"
        => \/ CompatibleObservation(d.journal.state, PresentLeaves(d))
           \/ /\ d.journal.state = "prepared" /\ ~OwnerAlive
              /\ PresentLeaves(d) = {"target", "backup"}

(* A live owner is never recovered: no recoverer touches the swap while    *)
(* the process that owns the transaction lives.                            *)
LiveOwnerNeverRecovered ==
    OwnerAlive => \A r \in Recoverers : ~Mutating(r)

(* Why the two above hold: from the flock of the lock file on, until the   *)
(* process returns or dies, the lock is its own; and a recoverer that got  *)
(* past RecoverCheck has a dead owner.                                     *)
HoldingPcs == MutatingPcs \cup
    {"lockHeld", "lockWritten", "locked", "preparePersist", "prepared", "done",
     "orphanCheck", "check", "observe", "unlinkRlock", "syncRecovered"}

OwningPcs == MutatingPcs \cup {"observe", "unlinkRlock", "syncRecovered"}

LockOwnership ==
    /\ \A p \in Procs : proc[p].pc \in HoldingPcs => flock = p
    /\ \A r \in Recoverers : proc[r].pc \in OwningPcs => ~OwnerAlive

(* What Recover can work with: an owner that died and will not be helped   *)
(* by another fault, a journal without a ".next" beside it, and leaves     *)
(* that are exactly the recorded ones.                                     *)
Consistent(d) ==
    /\ d.next.state = "none" /\ d.journal.state \in JournalStates
    /\ d.lock = "ours" /\ Recognised(d, d.journal)
    /\ \A leaf \in {"stage", "prepared"} :
          Present(d, leaf) => Matches(d, leaf, d.journal.stage)
    /\ "backup" \notin PresentLeaves(d) /\ d.journal.state = "prepared"
          => Matches(d, "target", d.journal.target)

CrashedConsistently == ~OwnerAlive /\ faults = MaxFaults /\ Consistent(dir)

(* The whole swap is over and nothing of it is left behind.                *)
Installed(d) ==
    /\ d.node["target"].tree = "new" /\ d.node["target"].final
    /\ PresentLeaves(d) = {"target"}
    /\ d.journal.state = "none" /\ d.lock = "none"

(* A crash that leaves a consistent directory is always recovered: the new *)
(* application becomes the target, in its final mode, and the backup, the  *)
(* journal and the lock go away.                                           *)
ConsistentCrashRecovers == CrashedConsistently ~> Installed(dir)

=============================================================================
