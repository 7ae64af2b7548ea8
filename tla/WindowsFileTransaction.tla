----------------------- MODULE WindowsFileTransaction -----------------------
(***************************************************************************)
(* The directory swap on Windows: WindowsFileTransaction, its durable      *)
(* journal store and WindowsRecoveryService.  Several transactions may be  *)
(* started for one target; each has its own stage, prepared, backup and    *)
(* journal names, and they share the target's lock file.                   *)
(*                                                                         *)
(* A process that holds the lock has it open without sharing, so the       *)
(* handle goes with the process.  Any process may die between two steps;   *)
(* the owner's may also throw, which runs the destructor and leaves the    *)
(* process alive for a while.  Flushes are steps of their operation: a     *)
(* power loss is not modelled here.                                        *)
(***************************************************************************)
EXTENDS Naturals, FiniteSets

CONSTANTS Transactions,  \* each with a payload of its own, for one target
          Recoverers,    \* processes that run WindowsRecoveryService
          MaxChanges     \* how many payloads may be altered from outside

ASSUME SwapAssumption == /\ Transactions # {}
                         /\ Transactions \cap Recoverers = {}
                         /\ "old" \notin Transactions
                         /\ "none" \notin Transactions \cup Recoverers
                         /\ MaxChanges \in Nat

VARIABLES target,    \* the bundle under the target name
          stage,     \* per transaction: its payload under the stage name
          prepared,  \* per transaction: its payload under the prepared name
          backup,    \* per transaction: the bundle under its backup name
          journal,   \* per transaction: the state in its journal file
          next,      \* per transaction: what its journal.next file holds
          candidate, \* per transaction: the lock.next file exists
          lock,      \* the lock file: the transaction it names, who has it open
          expect,    \* per transaction: the target identity its journal names
          intact,    \* per transaction: its payload still verifies
          proc       \* per process: where it is

tree == <<target, stage, prepared, backup>>

store == <<journal, next>>

locks == <<candidate, lock>>

vars == <<tree, store, locks, expect, intact, proc>>

-----------------------------------------------------------------------------
Bundles == {"old"} \cup Transactions

(* WindowsTransactionState without manualActionRequired, never persisted.  *)
JournalStates == {"prepared", "backupCreated", "targetActivated", "completed"}

(* A journal.next that was created, was half written, or is whole.         *)
Candidates == {"none", "empty", "partial"} \cup JournalStates

Processes == Transactions \cup Recoverers

(* The owner's phases, recovery's, and the ones they share.                *)
Pcs == {"idle", "validating", "locking", "binding", "staging", "prepared",
        "accepted", "backing", "activating", "verifying", "failed", "ended"}
       \cup {"opening", "loading", "matching", "forward", "completing"}
       \cup {"creating", "writing", "flushing", "deleting", "removing",
             "cancelling", "releasing"}

Intents == {"complete", "rollBack"}

Outcomes == {"none", "nothingToRecover", "liveOwner", "recovered", "rolledBack",
             "manualActionRequired"}

Unlocked == [names |-> "none", holder |-> "none"]

(* to: the state a Persist writes, then: where it continues; saw: a        *)
(* journal file existed before the lock was opened.                        *)
Fresh(t) == [pc |-> "idle", tx |-> t, to |-> "prepared", then |-> "idle",
             intent |-> "complete", saw |-> FALSE, outcome |-> "none"]

TypeOK ==
    /\ target \in Bundles \cup {"none"}
    /\ stage \in [Transactions -> BOOLEAN]
    /\ prepared \in [Transactions -> BOOLEAN]
    /\ backup \in [Transactions -> Bundles \cup {"none"}]
    /\ journal \in [Transactions -> JournalStates \cup {"none"}]
    /\ next \in [Transactions -> Candidates]
    /\ candidate \in [Transactions -> BOOLEAN]
    /\ lock \in [names : Transactions \cup {"none"},
                 holder : Processes \cup {"none"}]
    /\ expect \in [Transactions -> Bundles]
    /\ intact \in [Transactions -> BOOLEAN]
    /\ proc \in [Processes -> [pc : Pcs, tx : Transactions, to : JournalStates,
                               then : Pcs, intent : Intents, saw : BOOLEAN,
                               outcome : Outcomes]]

Init ==
    /\ target = "old"
    /\ stage = [t \in Transactions |-> TRUE]
    /\ prepared = [t \in Transactions |-> FALSE]
    /\ backup = [t \in Transactions |-> "none"]
    /\ journal = [t \in Transactions |-> "none"]
    /\ next = [t \in Transactions |-> "none"]
    /\ candidate = [t \in Transactions |-> FALSE]
    /\ lock = Unlocked
    /\ expect = [t \in Transactions |-> "old"]
    /\ intact = [t \in Transactions |-> TRUE]
    /\ proc = [p \in Processes |->
                 Fresh(IF p \in Transactions THEN p
                       ELSE CHOOSE t \in Transactions : TRUE)]

-----------------------------------------------------------------------------
At(p, pc) == proc[p].pc = pc

Goto(p, pc) == proc' = [proc EXCEPT ![p].pc = pc]

(* A recoverer answers and closes its handle; the file keeps its name.     *)
Answer(p, outcome) ==
    /\ proc' = [proc EXCEPT ![p].pc = "idle", ![p].outcome = outcome]
    /\ lock' = IF lock.holder = p THEN [lock EXCEPT !.holder = "none"] ELSE lock

PersistThen(p, state, then) ==
    proc' = [proc EXCEPT ![p].pc = "creating", ![p].to = state, ![p].then = then]

OwnerLives(t) == proc[t].pc # "ended"

-----------------------------------------------------------------------------
(* DurableWindowsTransactionJournalStore.                                  *)

(* IsForwardJournalState: the same state or the one after it.              *)
IsForwardJournalState(final, state) ==
    \/ final = state
    \/ <<final, state>> \in {<<"prepared", "backupCreated">>,
                             <<"backupCreated", "targetActivated">>,
                             <<"targetActivated", "completed">>}

(* Load refuses: a first candidate that is not a whole "prepared", or a    *)
(* whole candidate that is no forward step.  A prefix of an allowed next   *)
(* journal is what a half-written candidate beside a journal is.           *)
LoadFails(t) ==
    IF journal[t] = "none" THEN next[t] \notin {"none", "empty", "prepared"}
    ELSE next[t] \in JournalStates /\ ~IsForwardJournalState(journal[t], next[t])

(* Mutated LoadedJournal: a candidate is promoted without being decoded.   *)
LoadedJournalUndecoded(t) == IF next[t] # "none" THEN next[t] ELSE journal[t]

LoadedJournal(t) == IF next[t] \in JournalStates THEN next[t] ELSE journal[t]

(* Persist up to the creation of journal.next: Load, the transition check. *)
PersistCreate(p) ==
    LET t == proc[p].tx IN
    /\ At(p, "creating")
    /\ IF LoadedJournal(t) = "none" THEN proc[p].to = "prepared"
       ELSE IsForwardJournalState(LoadedJournal(t), proc[p].to)
    /\ journal' = [journal EXCEPT ![t] = LoadedJournal(t)]
    /\ next' = [next EXCEPT ![t] = "empty"]
    /\ Goto(p, "writing")
    /\ UNCHANGED <<tree, locks, expect, intact>>

PersistWrite(p) ==
    LET t == proc[p].tx IN
    /\ At(p, "writing")
    /\ \/ next[t] = "empty" /\ next' = [next EXCEPT ![t] = "partial"]
          /\ UNCHANGED proc
       \/ next[t] = "partial" /\ next' = [next EXCEPT ![t] = proc[p].to]
          /\ Goto(p, "flushing")
    /\ UNCHANGED <<tree, journal, locks, expect, intact>>

(* The rename over the journal and the directory flush.                    *)
PersistPublish(p) ==
    LET t == proc[p].tx IN
    /\ At(p, "flushing")
    /\ journal' = [journal EXCEPT ![t] = proc[p].to]
    /\ next' = [next EXCEPT ![t] = "none"]
    /\ Goto(p, proc[p].then)
    /\ UNCHANGED <<tree, locks, expect, intact>>

(* Remove, the last journal operation of a swap and of a rollback.         *)
RemoveJournal(p) ==
    /\ At(p, "removing")
    /\ journal' = [journal EXCEPT ![proc[p].tx] = "none"]
    /\ Goto(p, "releasing")
    /\ UNCHANGED <<tree, next, locks, expect, intact>>

-----------------------------------------------------------------------------
(* WindowsFileTransaction.                                                 *)

DerivedNamesFree(t) ==
    /\ ~prepared[t] /\ backup[t] = "none" /\ ~candidate[t]
    /\ journal[t] = "none" /\ next[t] = "none"

StageValid(t) == stage[t] /\ intact[t]

PreparedValid(t) == prepared[t] /\ intact[t]

(* The constructor pins the target's identity; it takes no lock.           *)
Construct(t) ==
    /\ At(t, "idle")
    /\ target # "none" /\ StageValid(t) /\ DerivedNamesFree(t)
    /\ expect' = [expect EXCEPT ![t] = target]
    /\ Goto(t, "validating")
    /\ UNCHANGED <<tree, store, locks, intact>>

(* Prepare validates everything before it has the lock.                    *)
ValidateBeforeLock(t) ==
    /\ At(t, "validating")
    /\ StageValid(t) /\ target = expect[t] /\ DerivedNamesFree(t)
    /\ Goto(t, "locking")
    /\ UNCHANGED <<tree, store, locks, expect, intact>>

CreateCandidate(t) ==
    /\ At(t, "locking") /\ ~candidate[t]
    /\ candidate' = [candidate EXCEPT ![t] = TRUE]
    /\ Goto(t, "binding")
    /\ UNCHANGED <<tree, store, lock, expect, intact>>

(* The bound candidate is renamed to the lock name, never over it.         *)
AcquireLock(t) ==
    /\ At(t, "binding") /\ lock = Unlocked
    /\ candidate' = [candidate EXCEPT ![t] = FALSE]
    /\ lock' = [names |-> t, holder |-> t]
    /\ PersistThen(t, "prepared", "staging")
    /\ UNCHANGED <<tree, store, expect, intact>>

LockTaken(t) ==
    /\ At(t, "binding") /\ lock # Unlocked
    /\ candidate' = [candidate EXCEPT ![t] = FALSE]
    /\ Goto(t, "failed")
    /\ UNCHANGED <<tree, store, lock, expect, intact>>

RenameStage(t) ==
    /\ At(t, "staging") /\ StageValid(t) /\ ~prepared[t]
    /\ stage' = [stage EXCEPT ![t] = FALSE]
    /\ prepared' = [prepared EXCEPT ![t] = TRUE]
    /\ Goto(t, "prepared")
    /\ UNCHANGED <<target, backup, store, locks, expect, intact>>

(* MarkCommitAccepted persists the same journal once more.                 *)
MarkCommitAccepted(t) ==
    /\ At(t, "prepared")
    /\ PersistThen(t, "prepared", "accepted")
    /\ UNCHANGED <<tree, store, locks, expect, intact>>

(* ExecutePrepared, one action per rename and journal state.               *)
CreateBackup(t) ==
    /\ At(t, "accepted")
    /\ PreparedValid(t) /\ target = expect[t] /\ backup[t] = "none"
    /\ backup' = [backup EXCEPT ![t] = target]
    /\ target' = "none"
    /\ PersistThen(t, "backupCreated", "activating")
    /\ UNCHANGED <<stage, prepared, store, locks, expect, intact>>

ActivateTarget(t) ==
    /\ At(t, "activating") /\ PreparedValid(t) /\ target = "none"
    /\ target' = t
    /\ prepared' = [prepared EXCEPT ![t] = FALSE]
    /\ PersistThen(t, "targetActivated", "verifying")
    /\ UNCHANGED <<stage, backup, store, locks, expect, intact>>

(* Mutated VerifyTarget: the backup goes before "completed" is journalled. *)
VerifyTargetAndDelete(t) ==
    /\ At(t, "verifying") /\ target = t /\ intact[t]
    /\ Goto(t, "deleting")
    /\ UNCHANGED <<tree, store, locks, expect, intact>>

VerifyTarget(t) ==
    /\ At(t, "verifying") /\ target = t /\ intact[t]
    /\ PersistThen(t, "completed", "deleting")
    /\ UNCHANGED <<tree, store, locks, expect, intact>>

(* DeleteTreeRelative of the exact backup, by the owner or by recovery.    *)
DeleteBackup(p) ==
    LET t == proc[p].tx IN
    /\ At(p, "deleting")
    /\ backup[t] \in {expect[t], "none"}
    /\ backup' = [backup EXCEPT ![t] = "none"]
    /\ Goto(p, "removing")
    /\ UNCHANGED <<target, stage, prepared, store, locks, expect, intact>>

(* ReleaseLockExact; the owner or the recoverer is then through.           *)
ReleaseLock(p) ==
    /\ At(p, "releasing")
    /\ lock' = Unlocked
    /\ proc' = [proc EXCEPT
          ![p].pc = IF p \in Transactions THEN "ended" ELSE "idle",
          ![p].outcome = IF proc[p].intent = "complete" THEN "recovered"
                         ELSE "rolledBack"]
    /\ UNCHANGED <<tree, store, candidate, expect, intact>>

CancelPrepared(t) ==
    /\ proc[t].pc \in {"prepared", "accepted"}
    /\ PreparedValid(t) /\ target = expect[t] /\ ~stage[t]
    /\ prepared' = [prepared EXCEPT ![t] = FALSE]
    /\ stage' = [stage EXCEPT ![t] = TRUE]
    /\ proc' = [proc EXCEPT ![t].pc = "removing", ![t].intent = "rollBack"]
    /\ UNCHANGED <<target, backup, store, locks, expect, intact>>

(* The destructor after an exception keeps the lock file when a journal    *)
(* file may exist; journal_persisted_ is still false before "staging".     *)
(* Mutated KeepsLock: only a published journal keeps it.                   *)
KeepsLockForJournal(t) == journal[t] # "none"

KeepsLock(t) == journal[t] # "none" \/ next[t] # "none"

(* A check or a system call of the owner throws.                           *)
OwnerFails(t) ==
    /\ proc[t].pc \notin {"idle", "failed", "ended"}
    /\ Goto(t, "failed")
    /\ candidate' = [candidate EXCEPT ![t] = FALSE]
    /\ lock' = CASE lock.holder # t -> lock
                 [] lock.holder = t /\ (KeepsLock(t) \/ At(t, "releasing")) ->
                      [lock EXCEPT !.holder = "none"]
                 [] OTHER -> Unlocked
    /\ UNCHANGED <<tree, store, expect, intact>>

(* The owner's process is gone: killed where it stands, or after a throw.  *)
OwnerDies(t) ==
    /\ OwnerLives(t)
    /\ Goto(t, "ended")
    /\ lock' = IF lock.holder = t THEN [lock EXCEPT !.holder = "none"] ELSE lock
    /\ UNCHANGED <<tree, store, candidate, expect, intact>>

-----------------------------------------------------------------------------
(* WindowsRecoveryService.                                                 *)

(* Recover looks for a journal before it opens the lock.                   *)
BeginRecovery(r) ==
    \E t \in Transactions, intent \in Intents :
        /\ At(r, "idle")
        /\ proc' = [proc EXCEPT ![r] =
              [Fresh(t) EXCEPT !.pc = "opening", !.intent = intent,
                               !.saw = journal[t] # "none" \/ next[t] # "none"]]
        /\ UNCHANGED <<tree, store, locks, expect, intact>>

(* Mutated HeldElsewhere: the lock is opened with sharing.                 *)
HeldByNobody(r) == FALSE

HeldElsewhere(r) == lock.holder \notin {"none", r}

CannotOpenLock(r) ==
    /\ At(r, "opening")
    /\ \/ HeldElsewhere(r) /\ Answer(r, "liveOwner")
       \/ lock = Unlocked /\ Answer(r, IF proc[r].saw THEN "manualActionRequired"
                                       ELSE "nothingToRecover")
       \/ ~HeldElsewhere(r) /\ lock.names \notin {"none", proc[r].tx}
          /\ Answer(r, "manualActionRequired")
    /\ UNCHANGED <<tree, store, candidate, expect, intact>>

OpenLock(r) ==
    /\ At(r, "opening") /\ ~HeldElsewhere(r) /\ lock.names = proc[r].tx
    /\ lock' = [lock EXCEPT !.holder = r]
    /\ Goto(r, "loading")
    /\ UNCHANGED <<tree, store, candidate, expect, intact>>

CleanInitialTopology(t) == ~prepared[t] /\ backup[t] = "none" /\ target # "none"

(* Load under the lock; without a journal the lock alone is cleared.       *)
LoadJournal(r) ==
    LET t == proc[r].tx IN
    /\ At(r, "loading")
    /\ ~LoadFails(t)
    /\ journal' = [journal EXCEPT ![t] = LoadedJournal(t)]
    /\ next' = [next EXCEPT ![t] = "none"]
    /\ \/ /\ LoadedJournal(t) = "none" /\ CleanInitialTopology(t)
          /\ lock' = Unlocked
          /\ proc' = [proc EXCEPT ![r].pc = "idle",
                                  ![r].outcome = "nothingToRecover"]
       \/ /\ LoadedJournal(t) = "none" /\ ~CleanInitialTopology(t)
          /\ Answer(r, "manualActionRequired")
       \/ /\ LoadedJournal(t) # "none" /\ OwnerLives(t)
          /\ Answer(r, "liveOwner")
       \/ /\ LoadedJournal(t) # "none" /\ ~OwnerLives(t)
          /\ Goto(r, "matching") /\ UNCHANGED lock
    /\ UNCHANGED <<tree, candidate, expect, intact>>

RejectJournal(r) ==
    /\ At(r, "loading") /\ LoadFails(proc[r].tx)
    /\ Answer(r, "manualActionRequired")
    /\ UNCHANGED <<tree, store, candidate, expect, intact>>

(* Mutated ObservationsMatch: a journal is never behind the tree.          *)
ObservationsMatchExactly(t, state) ==
    LET here == target # "none"
        kept == backup[t] # "none"
    IN  /\ kept => backup[t] = expect[t]
        /\ CASE state = "prepared" -> here /\ ~kept /\ stage[t] # prepared[t]
             [] state = "backupCreated" -> kept /\ prepared[t] /\ ~here
             [] state = "targetActivated" -> kept /\ here /\ ~prepared[t]
             [] OTHER -> here /\ ~stage[t] /\ ~prepared[t]

(* observations_match_state with the two tests around it.                  *)
ObservationsMatch(t, state) ==
    LET here == target # "none"
        kept == backup[t] # "none"
    IN  /\ kept => backup[t] = expect[t]
        /\ CASE state = "prepared" ->
                  \/ here /\ ~kept /\ stage[t] # prepared[t]
                  \/ ~here /\ kept /\ prepared[t] /\ ~stage[t]
             [] state = "backupCreated" ->
                  kept /\ ~stage[t] /\ prepared[t] # here
             [] state = "targetActivated" ->
                  kept /\ here /\ ~stage[t] /\ ~prepared[t]
             [] OTHER -> here /\ ~stage[t] /\ ~prepared[t]

MatchForward(r) ==
    LET t == proc[r].tx IN
    /\ At(r, "matching") /\ proc[r].intent = "complete"
    /\ IF ~ObservationsMatch(t, journal[t])
       THEN Answer(r, "manualActionRequired")
       ELSE /\ IF backup[t] # "none" /\ journal[t] = "prepared"
               THEN PersistThen(r, "backupCreated", "forward")
               ELSE Goto(r, "forward")
            /\ UNCHANGED lock
    /\ UNCHANGED <<tree, store, candidate, expect, intact>>

(* The checks between the renames: what is moved next does not verify, or  *)
(* the target is not the one the journal names.                            *)
StopForward(r) ==
    LET t == proc[r].tx IN
    /\ At(r, "forward")
    /\ \/ stage[t] /\ ~intact[t]
       \/ prepared[t] /\ backup[t] = "none" /\ target # expect[t]
       \/ prepared[t] /\ backup[t] # "none" /\ ~intact[t]
       \/ ~stage[t] /\ ~prepared[t] /\ (target # t \/ ~intact[t])
    /\ Answer(r, "manualActionRequired")
    /\ UNCHANGED <<tree, store, candidate, expect, intact>>

RecoverStage(r) ==
    LET t == proc[r].tx IN
    /\ At(r, "forward") /\ stage[t] /\ StageValid(t)
    /\ stage' = [stage EXCEPT ![t] = FALSE]
    /\ prepared' = [prepared EXCEPT ![t] = TRUE]
    /\ UNCHANGED <<target, backup, store, locks, expect, intact, proc>>

RecoverBackup(r) ==
    LET t == proc[r].tx IN
    /\ At(r, "forward") /\ prepared[t] /\ backup[t] = "none"
    /\ target = expect[t]
    /\ backup' = [backup EXCEPT ![t] = target]
    /\ target' = "none"
    /\ PersistThen(r, "backupCreated", "forward")
    /\ UNCHANGED <<stage, prepared, store, locks, expect, intact>>

RecoverTarget(r) ==
    LET t == proc[r].tx IN
    /\ At(r, "forward") /\ PreparedValid(t) /\ backup[t] # "none"
    /\ target = "none"
    /\ target' = t
    /\ prepared' = [prepared EXCEPT ![t] = FALSE]
    /\ PersistThen(r, "targetActivated", "forward")
    /\ UNCHANGED <<stage, backup, store, locks, expect, intact>>

(* The target verified: targetActivated and completed are journalled       *)
(* before the backup goes.                                                 *)
RecoverVerified(r) ==
    LET t == proc[r].tx IN
    /\ \/ /\ At(r, "forward") /\ target = t /\ ~stage[t] /\ ~prepared[t]
          /\ intact[t]
          /\ IF backup[t] = "none" \/ journal[t] = "completed"
             THEN Goto(r, "deleting")
             ELSE PersistThen(r, "targetActivated", "completing")
       \/ /\ At(r, "completing")
          /\ PersistThen(r, "completed", "deleting")
    /\ UNCHANGED <<tree, store, locks, expect, intact>>

RollBackTopology(t) ==
    /\ journal[t] = "prepared"
    /\ target = expect[t] /\ backup[t] = "none" /\ stage[t] # prepared[t]

(* Mutated RollBackTree: the prepared payload is not moved back.           *)
RollBackTreeInPlace(t) == UNCHANGED <<stage, prepared>>

RollBackTree(t) ==
    /\ stage' = [stage EXCEPT ![t] = TRUE]
    /\ prepared' = [prepared EXCEPT ![t] = FALSE]

RollBackOwned(r) ==
    LET t == proc[r].tx IN
    /\ At(r, "matching") /\ proc[r].intent = "rollBack"
    /\ \/ /\ RollBackTopology(t) /\ intact[t]
          /\ RollBackTree(t)
          /\ Goto(r, "removing")
          /\ UNCHANGED lock
       \/ /\ ~(RollBackTopology(t) /\ intact[t])
          /\ Answer(r, "manualActionRequired")
          /\ UNCHANGED <<stage, prepared>>
    /\ UNCHANGED <<target, backup, store, candidate, expect, intact>>

(* A failed system call is answered as manual; a killed process closes its *)
(* handle just so, and is started again.                                   *)
RecoveryStops(r) ==
    /\ proc[r].pc \notin {"idle", "opening"}
    /\ \E outcome \in {"none", "manualActionRequired"} : Answer(r, outcome)
    /\ UNCHANGED <<tree, store, candidate, expect, intact>>

(* Something outside the helper alters a payload that is not yet final.    *)
ChangePayload(t) ==
    /\ intact[t] /\ Cardinality({u \in Transactions : ~intact[u]}) < MaxChanges
    /\ intact' = [intact EXCEPT ![t] = FALSE]
    /\ UNCHANGED <<tree, store, locks, expect, proc>>

-----------------------------------------------------------------------------
StoreStep(p) == PersistCreate(p) \/ PersistWrite(p) \/ PersistPublish(p)
                \/ RemoveJournal(p) \/ DeleteBackup(p) \/ ReleaseLock(p)

OwnerStep(t) == \/ Construct(t) \/ ValidateBeforeLock(t) \/ CreateCandidate(t)
                \/ AcquireLock(t) \/ LockTaken(t) \/ RenameStage(t)
                \/ MarkCommitAccepted(t) \/ CreateBackup(t) \/ ActivateTarget(t)
                \/ VerifyTarget(t) \/ CancelPrepared(t)

RecoveryStep(r) == \/ BeginRecovery(r) \/ CannotOpenLock(r) \/ OpenLock(r)
                   \/ LoadJournal(r) \/ RejectJournal(r) \/ MatchForward(r)
                   \/ StopForward(r) \/ RecoverStage(r) \/ RecoverBackup(r)
                   \/ RecoverTarget(r) \/ RecoverVerified(r) \/ RollBackOwned(r)

Next ==
    \/ \E p \in Processes : StoreStep(p)
    \/ \E t \in Transactions : OwnerStep(t) \/ OwnerFails(t) \/ OwnerDies(t)
                               \/ ChangePayload(t)
    \/ \E r \in Recoverers : RecoveryStep(r) \/ RecoveryStops(r)

Spec == Init /\ [][Next]_vars

-----------------------------------------------------------------------------
(* The target name is empty only while the lock file names a transaction   *)
(* whose journal lets recovery finish the swap, whoever died and whatever  *)
(* destructor ran: windows_file_transaction.cpp, ExecutePrepared and       *)
(* ~WindowsFileTransaction.                                                *)
MissingTargetIsCovered ==
    target = "none" =>
        \E t \in Transactions :
            /\ lock.names = t /\ prepared[t] /\ backup[t] = expect[t]
            /\ journal[t] \in {"prepared", "backupCreated"}
            /\ ~LoadFails(t)

(* A journal or journal.next file never outlives the lock file that names  *)
(* its transaction: recovery reaches a journal only through that lock      *)
(* (~WindowsFileTransaction keeps it, Remove precedes ReleaseLockExact).   *)
JournalIsUnderLock ==
    \A t \in Transactions :
        journal[t] # "none" \/ next[t] # "none" => lock.names = t

(* Once the journal is gone the tree is final: a rollback left the target  *)
(* it found and the stage under its own name, a completed swap the new     *)
(* bundle and no leftover (Remove precedes ReleaseLockExact).              *)
SettledTreeIsFinal ==
    \A p \in Processes : At(p, "releasing") =>
        LET t == proc[p].tx IN
        /\ ~prepared[t] /\ backup[t] = "none" /\ next[t] = "none"
        /\ IF proc[p].intent = "complete" THEN target = t /\ ~stage[t]
           ELSE target = expect[t] /\ stage[t]

(* No crash, throw or race of owners and recoverers leaves a tree that     *)
(* recovery gives up on when it next opens the lock, but for a torn first  *)
(* journal, with the target untouched: windows_recovery_service.cpp,       *)
(* observations_match_state, against every tree the code can leave.        *)
CrashesStayRecoverable ==
    \A t \in Transactions :
        lock = [names |-> t, holder |-> "none"] =>
            CASE LoadFails(t) -> next[t] = "partial" /\ CleanInitialTopology(t)
              [] ~LoadFails(t) /\ LoadedJournal(t) = "none" ->
                    CleanInitialTopology(t)
              [] OTHER -> ObservationsMatch(t, LoadedJournal(t))

(* The replaced bundle is destroyed only behind a durable "completed"      *)
(* journal, by the process that holds the lock, with the payload of the    *)
(* same transaction in place (DeleteTreeRelative after Persist).           *)
BackupGoesLast ==
    [][\A t \in Transactions : backup[t] # "none" /\ backup'[t] = "none" =>
          /\ target = t /\ journal[t] = "completed" /\ next[t] = "none"
          /\ proc[lock.holder].tx = t /\ lock.names = t]_vars
=============================================================================
