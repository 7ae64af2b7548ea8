# Verification of the desktop updater's native install core

TLA+ modules, TLC configurations and TLAPS proofs for `flutter_desktop_updater`.
The project models the part of the program where a mistake destroys an installed
application: the native update client that decides which verified stage is handed
over, the install helpers of Linux and Windows from the request to the relaunch, the
restaging of the signed archive beside the target, the durable swap of the bundle,
the record of the transaction, and every process that may recover it later.

## 1. Inventory

A host application links the update client. It checks for an update, downloads,
verifies and stages it, hands the stage to a separate helper process, and exits.
The helper swaps the application directory and starts the new application. If the
helper dies, the restarted application asks a helper to recover.

| Component | State | Operations | Hard behaviour |
|---|---|---|---|
| Client lifecycle (`native_runtime/cpp/client_lifecycle.cc`) | published check, published stage, generation, attempt and handoff counters, install in progress | BeginCheck, PublishCheck, BeginStage, PublishStage, Snapshot, BeginInstall, ConfirmInstall, RollbackInstall, CompleteInstall | threads overtake each other between two calls; stale leases, snapshots and handoffs |
| Linux update client (`linux/native/src/runtime/update_client_linux.cc`) | pending handoff and reservation, outside any lock | CheckForUpdate, DownloadVerifyAndStage, PrepareInstall, CommitAfterExit, CancelReservation, QueryTransaction, RecoverPendingInstall | lock-free sections between lifecycle calls; failing helper |
| Linux file transaction (`helper/linux_file_transaction.cc`) | application trees in the target's parent directory, lock file and its flock | constructor, PrepareDurableJournal, CancelPrepared, Execute, destructor | death or power loss between any two system calls; exceptions that release the flock |
| Journal store (`helper/linux_transaction_journal.cc`) | journal and `.next` file | Persist, Load, HasAmbiguousNext, Remove, tree removal | torn files, rename and fsync order |
| Recovery service (`helper/linux_recovery_service.cc`) | recovery lock | Recover | concurrent recoverers, a live owner, death of a recoverer, stale journal |
| Mount guard (`helper/linux_mount_guard.cc`) | none | identity and mount checks | change times move, or do not, with a rename |
| Transaction registry (`helper/linux_transaction_registry.cc`) | index record and `.next` file under a directory flock; retained recovery authority | Persist, Load, ReconcileTornNext, recovery authority | helper death and power loss inside an operation |
| Archive restage (`helper/linux_archive_restage.cc`) | payload and control directories, recovery record and its `.next` | RestageLinuxSignedZip, ReconcileRecoveryRecord, release, cleanup | retries beside live attempts, death between any two operations |
| Install service and control service (`helper/linux_native_install_service.cc`, `main.cc`) | session of one helper, registry record | prepare, commit, cancel, wait for exit, execute, relaunch, query, recover | timeouts against late answers; recovery beside a live owner |
| Native install session and socket channel (`native_runtime/cpp/native_install_session.cc`, `helper/unix_socket_transport.cc`, `desktop_updater_native.cc`) | protocol phase, frames in flight | prepare, commit, cancel, end of session | timeouts, a host that kills the helper |
| Relaunch and reservation | launch record | launch once | retry after an unknown outcome |
| Provider transactions (package managers, single file) | provider journal | plan, run, recover | crash around an external command |
| Windows file transaction (`windows_file_transaction.cpp`, `windows_transaction_journal.cpp`, `windows_recovery_service.cpp`) | trees, journal and its candidate, the target's lock file | Prepare, ExecutePrepared, CancelPrepared, destructor, Recover | several transactions for one target, deaths, exceptions |
| Windows archive restage (`windows_archive_restage.cpp`) | control file with a nonce, archive copy, payload tree | RestageVerifiedWindowsZip, CleanupPriorRestage, ReleaseToTransaction | retries, sharing modes, deaths |
| Windows persistent recovery (`windows_persistent_recovery.cpp`, `windows_portable_transaction_index.cpp`, the recovery hosts) | persistent record, resolver claim, scheduled task, stable endpoint | PersistPreparing and the later states, Recover, claim, relaunch, arm and disarm | three processes on one record without a lock |
| Windows authorizer and helper process (`windows_install_authorizer.cpp`, `main.cpp`, `named_pipe_transport.cpp`, the SDK) | prepared install of one of three kinds | check, authorize, prepare, commit, cancel | many checks, elevation, a caller that leaves |
| Windows update runtime (`windows/native/src/runtime`) | as the Linux client, over the same lifecycle | check, stage, install | as the Linux client |
| macOS kit and helper | a separate implementation of the same protocol | as above | as above |
| Dart controller and runtime (`lib/`) | widget state, descriptor, download progress | check, download, install | overlapping futures |
| Wire formats, policy, staging, provenance | none, or one call's | parse, encode, verify, unpack | input validation |
| Release tools (`bin/`, `lib/src/release_cli`, `tool/`) | files | build and publish | none that interleaves |

Interactions. The client calls the lifecycle under its mutex and the helper over a
socket without it. The helper's install service writes each phase into the registry
and runs one file transaction; the file transaction writes through the journal
store; `Recover` reads what a dead file transaction left. Before the swap the helper
restages the archive next to the target under a record of its own, which it gives up
to the journal. Processes share nothing but the directory, its lock files and the
registry. On Windows a scheduled task starts a recovery host as well, and helpers
started by an application resolve a pending record; all of them read and replace one
persistent record.

What makes each part correct: the client offers, and hands over, only what the
current check selected and the caller validated, and never loses a reservation; the
swap always leaves a complete application, one process works on it at a time, and a
consistent crash is eventually recovered; the registry looks to its callers like one
record that moves along accepted transitions and does not go back; a record that
says how an install ended is right about the target; the new application is started
at most once; what an attempt to restage leaves behind can be found by the next one,
and the work of a live attempt is left alone.

## 2. Modules

| Module | Models |
|---|---|
| `TargetDirectory` | values: leaves, trees, identities, journal and lock files, and what one system call does to them |
| `LinuxFileTransaction` | owner, journal store and recoverers, faults, a foreign transaction |
| `LinuxFileTransactionProofs` | its theorems |
| `ClientLifecycle` | every method of `ClientLifecycleState` as an action on `lifecycle` |
| `UpdateClient` | threads of the host that call the client (extends `ClientLifecycle`) |
| `UpdateClientProofs` | its theorems |
| `TransactionStates` | registry states, records, `ValidTransition` |
| `TransactionRegistry` | Persist, Load and ReconcileTornNext |
| `RecordRegister` | the abstract specification: one value that changes along accepted transitions |
| `TransactionRegistryProofs` | its theorems and the refinement |
| `LinuxInstallService` | one install on Linux: the host's session, the helper, control services (extends `TransactionStates`) |
| `LinuxInstallServiceProofs` | its theorems |
| `LinuxArchiveRestage` | concurrent attempts to restage one transaction's archive on Linux |
| `LinuxArchiveRestageProofs` | its theorems |
| `WindowsFileTransaction` | owners and recoverers of the Windows swap, several transactions |
| `WindowsFileTransactionProofs` | its theorems |
| `WindowsHelperChecks` | which check stands before which step of a Windows install |
| `WindowsInstallService` | owner, recovery host and resolvers over the persistent record (extends `WindowsHelperChecks`) |
| `WindowsInstallServiceProofs` | its theorems |
| `WindowsArchiveRestage` | concurrent attempts to restage on Windows |
| `ArchiveRestageProofs` | its theorems, and the Linux theorems on the instance of `MCArchiveRestage` |
| `MC*` | symmetry sets for TLC; `MCArchiveRestage` puts the two restages into one instance |

### The swap

`dir` is the target's parent directory: the four leaves (`target`, `stage`,
`prepared`, `backup`), the journal and its `.next`, the lock file and the recovery
lock file. A leaf holds a `Node`: which application it is, its change time, whether
the root has its final mode, and whether a removal has begun. An identity recorded in
the journal is the `Node` that was read, so the code's two comparisons (with and
without change time) stay distinct. `flock` and `rflock` say who holds the kernel
locks; `proc` says where each process is and which journal it carries.

Each system call that changes the directory is one action, so a process may die
between any two. Checks the code makes in one place before a call are that action's
guard (`OwnerAccepts`, `RecoverAccepts`, `CallAccepts`); when one fails the owner
throws (`OwnerThrows`: the lock closes, the files stay, the process lives) and
`Recover` returns `manualActionRequired` (`RecoverRefuses`). The same happens when a
system call fails (`OwnerError`, `RecoverError`).

`disk` is the set of directory states a power loss may leave. A change adds a state,
`fsync` of the directory leaves only the present one, and `fdatasync` of a file
writes its bytes in every state that already has its name. Directory operations thus
survive in the order they were made, up to some point; a file system that reorders
them between two fsyncs is outside the model.

The foreign transaction takes the same lock file and replaces the target. Its own
swap is not interesting here; what matters is that ours meets a target and a lock
that are not its own.

### The client

A thread's record holds its position and the lease, snapshot or handoff it still
carries. Every call into `ClientLifecycleState` is atomic (the code holds its mutex);
between two calls any other thread may run. The network, staging and the helper
answer in any way the client tells apart. A stage is identified by its release and
its attempt. Counters are taken modulo `Modulus` and skip zero, as
`IncrementNonzero` does.

### The registry

Persist and Load hold the directory's flock from first read to return, so one
operation runs at a time; `op` is that operation. A file records whether it was
flushed. After a power loss (`PowerLoss`) an unflushed file keeps its bytes or does
not decode. `told` and `synced` are history variables for the properties.

### The install service on Linux

`LinuxInstallService` is the layer above the swap and the registry: `caller` is the
host's session, `helper` the process it started, `control` the control services that
answer `queryTransaction` and `recoverPendingInstall`. `wire` holds the frames in both
directions; a process that waits may see its deadline pass, which in the host means
that it kills the helper, so no destructor runs. Each Persist and each rename with the
journal write after it is one step, because the modules below have their system calls.
`Accepts` is the registry's `ValidTransition` in front of every record. The facts that
the helper verifies (peer, policy, provenance, descriptor, target, archive, payload)
are reduced to `defect`: the one that would fail now. It may change `MaxTampers` times,
so that a fact can be true at one check and false at the next.

### The restages

An attempt is a process; attempts of the same transaction run at once. Every file
system operation is one action; an attempt may die before it, or the operation may
fail, which runs the catch blocks and destructors. On Linux a directory is who made it
and how far it is, and its identity (with the change time) is that pair; the recovery
record holds identities as far as they were known when it was written. Names are
derived from the transaction, so all attempts use the same ones. On Windows the names
hold a nonce, and the control file holds the nonce and is opened without sharing.
`defect` is the check of the request or the archive that fails, if any. `stray` is a
history variable of the Linux module: it says that `CreateRecoverableDirectoryAt` failed
after its mkdir and that the removal in its catch block, whose error is swallowed, failed
as well. `crowded` is one of `MCArchiveRestage`: an attempt was on its way on Linux while
another cleaned up after a dead one (`ReconcilerAlone` was false). Two of the three Linux
properties are stated until that happens; section 4 says what happens then.

### The swap and the service on Windows

`WindowsFileTransaction` has several transactions for one target: each has its own
stage, prepared, backup and journal names, and the lock file is shared. `lock` says
which transaction the file names and which process has it open. Renames, journal
writes, the promotion of `journal.next`, the destructor after an exception and process
death are separate steps.

`WindowsInstallService` has the three prepared installs (portable, protected, Inno) in
one module because they share the record and the recovery. An index operation is a
Load and a Persist, two steps, since nothing is held between them. The portable store
compares the record before it writes; the protected one does not. The swap is reduced
to `target` (old, away, new), `stage`, `journal` and `lock`. A recovery looks for the
journal (`LoadCurrentJournal`) before it takes the lock; when the journal has gone in
between, it goes on as if there had been none. `WindowsHelperChecks`
lists the checks by the process that makes them; what matters is which effect each one
stands in front of, and for which kind of install it is made.

## 3. Runs

| Run | Instance | Shows |
|---|---|---|
| `file_transaction` | one recoverer, change times that move or stay, 2 faults | `TypeOK`, `PayloadNeverLost`, `BackupDiscardedOnlyWhenFinal`, `JournalDescribesTree` |
| `concurrent_recovery` | two recoverers, 2 faults | `ExclusiveMutation`, `LockCoversMissingTarget`, `LiveOwnerNeverRecovered` |
| `recovery_liveness` | sequential recovery, 2 faults | `ConsistentCrashRecovers` |
| `update_client` | 3 threads, 2 releases, 7 counted calls | `TypeOK`, `StagedFromCurrentCheck`, `HandoffIsWhatWasValidated`, `SingleHandoff` |
| `serial_install` | same with 8 calls, one install call at a time | `ReservationTracked`, `RemovedStageNeverOffered` |
| `registry_crashes` | one binding, one journal, helper deaths | `ImplementsRegister` |
| `registry_power_loss` | one binding, one journal, deaths and power losses | `TypeOK`, `NextSucceedsLeaf`, `NeverOlderThanSynced` |
| `install_service` | one control service, one change of a checked fact | `TypeOK`, `RecordTellsTarget`, `AnswersHold`, `CancelledStaysOld`, `LaunchedOnceAfterExit` |
| `windows_swap` | two transactions, one recoverer, any number of deaths, one altered payload | `TypeOK`, `MissingTargetIsCovered`, `JournalIsUnderLock`, `SettledTreeIsFinal`, `CrashesStayRecoverable`, `BackupGoesLast` |
| `windows_service` | owner, host, one resolver, three kinds, one death | `RecordTellsTarget`, `LaunchedAtMostOnce`, `PendingStaysArmed`, `RecordIsReachable`, `CommittedSwapEnds` |
| `terminal_immutable` | the same instance, a violation | `TerminalIsImmutable` |
| `archive_restage` | Windows: 3 attempts, 2 deaths, 1 fault; Linux: 3 attempts, 1 death, 1 fault | `RemainsAreNamed`, `RestagedIsIntact`, `LiveWorkSurvives`, `LeftoversAreNamed`, `BuilderIsAlone`, `RetriesSucceed` |

`TypeOK` of `WindowsInstallService` and of the two restages is an invariant of the same
instances and is stated there; the runs above list what is about behaviour.

Bounds. Two faults reach a crash of the owner followed by a crash, error or power
loss in the recovery of it, at any pair of points; the first fault may also be a
thrown exception that leaves a live owner without its lock. Two recoverers are the
least number that can meet each other while a third party (the owner or the foreign
transaction) moves; the proofs remove these bounds for every safety property. A change
time that moves by 0 or 1 makes every identity comparison succeed in one behaviour
and fail in another. Seven counted client calls (`MaxCalls` bounds `BeginCheck`,
`BeginStage` and `BeginInstall`) allow check, stage and install, a second check and
stage that overtake them, and a second install; three threads let a call of each kind
be in flight at once. The client stops when its calls are used up, which is why these
two runs do not check for deadlock. The registry has no bound but the size of its
record type.

One control service beside the owner is enough for every pair of a late recovery and a
session that cancels, commits, times out or dies; section 4 says what a second one
changes. Two Windows transactions are the least that can fight for one lock file. One
death puts the death of the owner, the host or the resolver at every step with the
other two still running; one resolver is the third writer of the record. Three attempts
to restage give a dead one, one that cleans up after it and one beside both, on either
platform; the three Linux attempts are symmetric. One failed operation on Linux is a
failure of an attempt beside the other two; a failure after the mkdir together with that
of the removal that follows counts as one. The proofs remove the bounds on attempts, deaths and faults. The restage, service and
swap runs stop when every process is done, so they do not check for deadlock.

Fairness. `recovery_liveness`: `SequentialSpec` assumes weak fairness of the owner's and
each recoverer's own steps (a process that the kernel schedules keeps running; nothing
in these operations blocks, flocks are taken with `LOCK_NB`) and of `CallRecoverAlone`:
an application that restarts after its helper died keeps asking for recovery, one
request at a time. `windows_service`: weak fairness of the steps of each process and of
the caller's exit after it has committed (`RestartCurrentApplication`), and of the host,
which includes the start of a new one: the scheduled task repeats until it is disarmed.
Faults, deaths and changes from outside are bounded, not fair.

## 4. Disagreements

A violation run checks the first one.

* `windows_persistent_recovery.cpp` treats a terminal record as final: `PersistTerminal`
  refuses to replace one by another. The check is made on the record that was loaded,
  and the protected registry replaces the value without comparing it. A resolver that
  loaded an active record writes its relaunch request over the terminal record that the
  owner or the host stored meanwhile (`terminal_immutable`). What such a record then
  says of the target is still right (`RecordTellsTarget`) unless two resolvers work on a
  protected transaction before its owner has a journal (`ResolvesAlone` is false). Then
  TLC, with two resolvers, finds an install in which one resolver's stale relaunch request
  takes the record back to an active state, the owner swaps, and the other resolver's
  stale `PersistTerminal` is written over its record. The property is proved for any
  number of resolvers: without a condition in the portable store, which compares first,
  and for Inno, whose outcomes are observations that stay true, and under
  `ResolvesAlone` in the protected one.

Statements of
`docs/design-docs/2026-07-11-cross-platform-privileged-install-helper-design.md` that
the behaviour of `LinuxFileTransaction` differs from; each is a trace of the model:

* Line 541, "every crash state converges to a verified old target, verified new
  target, or non-destructive `manualActionRequired` state". `Recover` moves the target
  to the backup name as soon as a prepared sibling exists, and verifies the sibling
  afterwards. When the owner died between the rename of the stage and the journal
  write that records its new change time, the check fails and Recover returns
  `manualActionRequired` with no target in place. The application is still complete
  under the backup name (`PayloadNeverLost`).
* Line 394, "Recovery ownership is acquired atomically before inspecting or mutating
  a dead transaction". The journal is loaded before the locks and not read again.
* Line 385, "Helper dies in `backupCreated`: recovery restores the verified backup".
  Recovery rolls forward.

`docs/native-install-helper-protocol.md`, lines 58 and 59: "`recoverPendingInstall` must
acquire recovery ownership atomically and cannot recover a live owner".

* Linux. The control service looks for a journal, calls `Recover`, and then decides from
  the trees, with the locks released in between. With a second control service
  (`Controllers` of two members in `install_service.cfg`) TLC violates
  `RecordTellsTarget`: the first finds neither journal nor lock; the owner then writes
  its journal and is killed; the second rolls forward and has moved the stage when the
  first looks at the trees, finds the old target and no stage, and records `rolledBack`
  for an install that the second completes.
* Windows. `RecoverPreparingWithoutJournal` makes no liveness check of the owner. A
  resolver with an older snapshot may mark an interrupted committed swap as cancelling,
  and the target name then stays empty: the exception in `CommittedSwapEnds`. The
  portable store also refuses to take over the claim of a dead resolver of another
  caller.

Behaviour that the properties are stated around:

* Linux restage with three attempts at once. The record's temporary name is the same for
  all attempts, so one may publish the record of another. The other then finds no
  temporary, fails and ends (or it dies). A third reads its record, whose owner is gone,
  and removes the first one's directory, which has no marker yet; both then open the same
  name, and the loser of the marker's exclusive creation removes what it opened, which
  may be the payload of an attempt that has finished. With three attempts TLC violates the
  Linux `RestagedIsIntact` without a single death or fault, and the Linux
  `RemainsAreNamed` with one of either; the run states both until `crowded`. The removal
  of what was opened is the one exception of `LiveWorkSurvives` (`Opening`), which
  otherwise holds, crowded or not. The proof names what is missing, `ReconcilerAlone`
  (section 5).
* Linux restage with a double failure. A failure while the marker is written, and a failure
  of the removal that follows, leave a directory that no record names and that every retry
  stops at. `RemainsAreNamed` excepts it by `stray`; the other properties do not.
* Both restages may delete a payload that a journal refers to: on Linux when the journal
  appears after the check for it, or when `PrepareDurableJournal` throws after its
  rename; on Windows in a retry after a death between the journal and
  `ReleaseToTransaction`. Recovery then answers `manualActionRequired`.
* Windows restage: the destructor deletes the control file even when it could not delete
  the tree, so `LeftoversAreNamed` is stated for attempts without a fault. After a death,
  however, a retry always succeeds (`RetriesSucceed`); on Linux many crash points end in
  `ManualCleanupRequired`.
* Windows service: an owner that fails after `PersistPreparing` and before its journal
  deletes the restaged payload; its record stays in cancelling with the task armed.

* A `.next` journal left by a death inside Persist, or a lock file without its record,
  is never cleaned up by the code: `ConsistentCrashRecovers` starts from states
  without them.
* Two recoverers with a stale journal of a transaction that was cancelled may move the
  target aside with no journal on disk, so `LockCoversMissingTarget` speaks of the
  lock only.
* The client's pending fields have no lock. With overlapping install calls a
  reservation can be lost; `serial_install` assumes one install call at a time.
* A registry record promoted from `.next` was perhaps never flushed, and a Persist of
  a record that is already there does not sync. What a caller was told can go back
  after a death and a power loss; `NeverOlderThanSynced` counts only records that a
  Persist wrote and synced itself.

## 5. Proofs

The theorems hold for every value of the constants that satisfies the modules'
assumptions. These only tell names apart and say what is a number: `ProcAssumption`,
`TickAssumption`, `FaultAssumption` (owner, recoverers and "no process" are distinct,
ticks and faults are natural numbers), `ReleaseAssumption`, `ModulusAssumption`,
`CallAssumption` (fewer counted calls than the counters' modulus: no wrap),
`JournalAssumption`, the two `ServiceAssumption`s, `SwapAssumption` (a Windows
transaction is neither a recoverer nor one of the names "old" and "none", and there is
one) and `WindowsRestageAssumption`. Each proof has the same three parts: an inductive
invariant that was first checked with TLC on the instances of section 3, one lemma per
action that it is kept, and what follows from it. The properties themselves are seldom
inductive: they speak of files, and a step keeps them because of what the process
taking it knows. What the invariants add is mostly that knowledge, per program counter.

**The Linux swap** (`LinuxFileTransactionProofs`; any recoverers, clocks and faults).

* `TypeCorrect`, `MutualExclusion`, `LiveOwnerSafe` from `TypeOK /\ LockOwnership`.
  Exclusion alone is not inductive: it needs that every process from the flock of the
  lock file on holds that flock until it returns or dies (`HoldingPcs`), and that a
  recoverer beyond the liveness check has a dead owner, who cannot come back.
* `PayloadsSurvive`, `BackupsGoLast`, `JournalsDescribeTrees`,
  `MissingTargetsAreLocked` from `SwapInv`. Every directory that a power loss may leave,
  not only the visible one, is in one of five shapes: `Staged`, `Beside`, `Aside`,
  `Activated`, `Over`. Without this transaction's lock it is `Staged` or `Over`, and the
  journal tells the shape (`JournalTells`). A process inside the swap knows the shape it
  acts on, the journal it has just written and the lock (`Knows`). Whoever changes the
  directory is the only one that relies on it (`OnlyOneKnows`, from `LockOwnership`), so
  a step has to be followed for one process only. `Activated` under a `prepared` journal
  is allowed once the owner is dead: the exception in `JournalDescribesTree`.

**The client** (`UpdateClientProofs`; any threads, releases and calls).

* `ClientTypeCorrect`, `StageIsCurrent`, `HandoffValidated`, `OneHandoff`. `ClientInv`
  adds to the properties that no number a thread carries is ahead of its counter
  (`NumbersTaken`), that a current check is not yet published, that a current stage
  attempt unpacks the published release, and that a stage taken by `BeginInstall` may be
  given back if nothing newer started (`HandoffRestorable`): the last is what makes the
  rollback safe.
* `ReservationsAreTracked`, `RemovedStagesStayAway`, of `SerialSpec` (one install call
  of the host at a time, checks and stages beside it). `SerialInv` adds that what is
  pending is the active handoff, that nothing is offered during an install, and that
  stages and attempts in flight have different numbers from those removed. Overlapping
  install calls break both properties (section 4).

**The registry** (`TransactionRegistryProofs`). `RegistryTypeCorrect`,
`NextAlwaysPromotable`, `SyncedIsDurable`, `RegistryIsARegister`. `RegistryInv` says
what an operation knows of the two files at each of its steps; `LeafDecodes` is added
where there is no power loss. The refinement maps the register's value to `Logical`, the
record a Load would return: it changes when `WriteNext` makes `.next` decode, and
promotion and rename leave it alone.

**The Linux install service** (`LinuxInstallServiceProofs`).

* For any number of control services: `TypeCorrect`, `LaunchesOnceAfterExit`,
  `CancelsStayOld` from `ServiceInv`. Its parts say that who writes a record has one
  to write (`CopiesAreRecords`), what the helper's position implies for journal and
  target (`HelperFits`, `LaunchFits`), that nothing can move the target once an answer to
  a cancellation is on its way (`CancelFits`), and that whoever reports the new target has
  seen it (`NewTargetSeen`).
* For any number of control services whose recoveries do not overlap: `RecordsTellTarget`,
  `AnswersStayTrue`. Their hypothesis is `[]OneRecovers`: two services are never both
  inside `recoverPendingInstall` for this transaction. It says nothing of how many there
  are, of queries beside a recovery, or of one recovery dying and another starting; a host
  meets it by waiting for one answer before it asks again. `SerialInv` adds that the digest
  is in the record only once there was a journal (`DigestFits`), that who decides without
  a journal decides by a target that stays, or its write is refused (`RollBackFits`), and
  that nobody swaps after `rolledBack` is recorded (`OldTargetStays`). The code does not
  enforce the hypothesis and it is needed: two recoveries at once violate both properties
  (section 4).

**The Windows swap** (`WindowsFileTransactionProofs`; any transactions, recoverers and
altered payloads, any number of deaths). `TypeCorrect`, `JournalsAreUnderLock`,
`MissingTargetsAreCovered`, `SettledTreesAreFinal`, `CrashesAreRecoverable`, and the
action property `BackupsGoLast`. `SwapInv` says that a transaction the lock file does not
name has no files of the swap (`CleanOutside`), that the one it names has a tree its
journal describes (`UnderLock`), and that the process which has the lock file open is
where that tree says (`HolderFits`); the rest ties holders to positions (`LockHeld`,
`OwnerWaits`).

**The Windows install service** (`WindowsInstallServiceProofs`; any number of resolvers
and deaths). `TypeCorrect`, `AppStartsOnce`, `RecordsAreReachable`, `PendingIsArmed` and
`PortableRecordTellsTarget` from `UpdateInv`. `ServiceInv` holds for the three kinds of
install: what a process has loaded (`LocalFits`), what a record needs to be found
(`ReachFits`) and who may still consume the claim (`ClaimFits`: a start of the app is
paid for by the one claim). `PortableInv` needs the compare before each write of the
portable store: recovery task (`ArmFits`), lock (`LockFits`), tree and journal
(`SwapFits`) and record (`PortableFits`).

`RecordsTellTarget` (all three stores, under `[]ResolvesAlone`) comes from `StoreInv` and
`InnoRecordTellsTarget` from `InnoInv`, the same invariant for a kind that needs no
condition. `StoreInv` adds `RegistryInv` for the stores that do not compare. There a
record can go back to an earlier state, so the invariant is not about its order but about
the target: an outcome that is recorded, loaded or about
to be recorded is one that stays (`StaysNew`, `StaysOld`), because the swap's journal is
gone or nobody who could still swap is left (`CommitIsOff`), or because the installer can
no longer run (`Decided`). The host waits for the owner's end, and the lock file is open
in the one process that works on a directory (`StoreFits`). `ResolvesAlone` asks that, while
the owner of a protected transaction has no journal yet, at most one resolver is alive. It
is used in two places: a second resolver could then take a cancelled record out of that
state, or could still be holding a commit it has loaded. Nothing in the code enforces it,
and without it the theorem is false for a protected directory (section 4).

**The Windows restage** (`ArchiveRestageProofs`; any number of attempts, deaths
and faults). `TypeCorrect`, `BuildersAreAlone`, `NoNameIsLost` and the action property
`RetriesAlwaysSucceed` from `RestageInv`: who has the control file open (`ControlHeld`,
`SweeperAlone`), in which order names go (`DeletedInOrder`), that what exists is named
(`EverythingNamed`), who owns the temporary control file (`NextOwned`), and what an
attempt can find in its way (`InTheWay`).

**The Linux restage** (`LinuxArchiveRestageProofs`; any number of deaths and faults).

* `TypeCorrect`, for any number of attempts.
* `LiveWorkIsSpared`, for any number of attempts at once and without a condition, from
  `SpareInv`: a cleaner acts on the record of an attempt that is over, or through
  directories it knows as its own, so only a removal by name can hit another's.
* `RestageInvariance` and `AloneIsEnough`, for any number of attempts: as long as nobody
  is on its way while an attempt cleans up after another (`ReconcilerAlone`), the
  inductive `RestageInv` holds, and with it `RemainsAreNamed` and `RestagedIsIntact`. The parts of `RestageInv` say that a
  record is by an attempt which got as far as writing it (`WritersArePast`), that the
  record outlives what a cleaner removes (`RecordKept`), that one live attempt at most
  has published the record and it is there (`OneHolder`), that an attempt works in
  directories of its own and knows which it made (`TreesFit`, `MadeFits`), that the
  holder of the record knows of every directory and without a record there is none
  (`HolderKnows`, `NamedByRecord`), and that beside an attempt whose trees a journal owns
  another has made nothing (`ArmedAlone`); `ChecksPassed` ties positions to the checks
  made before them.
* `ReconcilerAlone` is not something the code checks. The run and its theorems
  `RemainsStayNamed` and `RestagedStaysIntact` do not assume it of the whole behaviour:
  they hold in every behaviour, up to the first moment at which it is false (`crowded`).
  It stays true for two attempts at once (`TwoReconcileAlone`: a cleaner has read the
  record of another attempt and found it gone, and there is no third) and for any number
  of attempts one after another (`SerialReconcileAlone`, from `OneAfterAnother`;
  `RetriesAreSafe`). For three attempts at once it can fail, and the properties with it
  (section 4).
* `Counted` (attempts are told apart from "none", the bounds are natural numbers) is a
  hypothesis of these theorems. `MCArchiveRestage` takes the module as an instance and
  assumes it there (`LinuxRestageAssumption`), where TLC evaluates it.
  `ArchiveRestageProofs` shows that the instance behaves as the Linux restage beside a
  Windows one that stands still (`BothRunLinux`), and states the three theorems for the
  very specification and properties of the run.

Only model-checked: `ConsistentCrashRecovers` and `CommittedSwapEnds`; liveness is
outside the prover's reach.

## 6. Not modelled, and the plan

Left out for good: framing and wire formats, policy and descriptor parsing, staging and
provenance checks (sequential decisions over strings and bytes; the models take their
outcomes), the legacy install paths of the SDKs, the release tools, diagnostics,
examples and vendored code. A power loss is modelled for the Linux swap and the
registry only.

Branches of modelled functions that are left out; no property speaks of what they decide:

* Registry: a file whose owner, mode or link count changed (`RequireRegistryFileIdentity`)
  is refused by the code; the registry's files are only written by helpers here.
* Linux service: `TerminateAndReap` always succeeds, while SIGKILL of a helper of another
  user may fail; a helper that lives on beside a host that gave up is modelled only for a
  host that exits (`CallerExits`). `BeginRecovery` loads the record and looks for the control directory in one
  step, and a `.next` journal left by a death, which ends in `manualActionRequired`, is
  not there (`LinuxFileTransaction` has it).
* Windows swap: `LoadCurrentJournal` of a persistent recovery may promote or delete
  `journal.next` before the lock is taken; the model does it under the lock only.
* Windows service: provisioning of an endpoint that did not exist may throw again, and the
  endpoint source may be rejected; both end the owner before there is a record, as a failed
  check does.
* Linux restage: without `O_TMPFILE` the record's temporary file has its name before its
  bytes; that fallback is left out. A removal that another attempt has overtaken finds
  nothing to remove, and fails only as a fault.

Next, in this order:

1. The provider journal and its recovery around an external command
   (`linux_provider_journal.cc`, `system_package_transaction.cc`).
2. The retained recovery authority of the Linux registry.
3. The macOS helper's transaction and recovery.
4. The Dart controller's overlapping futures.

Theorems to add: that the record of `LinuxInstallService` is a `RecordRegister` (a
second refinement of the abstract specification).
