-------------------------- MODULE UpdateClientProofs --------------------------
(***************************************************************************)
(* Theorems about UpdateClient, for every set of threads and releases and  *)
(* every number of calls that does not wrap a 64-bit counter.  Each action *)
(* is shown to preserve ClientInv.                                         *)
(***************************************************************************)
EXTENDS UpdateClient, TLAPS

USE ReleaseAssumption, ModulusAssumption, CallAssumption

-----------------------------------------------------------------------------
(* Types of the values a thread carries.                                   *)

LEMMA EmptyTypes ==
    /\ NoStage \in Stage /\ NoHandoff \in InstallHandoff
    /\ NoLease \in StageLease /\ NoSnapshot \in Snapshots
    /\ Idle \in Thread
<1>1. NoStage \in Stage BY DEF NoStage, Stage, CheckResults
<1>2. NoHandoff \in InstallHandoff BY <1>1 DEF NoHandoff, InstallHandoff
<1>3. NoLease \in StageLease BY DEF NoLease, StageLease, CheckResults
<1>4. NoSnapshot \in Snapshots BY <1>1 DEF NoSnapshot, Snapshots, CheckResults
<1> QED BY <1>1, <1>2, <1>3, <1>4 DEF Idle, Inside, At, Thread

(* A step of one thread leaves the others' locals alone.                   *)
LEMMA GoesTo ==
    ASSUME thr \in [Threads -> Thread], NEW t \in Threads, NEW x \in Thread, Goes(t, x)
    PROVE  /\ thr' \in [Threads -> Thread]
           /\ thr'[t] = x
           /\ \A u \in Threads : u # t => thr'[u] = thr[u]
BY DEF Goes

(* No counter reaches its modulus within the calls allowed.                *)
LEMMA Increments ==
    ASSUME NEW n \in Nat, n < MaxCalls
    PROVE  IncrementNonzero(n) = n + 1
BY DEF IncrementNonzero

LEMMA ThreadFields ==
    ASSUME TypeOK, NEW t \in Threads
    PROVE  /\ thr[t] \in Thread
           /\ thr[t].lease \in StageLease
           /\ thr[t].lease.generation \in Nat
           /\ thr[t].lease.attempt \in Nat
           /\ thr[t].lease.check \in CheckResults
           /\ thr[t].snap \in Snapshots
           /\ thr[t].handoff \in InstallHandoff
           /\ thr[t].handoff.token \in Nat
           /\ thr[t].handoff.generation \in Nat
           /\ thr[t].handoff.attempt \in Nat
           /\ thr[t].handoff.staged \in Stage
           /\ pending.token \in Nat
           /\ calls \in Nat
BY DEF TypeOK, Thread, StageLease, Snapshots, InstallHandoff

-----------------------------------------------------------------------------
(* A thread returns, or enters a commit or a cancellation, and nothing     *)
(* else the invariant speaks of changes.                                   *)
LEMMA QuietStep ==
    ASSUME ClientInv, NEW t \in Threads,
           NEW pc \in {"idle", "committing", "cancelling", "clearing"},
           Goes(t, Inside(pc)),
           UNCHANGED <<lifecycle, calls, pending, removed>>
    PROVE  ClientInv'
<1> DEFINE x == Inside(pc)
<1>0. x \in Thread /\ x.pc = pc /\ x.lease = NoLease /\ x.handoff = NoHandoff
  BY EmptyTypes DEF Idle, Inside, At, Thread, InstallPcs
<1>1. /\ thr' \in [Threads -> Thread]
      /\ thr'[t] = x
      /\ \A u \in Threads : u # t => thr'[u] = thr[u]
  BY <1>0, GoesTo DEF ClientInv, TypeOK
<1> HIDE DEF x
<1>2. TypeOK' BY <1>1 DEF ClientInv, TypeOK, Counters, lifecycle, InstallInProgress
<1>3. NumbersTaken'
  BY <1>0, <1>1 DEF ClientInv, TypeOK, Counters, NumbersTaken, lifecycle, NoLease, NoHandoff
<1>4. CurrentCheckUnpublished'
  BY <1>0, <1>1 DEF ClientInv, CurrentCheckUnpublished, lifecycle
<1>5. StagingCurrentCheck'
  BY <1>0, <1>1 DEF ClientInv, StagingCurrentCheck, lifecycle
<1>6. StagedFromCurrentCheck' /\ StagedNumbered'
  BY DEF ClientInv, StagedFromCurrentCheck, StagedNumbered, lifecycle
<1>7. SnapshotCoherent' /\ HandoffIsWhatWasValidated' /\ HandoffRestorable'
  BY <1>0, <1>1 DEF ClientInv, SnapshotCoherent, HandoffIsWhatWasValidated,
     HandoffRestorable, HandoffPcs, lifecycle
<1>8. SingleHandoff'
  BY <1>0, <1>1 DEF ClientInv, SingleHandoff, HandoffPcs, lifecycle
<1> QED BY <1>2, <1>3, <1>4, <1>5, <1>6, <1>7, <1>8 DEF ClientInv

(* The same for a step that also completes or forgets a reservation: the   *)
(* active handoff may end, and only while no thread is handing one over.   *)
LEMMA PendingStep ==
    ASSUME ClientInv, NEW t \in Threads, thr[t].pc \notin HandoffPcs,
           NEW pc \in {"idle", "clearing"},
           Goes(t, Inside(pc)),
           UNCHANGED calls, removed' \subseteq Stage,
           pending' \in {pending, NoHandoff},
           CompleteInstall(pending) \/ UNCHANGED lifecycle
    PROVE  ClientInv'
<1> DEFINE x == Inside(pc)
<1>0. x \in Thread /\ x.pc = pc /\ x.lease = NoLease /\ x.handoff = NoHandoff
  BY EmptyTypes DEF Idle, Inside, At, Thread, InstallPcs
<1>1. /\ thr' \in [Threads -> Thread]
      /\ thr'[t] = x
      /\ \A u \in Threads : u # t => thr'[u] = thr[u]
  BY <1>0, GoesTo DEF ClientInv, TypeOK
<1> HIDE DEF x
<1>2. SameSelection /\ SameStage /\ nextHandoffToken' = nextHandoffToken
  BY DEF CompleteInstall, SameSelection, SameStage, lifecycle
<1>3. \/ handoff' = handoff /\ activeHandoffToken' = activeHandoffToken
      \/ /\ handoff' = "none" /\ activeHandoffToken' = 0
         /\ OwnsHandoff(pending)
  BY DEF CompleteInstall, lifecycle
<1>4. pending' \in InstallHandoff /\ pending'.token \in {pending.token, 0}
  BY EmptyTypes DEF ClientInv, TypeOK, NoHandoff
<1>5. TypeOK'
  <2>1. Counters' BY <1>2, <1>3 DEF ClientInv, TypeOK, Counters, SameSelection, SameStage
  <2>2. (handoff \in {"none", "scheduling", "confirmed"})'
        /\ (InstallInProgress <=> activeHandoffToken # 0)'
    BY <1>3 DEF ClientInv, TypeOK, InstallInProgress
  <2>3. (check \in CheckResults /\ staged \in Stage /\ calls \in 0..MaxCalls)'
    BY <1>2 DEF ClientInv, TypeOK, SameSelection, SameStage
  <2> QED BY <1>1, <1>4, <2>1, <2>2, <2>3 DEF TypeOK
<1>6. NumbersTaken'
  BY <1>0, <1>1, <1>2, <1>3, <1>4 DEF ClientInv, TypeOK, Counters, NumbersTaken, NoLease,
     NoHandoff, SameSelection, SameStage
<1>7. CurrentCheckUnpublished' /\ StagingCurrentCheck'
  BY <1>0, <1>1, <1>2 DEF ClientInv, CurrentCheckUnpublished, StagingCurrentCheck,
     SameSelection
<1>8. StagedFromCurrentCheck' /\ StagedNumbered'
  BY <1>2 DEF ClientInv, StagedFromCurrentCheck, StagedNumbered, SameSelection, SameStage
<1>9. \A u \in Threads : thr'[u].pc \in HandoffPcs =>
        /\ u # t
        /\ thr[u].pc \in HandoffPcs /\ thr'[u] = thr[u]
        /\ thr[u].handoff.token = activeHandoffToken
        /\ handoff' = handoff /\ activeHandoffToken' = activeHandoffToken
        /\ thr[u].handoff.token # 0
  BY <1>0, <1>1, <1>3 DEF ClientInv, SingleHandoff, HandoffRestorable, HandoffPcs, OwnsHandoff
<1>10. SnapshotCoherent' /\ HandoffIsWhatWasValidated'
  BY <1>0, <1>1 DEF ClientInv, SnapshotCoherent, HandoffIsWhatWasValidated, HandoffPcs
<1>11. HandoffRestorable'
  BY <1>2, <1>4, <1>9 DEF ClientInv, HandoffRestorable, SameSelection
<1>12. SingleHandoff'
  BY <1>9 DEF ClientInv, SingleHandoff
<1> QED BY <1>5, <1>6, <1>7, <1>8, <1>10, <1>11, <1>12 DEF ClientInv

-----------------------------------------------------------------------------
(* Checks.                                                                 *)

LEMMA CheckForUpdatePreserves ==
    ASSUME ClientInv, NEW t \in Threads, CheckForUpdate(t)
    PROVE  ClientInv'
<1>1. /\ selectionGeneration' = selectionGeneration + 1
      /\ stageAttempt' = stageAttempt + 1
      /\ calls' = calls + 1 /\ calls < MaxCalls
  BY Increments DEF CheckForUpdate, BeginCheck, Counted, ClientInv, TypeOK, Counters, NumbersTaken
<1>2. /\ check' = NoRelease /\ checkGeneration' = 0 /\ staged' = NoStage
      /\ stagedGeneration' = 0 /\ stagedAttempt' = 0
      /\ UNCHANGED <<handoff, nextHandoffToken, activeHandoffToken, pending, removed>>
  BY DEF CheckForUpdate, BeginCheck, ClearStage, SameHandoff, SameInstall
<1>3. PICK y \in Thread :
        /\ Goes(t, y)
        /\ y.handoff = NoHandoff
        /\ y.lease.attempt = 0
        /\ \/ y.pc = "idle" /\ y.lease.generation = 0
           \/ y.pc = "checking" /\ y.lease.generation = selectionGeneration'
  <2>1. CASE InstallInProgress
    <3>1. Goes(t, Idle) BY <2>1 DEF CheckForUpdate, Returns
    <3> QED BY <3>1, EmptyTypes DEF Idle, Inside, At, NoLease
  <2>2. CASE ~InstallInProgress
    <3> DEFINE lease == [generation |-> selectionGeneration', attempt |-> 0,
                         check |-> NoRelease]
               z == At("checking", lease, NoSnapshot, NoHandoff)
    <3>1. Goes(t, z) BY <2>2 DEF CheckForUpdate
    <3>2. lease \in StageLease
      BY <1>1 DEF StageLease, CheckResults, ClientInv, TypeOK, Counters
    <3>3. z \in Thread BY <3>2, EmptyTypes DEF At, Thread
    <3> QED BY <3>1, <3>3 DEF At
  <2> QED BY <2>1, <2>2
<1>4. /\ thr' \in [Threads -> Thread]
      /\ thr'[t] = y
      /\ \A u \in Threads : u # t => thr'[u] = thr[u]
  BY <1>3, GoesTo DEF ClientInv, TypeOK
<1>5. TypeOK'
  <2>1. Counters' BY <1>1, <1>2 DEF ClientInv, TypeOK, Counters
  <2>2. (calls \in 0..MaxCalls)' BY <1>1 DEF ClientInv, TypeOK
  <2> QED BY <1>2, <1>4, <2>1, <2>2, EmptyTypes
          DEF ClientInv, TypeOK, InstallInProgress, CheckResults
<1>6. NumbersTaken'
  <2>1. \A u \in Threads :
          /\ thr'[u].lease.generation <= selectionGeneration'
          /\ thr'[u].handoff.generation <= selectionGeneration'
          /\ thr'[u].lease.attempt <= stageAttempt'
          /\ thr'[u].handoff.attempt <= stageAttempt'
    BY <1>1, <1>3, <1>4, ThreadFields
       DEF ClientInv, NumbersTaken, NoHandoff, TypeOK, Counters
  <2> QED BY <1>1, <1>2, <2>1 DEF ClientInv, NumbersTaken, TypeOK, Counters
<1>7. \A u \in Threads : u # t => /\ thr[u].lease.generation # selectionGeneration'
                                  /\ thr[u].handoff.generation # selectionGeneration'
  BY <1>1, ThreadFields DEF ClientInv, NumbersTaken, TypeOK, Counters
<1>8. selectionGeneration' # 0 BY <1>1 DEF ClientInv, TypeOK, Counters
<1>9. CurrentCheckUnpublished'
  BY <1>2, <1>3, <1>4, <1>7, <1>8 DEF ClientInv, CurrentCheckUnpublished
<1>10. StagingCurrentCheck'
  BY <1>3, <1>4, <1>7 DEF ClientInv, StagingCurrentCheck
<1>11. StagedFromCurrentCheck' /\ StagedNumbered'
  BY <1>2 DEF StagedFromCurrentCheck, StagedNumbered
<1>12. SnapshotCoherent' /\ HandoffIsWhatWasValidated'
  BY <1>3, <1>4 DEF ClientInv, SnapshotCoherent, HandoffIsWhatWasValidated, HandoffPcs
<1>13. HandoffRestorable'
  BY <1>2, <1>3, <1>4, <1>7 DEF ClientInv, HandoffRestorable, HandoffPcs
<1>14. SingleHandoff'
  BY <1>2, <1>3, <1>4 DEF ClientInv, SingleHandoff, HandoffPcs
<1> QED BY <1>5, <1>6, <1>9, <1>10, <1>11, <1>12, <1>13, <1>14 DEF ClientInv

LEMMA CheckCompletesPreserves ==
    ASSUME ClientInv, NEW t \in Threads, CheckCompletes(t)
    PROVE  ClientInv'
<1>1. Goes(t, Inside("idle")) /\ UNCHANGED <<calls, pending, removed>>
  BY DEF CheckCompletes, Returns, Idle, SameInstall
<1>2. CASE ~PublishCheckAllowed(thr[t].lease)
  <2>1. UNCHANGED lifecycle BY <1>2 DEF CheckCompletes
  <2> QED BY <1>1, <2>1, QuietStep
<1>3. CASE PublishCheckAllowed(thr[t].lease)
  <2>1. PICK result \in CheckResults : PublishCheck(thr[t].lease, result)
    BY <1>3 DEF CheckCompletes
  <2>2. /\ handoff = "none" /\ thr[t].lease.generation = selectionGeneration
        /\ checkGeneration = 0 /\ selectionGeneration # 0 /\ thr[t].pc = "checking"
    BY <1>3 DEF CheckCompletes, PublishCheckAllowed, InstallInProgress, ClientInv,
       CurrentCheckUnpublished
  <2>3. /\ check' \in CheckResults /\ checkGeneration' = selectionGeneration
        /\ UNCHANGED <<selectionGeneration, stageAttempt, staged, stagedGeneration,
                       stagedAttempt, handoff, nextHandoffToken, activeHandoffToken>>
    BY <2>1, <2>2 DEF PublishCheck, SameHandoff
  <2>4. /\ thr' \in [Threads -> Thread]
        /\ thr'[t] = Idle
        /\ \A u \in Threads : u # t => thr'[u] = thr[u]
    BY <1>1, EmptyTypes, GoesTo DEF ClientInv, TypeOK, Idle
  <2>5. Idle.pc = "idle" /\ Idle.lease = NoLease /\ Idle.handoff = NoHandoff
    BY DEF Idle, Inside, At
  <2>6. staged = NoStage
    BY <2>2 DEF ClientInv, StagedFromCurrentCheck
  <2>7. TypeOK'
    <3>1. Counters' BY <2>3 DEF ClientInv, TypeOK, Counters
    <3> QED BY <1>1, <2>3, <2>4, <3>1 DEF ClientInv, TypeOK, InstallInProgress
  <2>8. NumbersTaken'
    BY <1>1, <2>3, <2>4, <2>5 DEF ClientInv, NumbersTaken, NoLease, NoHandoff,
       TypeOK, Counters
  <2>9. CurrentCheckUnpublished'
    BY <2>2, <2>3, <2>4, <2>5 DEF ClientInv, CurrentCheckUnpublished
  <2>10. StagingCurrentCheck'
    BY <2>2, <2>3, <2>4, <2>5 DEF ClientInv, StagingCurrentCheck
  <2>11. StagedFromCurrentCheck' /\ StagedNumbered'
    BY <2>3, <2>6 DEF StagedFromCurrentCheck, StagedNumbered
  <2>12. \A u \in Threads : thr'[u].pc \notin HandoffPcs
    BY <2>2, <2>4, <2>5 DEF ClientInv, SingleHandoff, HandoffPcs
  <2>13. SnapshotCoherent'
    BY <2>4, <2>5 DEF ClientInv, SnapshotCoherent, HandoffPcs
  <2>14. HandoffIsWhatWasValidated' /\ HandoffRestorable' /\ SingleHandoff'
    BY <2>12 DEF HandoffIsWhatWasValidated, HandoffRestorable, SingleHandoff
  <2> QED BY <2>7, <2>8, <2>9, <2>10, <2>11, <2>13, <2>14 DEF ClientInv
<1> QED BY <1>2, <1>3

-----------------------------------------------------------------------------
(* Stage attempts.                                                         *)

LEMMA DownloadVerifyAndStagePreserves ==
    ASSUME ClientInv, NEW t \in Threads, DownloadVerifyAndStage(t)
    PROVE  ClientInv'
<1>1. /\ stageAttempt' = stageAttempt + 1
      /\ calls' = calls + 1 /\ calls < MaxCalls
  BY Increments
     DEF DownloadVerifyAndStage, BeginStage, Counted, ClientInv, TypeOK, Counters, NumbersTaken
<1>2. /\ staged' = NoStage /\ stagedGeneration' = 0 /\ stagedAttempt' = 0
      /\ UNCHANGED <<check, selectionGeneration, checkGeneration, handoff,
                     nextHandoffToken, activeHandoffToken, pending, removed>>
  BY DEF DownloadVerifyAndStage, BeginStage, ClearStage, SameHandoff, SameInstall
<1>3. PICK y \in Thread :
        /\ Goes(t, y)
        /\ y.handoff = NoHandoff
        /\ \/ y.pc = "idle" /\ y.lease = NoLease
           \/ /\ y.pc = "staging" /\ y.lease.generation = selectionGeneration
              /\ y.lease.attempt = stageAttempt' /\ y.lease.check = check
              /\ selectionGeneration # 0 /\ checkGeneration = selectionGeneration
  <2>1. CASE ~(BeginStageAllowed /\ check # NoRelease)
    <3>1. Goes(t, Idle) BY <2>1 DEF DownloadVerifyAndStage, Returns
    <3> QED BY <3>1, EmptyTypes DEF Idle, Inside, At
  <2>2. CASE BeginStageAllowed /\ check # NoRelease
    <3> DEFINE lease == [generation |-> selectionGeneration, attempt |-> stageAttempt',
                         check |-> check]
               z == At("staging", lease, NoSnapshot, NoHandoff)
    <3>1. Goes(t, z) BY <2>2 DEF DownloadVerifyAndStage
    <3>2. lease \in StageLease BY <1>1 DEF StageLease, ClientInv, TypeOK, Counters
    <3>3. z \in Thread BY <3>2, EmptyTypes DEF At, Thread
    <3> QED BY <2>2, <3>1, <3>3 DEF At, BeginStageAllowed
  <2> QED BY <2>1, <2>2
<1>4. /\ thr' \in [Threads -> Thread]
      /\ thr'[t] = y
      /\ \A u \in Threads : u # t => thr'[u] = thr[u]
  BY <1>3, GoesTo DEF ClientInv, TypeOK
<1>5. TypeOK'
  <2>1. Counters' BY <1>1, <1>2 DEF ClientInv, TypeOK, Counters
  <2>2. (calls \in 0..MaxCalls)' BY <1>1 DEF ClientInv, TypeOK
  <2> QED BY <1>2, <1>4, <2>1, <2>2, EmptyTypes DEF ClientInv, TypeOK, InstallInProgress
<1>6. NumbersTaken'
  <2>1. \A u \in Threads :
          /\ thr'[u].lease.generation <= selectionGeneration'
          /\ thr'[u].handoff.generation <= selectionGeneration'
          /\ thr'[u].lease.attempt <= stageAttempt'
          /\ thr'[u].handoff.attempt <= stageAttempt'
    BY <1>1, <1>2, <1>3, <1>4, ThreadFields
       DEF ClientInv, NumbersTaken, NoHandoff, NoLease, TypeOK, Counters
  <2> QED BY <1>1, <1>2, <2>1 DEF ClientInv, NumbersTaken, TypeOK, Counters
<1>7. CurrentCheckUnpublished'
  BY <1>2, <1>3, <1>4 DEF ClientInv, CurrentCheckUnpublished
<1>8. StagingCurrentCheck'
  BY <1>2, <1>3, <1>4 DEF ClientInv, StagingCurrentCheck
<1>9. StagedFromCurrentCheck' /\ StagedNumbered'
  BY <1>2 DEF StagedFromCurrentCheck, StagedNumbered
<1>10. SnapshotCoherent' /\ HandoffIsWhatWasValidated'
  BY <1>3, <1>4 DEF ClientInv, SnapshotCoherent, HandoffIsWhatWasValidated, HandoffPcs
<1>11. HandoffRestorable' /\ SingleHandoff'
  BY <1>2, <1>3, <1>4 DEF ClientInv, HandoffRestorable, SingleHandoff, HandoffPcs
<1> QED BY <1>5, <1>6, <1>7, <1>8, <1>9, <1>10, <1>11 DEF ClientInv

LEMMA StageCompletesPreserves ==
    ASSUME ClientInv, NEW t \in Threads, StageCompletes(t)
    PROVE  ClientInv'
<1> DEFINE lease == thr[t].lease
           stage == [release |-> lease.check, attempt |-> lease.attempt]
<1>1. Goes(t, Inside("idle")) /\ UNCHANGED <<calls, pending, removed>>
  BY DEF StageCompletes, Returns, Idle, SameInstall
<1>2. CASE ~PublishStageAllowed(lease)
  <2>1. UNCHANGED lifecycle BY <1>2 DEF StageCompletes
  <2> QED BY <1>1, <2>1, QuietStep
<1>3. CASE PublishStageAllowed(lease)
  <2>1. PublishStage(lease, stage) BY <1>3 DEF StageCompletes
  <2>2. /\ handoff = "none" /\ lease.generation = selectionGeneration
        /\ checkGeneration = selectionGeneration /\ lease.attempt = stageAttempt
        /\ lease.generation # 0 /\ lease.check = check
    BY <1>3 DEF StageCompletes, PublishStageAllowed, InstallInProgress, ClientInv,
       StagingCurrentCheck
  <2>3. /\ staged' = stage /\ stagedGeneration' = selectionGeneration
        /\ stagedAttempt' = stageAttempt
        /\ UNCHANGED <<check, selectionGeneration, checkGeneration, stageAttempt,
                       handoff, nextHandoffToken, activeHandoffToken>>
    BY <2>1, <2>2 DEF PublishStage, SameHandoff
  <2>4. /\ thr' \in [Threads -> Thread]
        /\ thr'[t] = Idle
        /\ \A u \in Threads : u # t => thr'[u] = thr[u]
    BY <1>1, EmptyTypes, GoesTo DEF ClientInv, TypeOK, Idle
  <2>5. Idle.pc = "idle" /\ Idle.lease = NoLease /\ Idle.handoff = NoHandoff
    BY DEF Idle, Inside, At
  <2>6. stage \in Stage /\ stage.release = check /\ stage.attempt = stageAttempt
    BY <2>2, ThreadFields DEF ClientInv, Stage
  <2> HIDE DEF stage, lease
  <2>7. TypeOK'
    <3>1. Counters' BY <2>3 DEF ClientInv, TypeOK, Counters
    <3> QED BY <1>1, <2>3, <2>4, <2>6, <3>1 DEF ClientInv, TypeOK, InstallInProgress
  <2>8. NumbersTaken'
    BY <1>1, <2>3, <2>4, <2>5 DEF ClientInv, NumbersTaken, NoLease, NoHandoff,
       TypeOK, Counters
  <2>9. CurrentCheckUnpublished' /\ StagingCurrentCheck'
    BY <2>3, <2>4, <2>5 DEF ClientInv, CurrentCheckUnpublished, StagingCurrentCheck
  <2>10. StagedFromCurrentCheck' /\ StagedNumbered'
    BY <2>2, <2>3, <2>6 DEF StagedFromCurrentCheck, StagedNumbered
  <2>11. SnapshotCoherent' /\ HandoffIsWhatWasValidated' /\ HandoffRestorable'
    BY <1>1, <2>3, <2>4, <2>5 DEF ClientInv, SnapshotCoherent,
       HandoffIsWhatWasValidated, HandoffRestorable, HandoffPcs
  <2>12. SingleHandoff'
    BY <2>3, <2>4, <2>5 DEF ClientInv, SingleHandoff, HandoffPcs
  <2> QED BY <2>7, <2>8, <2>9, <2>10, <2>11, <2>12 DEF ClientInv
<1> QED BY <1>2, <1>3

-----------------------------------------------------------------------------
(* Install calls.                                                          *)

LEMMA PrepareInstallPreserves ==
    ASSUME ClientInv, NEW t \in Threads, PrepareInstall(t)
    PROVE  ClientInv'
<1> DEFINE x == At("validating", NoLease, Snapshot, NoHandoff)
<1>1. /\ Goes(t, x) /\ UNCHANGED <<lifecycle, pending, removed, calls>>
      /\ staged # NoStage /\ check # NoRelease
  BY DEF PrepareInstall, SameInstall
<1>2. Snapshot \in Snapshots BY DEF Snapshot, Snapshots, ClientInv, TypeOK, Counters
<1>3. /\ x \in Thread /\ x.pc = "validating" /\ x.lease = NoLease
      /\ x.handoff = NoHandoff /\ x.snap.check = check /\ x.snap.staged = staged
  BY <1>2, EmptyTypes DEF At, Thread, InstallPcs, Snapshot
<1> HIDE DEF x
<1>4. /\ thr' \in [Threads -> Thread]
      /\ thr'[t] = x
      /\ \A u \in Threads : u # t => thr'[u] = thr[u]
  BY <1>1, <1>3, GoesTo DEF ClientInv, TypeOK
<1>5. TypeOK'
  <2>1. Counters' BY <1>1 DEF ClientInv, TypeOK, Counters, lifecycle
  <2>2. (calls \in 0..MaxCalls)' BY <1>1 DEF ClientInv, TypeOK
  <2> QED BY <1>1, <1>4, <2>1, <2>2 DEF ClientInv, TypeOK, InstallInProgress, lifecycle
<1>6. NumbersTaken'
  BY <1>1, <1>3, <1>4 DEF ClientInv, NumbersTaken, NoLease, NoHandoff, TypeOK, Counters,
     lifecycle
<1>7. CurrentCheckUnpublished' /\ StagingCurrentCheck'
  BY <1>1, <1>3, <1>4 DEF ClientInv, CurrentCheckUnpublished, StagingCurrentCheck, lifecycle
<1>8. StagedFromCurrentCheck' /\ StagedNumbered'
  BY <1>1 DEF ClientInv, StagedFromCurrentCheck, StagedNumbered, lifecycle
<1>9. SnapshotCoherent'
  BY <1>1, <1>3, <1>4 DEF ClientInv, SnapshotCoherent, StagedFromCurrentCheck, HandoffPcs
<1>10. HandoffIsWhatWasValidated' /\ HandoffRestorable' /\ SingleHandoff'
  BY <1>1, <1>3, <1>4 DEF ClientInv, HandoffIsWhatWasValidated, HandoffRestorable,
     SingleHandoff, HandoffPcs, lifecycle
<1> QED BY <1>5, <1>6, <1>7, <1>8, <1>9, <1>10 DEF ClientInv

LEMMA ValidationSucceedsPreserves ==
    ASSUME ClientInv, NEW t \in Threads, ValidationSucceeds(t)
    PROVE  ClientInv'
<1>1. CASE ~BeginInstallAllowed(thr[t].snap)
  <2>1. Goes(t, Inside("idle")) /\ UNCHANGED <<lifecycle, calls, pending, removed>>
    BY <1>1 DEF ValidationSucceeds, Returns, Idle, SameInstall
  <2> QED BY <2>1, QuietStep
<1>2. CASE BeginInstallAllowed(thr[t].snap)
  <2> DEFINE x == At("scheduling", NoLease, thr[t].snap, TakenHandoff)
  <2>1. /\ Goes(t, x) /\ UNCHANGED <<pending, removed>>
        /\ calls' = calls + 1 /\ calls < MaxCalls
        /\ BeginInstall(thr[t].snap) /\ thr[t].pc = "validating"
    BY <1>2 DEF ValidationSucceeds, Counted, SameInstall
  <2>2. /\ nextHandoffToken' = nextHandoffToken + 1
        /\ activeHandoffToken' = nextHandoffToken + 1
        /\ TakenHandoff.token = nextHandoffToken + 1
    BY <2>1, Increments
       DEF BeginInstall, TakenHandoff, ClientInv, TypeOK, Counters, NumbersTaken
  <2>3. /\ handoff' = "scheduling" /\ staged' = NoStage /\ stagedGeneration' = 0
        /\ stagedAttempt' = 0
        /\ UNCHANGED <<check, selectionGeneration, checkGeneration, stageAttempt>>
    BY <2>1 DEF BeginInstall, ClearStage
  <2>4. /\ handoff = "none" /\ thr[t].snap.staged = staged /\ staged # NoStage
        /\ stagedGeneration = selectionGeneration /\ stagedGeneration # 0
        /\ checkGeneration = selectionGeneration /\ stagedAttempt = stageAttempt
    BY <1>2 DEF BeginInstallAllowed, SnapshotCurrent, InstallInProgress
  <2>5. staged.attempt = stageAttempt /\ staged.release = check
    BY <2>4 DEF ClientInv, StagedFromCurrentCheck
  <2>6. TakenHandoff \in InstallHandoff
    BY <2>2 DEF TakenHandoff, InstallHandoff, ClientInv, TypeOK, Counters
  <2>7. /\ x \in Thread /\ x.pc = "scheduling" /\ x.lease = NoLease
        /\ x.snap = thr[t].snap /\ x.handoff = TakenHandoff
    BY <2>6, EmptyTypes, ThreadFields DEF ClientInv, At, Thread, InstallPcs, HandoffPcs
  <2>8. /\ TakenHandoff.staged = staged /\ TakenHandoff.generation = selectionGeneration
        /\ TakenHandoff.attempt = stageAttempt
    BY <2>4 DEF TakenHandoff
  <2> HIDE DEF x
  <2>9. /\ thr' \in [Threads -> Thread]
        /\ thr'[t] = x
        /\ \A u \in Threads : u # t => thr'[u] = thr[u]
    BY <2>1, <2>7, GoesTo DEF ClientInv, TypeOK
  <2>10. TypeOK'
    <3>1. Counters' BY <2>2, <2>3 DEF ClientInv, TypeOK, Counters
    <3>2. (calls \in 0..MaxCalls)' BY <2>1 DEF ClientInv, TypeOK
    <3>3. (InstallInProgress <=> activeHandoffToken # 0)'
      BY <2>2, <2>3 DEF InstallInProgress, ClientInv, TypeOK, Counters
    <3> QED BY <2>1, <2>3, <2>9, <3>1, <3>2, <3>3, EmptyTypes DEF ClientInv, TypeOK
  <2>11. NumbersTaken'
    <3>1. \A u \in Threads :
            /\ thr'[u].lease.generation <= selectionGeneration'
            /\ thr'[u].handoff.generation <= selectionGeneration'
            /\ thr'[u].lease.attempt <= stageAttempt'
            /\ thr'[u].handoff.attempt <= stageAttempt'
      BY <2>3, <2>7, <2>8, <2>9 DEF ClientInv, NumbersTaken, NoLease, TypeOK, Counters
    <3> QED BY <2>1, <2>2, <2>3, <3>1, ThreadFields DEF ClientInv, NumbersTaken, TypeOK, Counters
  <2>12. CurrentCheckUnpublished' /\ StagingCurrentCheck'
    BY <2>3, <2>7, <2>9 DEF ClientInv, CurrentCheckUnpublished, StagingCurrentCheck
  <2>13. StagedFromCurrentCheck' /\ StagedNumbered'
    BY <2>3 DEF StagedFromCurrentCheck, StagedNumbered
  <2>14. SnapshotCoherent'
    BY <2>1, <2>7, <2>9 DEF ClientInv, SnapshotCoherent
  <2>15. \A u \in Threads : u # t => thr'[u].pc \notin HandoffPcs
    BY <2>4, <2>9 DEF ClientInv, SingleHandoff, HandoffPcs
  <2>16. HandoffIsWhatWasValidated'
    BY <2>1, <2>4, <2>7, <2>8, <2>9, <2>15
       DEF ClientInv, HandoffIsWhatWasValidated, SnapshotCoherent
  <2>17. TakenHandoff.token # pending.token /\ TakenHandoff.token # 0
    BY <2>2, ThreadFields DEF ClientInv, NumbersTaken, TypeOK, Counters
  <2>18. HandoffRestorable'
    BY <2>1, <2>3, <2>4, <2>5, <2>7, <2>8, <2>9, <2>15, <2>17 DEF HandoffRestorable
  <2>19. SingleHandoff'
    BY <2>2, <2>3, <2>7, <2>9, <2>15, <2>17 DEF SingleHandoff
  <2> QED BY <2>10, <2>11, <2>12, <2>13, <2>14, <2>16, <2>18, <2>19 DEF ClientInv
<1> QED BY <1>1, <1>2

LEMMA HandoffFailsPreserves ==
    ASSUME ClientInv, NEW t \in Threads, HandoffFails(t)
    PROVE  ClientInv'
<1> DEFINE h == thr[t].handoff
<1>1. /\ Goes(t, Idle) /\ UNCHANGED <<calls, pending, removed>>
      /\ RollbackInstall(h) /\ thr[t].pc = "scheduling"
  BY DEF HandoffFails, Returns, SameInstall
<1>2. IsScheduling(h)
  BY <1>1 DEF IsScheduling, OwnsHandoff, InstallInProgress, ClientInv, SingleHandoff, HandoffPcs
<1>3. /\ handoff' = "none" /\ activeHandoffToken' = 0
      /\ UNCHANGED <<check, selectionGeneration, checkGeneration, stageAttempt,
                     nextHandoffToken>>
  BY <1>1, <1>2 DEF RollbackInstall, SameSelection
<1>4. \/ /\ CanRestore(h) /\ staged' = h.staged
         /\ stagedGeneration' = h.generation /\ stagedAttempt' = h.attempt
      \/ UNCHANGED <<staged, stagedGeneration, stagedAttempt>>
  BY <1>1, <1>2 DEF RollbackInstall, RestoreStage, SameStage
<1>5. /\ thr' \in [Threads -> Thread]
      /\ thr'[t] = Idle
      /\ \A u \in Threads : u # t => thr'[u] = thr[u]
  BY <1>1, EmptyTypes, GoesTo DEF ClientInv, TypeOK
<1>6. Idle.pc = "idle" /\ Idle.lease = NoLease /\ Idle.handoff = NoHandoff
  BY DEF Idle, Inside, At
<1>7. /\ h.staged \in Stage /\ h.generation \in Nat /\ h.attempt \in Nat
      /\ h.generation # 0 /\ h.staged.attempt = h.attempt
      /\ h.generation = selectionGeneration => h.staged.release = check
  BY <1>1, ThreadFields DEF ClientInv, HandoffRestorable, HandoffPcs
<1>8. TypeOK'
  <2>1. Counters' BY <1>3, <1>4, <1>7 DEF ClientInv, TypeOK, Counters
  <2>2. (staged \in Stage)' BY <1>4, <1>7 DEF ClientInv, TypeOK
  <2> QED BY <1>1, <1>3, <1>5, <2>1, <2>2 DEF ClientInv, TypeOK, InstallInProgress
<1>9. NumbersTaken'
  BY <1>1, <1>3, <1>5, <1>6 DEF ClientInv, NumbersTaken, NoLease, NoHandoff, TypeOK, Counters
<1>10. CurrentCheckUnpublished' /\ StagingCurrentCheck'
  BY <1>3, <1>5, <1>6 DEF ClientInv, CurrentCheckUnpublished, StagingCurrentCheck
<1>11. StagedFromCurrentCheck' /\ StagedNumbered'
  BY <1>3, <1>4, <1>7
     DEF ClientInv, StagedFromCurrentCheck, StagedNumbered, CanRestore
<1>12. \A u \in Threads : thr'[u].pc \notin HandoffPcs
  BY <1>1, <1>5, <1>6 DEF ClientInv, SingleHandoff, HandoffPcs
<1>13. SnapshotCoherent' BY <1>5, <1>6 DEF ClientInv, SnapshotCoherent, HandoffPcs
<1>14. HandoffIsWhatWasValidated' /\ HandoffRestorable' /\ SingleHandoff'
  BY <1>12 DEF HandoffIsWhatWasValidated, HandoffRestorable, SingleHandoff
<1> QED BY <1>8, <1>9, <1>10, <1>11, <1>13, <1>14 DEF ClientInv

LEMMA HandoffSucceedsPreserves ==
    ASSUME ClientInv, NEW t \in Threads, HandoffSucceeds(t)
    PROVE  ClientInv'
<1> DEFINE x == At("confirmed", NoLease, thr[t].snap, thr[t].handoff)
<1>1. thr[t].pc = "scheduling" /\ UNCHANGED <<calls, pending, removed>>
  BY DEF HandoffSucceeds, SameInstall
<1>2. IsScheduling(thr[t].handoff)
  BY <1>1 DEF IsScheduling, OwnsHandoff, InstallInProgress, ClientInv, SingleHandoff, HandoffPcs
<1>3. /\ Goes(t, x) /\ handoff' = "confirmed" /\ handoff = "scheduling"
      /\ UNCHANGED <<check, selectionGeneration, checkGeneration, stageAttempt, staged,
                     stagedGeneration, stagedAttempt, nextHandoffToken,
                     activeHandoffToken>>
  BY <1>2 DEF HandoffSucceeds, ConfirmInstall, SameSelection, SameStage, IsScheduling
<1>4. /\ x \in Thread /\ x.pc = "confirmed" /\ x.lease = NoLease
      /\ x.snap = thr[t].snap /\ x.handoff = thr[t].handoff
  BY EmptyTypes, ThreadFields DEF ClientInv, At, Thread, InstallPcs, HandoffPcs
<1> HIDE DEF x
<1>5. /\ thr' \in [Threads -> Thread]
      /\ thr'[t] = x
      /\ \A u \in Threads : u # t => thr'[u] = thr[u]
  BY <1>3, <1>4, GoesTo DEF ClientInv, TypeOK
<1>6. TypeOK'
  <2>1. Counters' BY <1>3 DEF ClientInv, TypeOK, Counters
  <2> QED BY <1>1, <1>3, <1>5, <2>1 DEF ClientInv, TypeOK, InstallInProgress
<1>7. NumbersTaken'
  BY <1>1, <1>3, <1>4, <1>5 DEF ClientInv, NumbersTaken, NoLease, TypeOK, Counters
<1>8. CurrentCheckUnpublished' /\ StagingCurrentCheck'
  BY <1>3, <1>4, <1>5 DEF ClientInv, CurrentCheckUnpublished, StagingCurrentCheck
<1>9. StagedFromCurrentCheck' /\ StagedNumbered'
  BY <1>3 DEF ClientInv, StagedFromCurrentCheck, StagedNumbered
<1>10. \A u \in Threads : u # t => thr'[u].pc \notin HandoffPcs
  BY <1>1, <1>5 DEF ClientInv, SingleHandoff, HandoffPcs
<1>11. SnapshotCoherent' /\ HandoffIsWhatWasValidated'
  BY <1>1, <1>4, <1>5
     DEF ClientInv, SnapshotCoherent, HandoffIsWhatWasValidated, HandoffPcs
<1>12. HandoffRestorable'
  BY <1>1, <1>3, <1>4, <1>5, <1>10 DEF ClientInv, HandoffRestorable, HandoffPcs
<1>13. SingleHandoff'
  BY <1>1, <1>3, <1>4, <1>5, <1>10 DEF ClientInv, SingleHandoff, HandoffPcs
<1> QED BY <1>6, <1>7, <1>8, <1>9, <1>11, <1>12, <1>13 DEF ClientInv

LEMMA RecordReservationPreserves ==
    ASSUME ClientInv, NEW t \in Threads, RecordReservation(t)
    PROVE  ClientInv'
<1>1. /\ Goes(t, Idle) /\ thr[t].pc = "confirmed" /\ pending' = thr[t].handoff
      /\ UNCHANGED <<lifecycle, removed, calls>>
  BY DEF RecordReservation, Returns
<1>2. /\ thr' \in [Threads -> Thread]
      /\ thr'[t] = Idle
      /\ \A u \in Threads : u # t => thr'[u] = thr[u]
  BY <1>1, EmptyTypes, GoesTo DEF ClientInv, TypeOK
<1>3. Idle.pc = "idle" /\ Idle.lease = NoLease /\ Idle.handoff = NoHandoff
  BY DEF Idle, Inside, At
<1>4. TypeOK'
  <2>1. (pending \in InstallHandoff)' BY <1>1, ThreadFields DEF ClientInv
  <2> QED BY <1>1, <1>2, <2>1 DEF ClientInv, TypeOK, Counters, InstallInProgress, lifecycle
<1>5. pending'.token <= nextHandoffToken'
  BY <1>1 DEF ClientInv, NumbersTaken, SingleHandoff, HandoffPcs, lifecycle
<1>6. NumbersTaken'
  BY <1>1, <1>2, <1>3, <1>5
     DEF ClientInv, NumbersTaken, NoLease, NoHandoff, TypeOK, Counters, lifecycle
<1>7. CurrentCheckUnpublished' /\ StagingCurrentCheck'
  BY <1>1, <1>2, <1>3 DEF ClientInv, CurrentCheckUnpublished, StagingCurrentCheck, lifecycle
<1>8. StagedFromCurrentCheck' /\ StagedNumbered'
  BY <1>1 DEF ClientInv, StagedFromCurrentCheck, StagedNumbered, lifecycle
<1>9. \A u \in Threads : thr'[u].pc \notin HandoffPcs
  BY <1>1, <1>2, <1>3 DEF ClientInv, SingleHandoff, HandoffPcs
<1>10. SnapshotCoherent' BY <1>2, <1>3 DEF ClientInv, SnapshotCoherent, HandoffPcs
<1>11. HandoffIsWhatWasValidated' /\ HandoffRestorable' /\ SingleHandoff'
  BY <1>9 DEF HandoffIsWhatWasValidated, HandoffRestorable, SingleHandoff
<1> QED BY <1>4, <1>6, <1>7, <1>8, <1>10, <1>11 DEF ClientInv

-----------------------------------------------------------------------------
(* The theorems.                                                           *)

LEMMA QuietActions ==
    ASSUME ClientInv, NEW t \in Threads,
           \/ CheckThrows(t) \/ StageFails(t) \/ ValidationFails(t) \/ HelperRefuses(t)
           \/ CommitAfterExit(t) \/ CancelReservation(t)
    PROVE  ClientInv'
<1>1. UNCHANGED <<lifecycle, calls, pending, removed>>
  BY DEF CheckThrows, StageFails, ValidationFails, HelperRefuses, CommitAfterExit,
     CancelReservation, SameInstall
<1>2. \E pc \in {"idle", "committing", "cancelling", "clearing"} : Goes(t, Inside(pc))
  BY DEF CheckThrows, StageFails, ValidationFails, HelperRefuses, CommitAfterExit,
     CancelReservation, Returns, Idle
<1> QED BY <1>1, <1>2, QuietStep

LEMMA PendingActions ==
    ASSUME ClientInv, NEW t \in Threads,
           CommitAccepted(t) \/ CommitClears(t) \/ CancelAccepted(t)
    PROVE  ClientInv'
<1>1. thr[t].pc \notin HandoffPcs /\ calls' = calls
  BY DEF CommitAccepted, CommitClears, CancelAccepted, HandoffPcs
<1>2. \E pc \in {"idle", "clearing"} : Goes(t, Inside(pc))
  BY DEF CommitAccepted, CommitClears, CancelAccepted, Returns, Idle
<1>3. CompleteInstall(pending) \/ UNCHANGED lifecycle
  BY DEF CommitAccepted, CommitClears, CancelAccepted
<1>4. pending' \in {pending, NoHandoff}
  BY DEF CommitAccepted, CommitClears, CancelAccepted, SameInstall
<1>5. removed' \subseteq Stage
  BY DEF CommitAccepted, CommitClears, CancelAccepted, SameInstall, ClientInv, TypeOK,
     InstallHandoff
<1> QED BY <1>1, <1>2, <1>3, <1>4, <1>5, PendingStep

LEMMA InitClientInv == Init => ClientInv
<1> SUFFICES ASSUME Init PROVE ClientInv OBVIOUS
<1>1. \A t \in Threads : /\ thr[t] = Idle /\ thr[t].pc = "idle"
                         /\ thr[t].lease = NoLease /\ thr[t].handoff = NoHandoff
  BY DEF Init, Idle, Inside, At
<1>2. TypeOK
  BY EmptyTypes DEF Init, LifecycleInit, TypeOK, Counters, InstallInProgress, CheckResults
<1>3. NumbersTaken
  BY <1>1 DEF Init, LifecycleInit, NumbersTaken, NoLease, NoHandoff
<1>4. CurrentCheckUnpublished /\ StagingCurrentCheck
  BY <1>1 DEF Init, LifecycleInit, CurrentCheckUnpublished, StagingCurrentCheck
<1>5. StagedFromCurrentCheck /\ StagedNumbered
  BY DEF Init, LifecycleInit, StagedFromCurrentCheck, StagedNumbered
<1>6. SnapshotCoherent /\ HandoffIsWhatWasValidated /\ HandoffRestorable /\ SingleHandoff
  BY <1>1 DEF SnapshotCoherent, HandoffIsWhatWasValidated, HandoffRestorable,
     SingleHandoff, HandoffPcs
<1> QED BY <1>2, <1>3, <1>4, <1>5, <1>6 DEF ClientInv

LEMMA StutterPreserves ==
    ASSUME ClientInv, UNCHANGED vars
    PROVE  ClientInv'
BY DEF ClientInv, TypeOK, Counters, NumbersTaken, CurrentCheckUnpublished,
   StagingCurrentCheck, StagedFromCurrentCheck, StagedNumbered, SnapshotCoherent,
   HandoffIsWhatWasValidated, HandoffRestorable, SingleHandoff, InstallInProgress,
   vars, lifecycle

LEMMA NextPreserves ==
    ASSUME ClientInv, [Next]_vars
    PROVE  ClientInv'
<1>1. CASE UNCHANGED vars BY <1>1, StutterPreserves
<1>2. CASE Next
  <2>1. PICK t \in Threads : CheckStep(t) \/ StageStep(t) \/ InstallCall(t) \/ InstallStep(t)
    BY <1>2 DEF Next
  <2>2. CASE CheckStep(t)
    BY <2>2, CheckForUpdatePreserves, CheckCompletesPreserves, QuietActions DEF CheckStep
  <2>3. CASE StageStep(t)
    BY <2>3, DownloadVerifyAndStagePreserves, StageCompletesPreserves, QuietActions
       DEF StageStep
  <2>4. CASE InstallCall(t)
    BY <2>4, PrepareInstallPreserves, QuietActions DEF InstallCall
  <2>5. CASE InstallStep(t)
    BY <2>5, ValidationSucceedsPreserves, HandoffFailsPreserves,
       HandoffSucceedsPreserves, RecordReservationPreserves, QuietActions, PendingActions
       DEF InstallStep
  <2> QED BY <2>1, <2>2, <2>3, <2>4, <2>5
<1> QED BY <1>1, <1>2

(* The leases and numbers the threads of UpdateClient carry always satisfy *)
(* the inductive invariant, however the calls of the threads interleave.   *)
THEOREM ClientInvHolds == Spec => []ClientInv
BY NextPreserves, InitClientInv, PTL DEF Spec

(* Every variable of the client keeps its type, and the active token says  *)
(* whether an install is in progress.                                      *)
THEOREM ClientTypeCorrect == Spec => []TypeOK
<1>1. ClientInv => TypeOK BY DEF ClientInv
<1> QED BY <1>1, ClientInvHolds, PTL

(* However checks, stage attempts, refused calls and rollbacks interleave, *)
(* PublishStage and RollbackInstall only ever offer the newest attempt's   *)
(* stage of the release the published check selected.                      *)
THEOREM StageIsCurrent == Spec => []StagedFromCurrentCheck
<1>1. ClientInv => StagedFromCurrentCheck BY DEF ClientInv
<1> QED BY <1>1, ClientInvHolds, PTL

(* The stage PrepareInstall hands to the helper is the one it validated,   *)
(* with the descriptor it was staged from, although the lock is released   *)
(* between Snapshot and BeginInstall.                                      *)
THEOREM HandoffValidated == Spec => []HandoffIsWhatWasValidated
<1>1. ClientInv => HandoffIsWhatWasValidated BY DEF ClientInv
<1> QED BY <1>1, ClientInvHolds, PTL

(* At most one thread hands a stage to the helper, and neither a commit    *)
(* nor a cancellation of an earlier reservation ends its handoff.          *)
THEOREM OneHandoff == Spec => []SingleHandoff
<1>1. ClientInv => SingleHandoff BY DEF ClientInv
<1> QED BY <1>1, ClientInvHolds, PTL

-----------------------------------------------------------------------------
(* One install call at a time (SerialSpec).  The two properties of the     *)
(* pending fields need more than ClientInv: SerialInv is inductive         *)
(* together with it.                                                       *)

OneInstallCall ==
    \A t, u \in Threads :
        thr[t].pc \in InstallPcs /\ thr[u].pc \in InstallPcs => t = u

(* What is pending is the active handoff until the call that ended it has  *)
(* reset the fields, and nothing is pending while another is handed over.  *)
PendingIsActive ==
    /\ pending # NoHandoff =>
          \/ InstallInProgress /\ pending.token = activeHandoffToken
          \/ \E t \in Threads : thr[t].pc = "clearing"
    /\ \A t \in Threads :
          /\ thr[t].pc = "clearing" => ~InstallInProgress /\ pending # NoHandoff
          /\ thr[t].pc \in {"committing", "cancelling"} => pending # NoHandoff
          /\ thr[t].pc \in HandoffPcs => pending = NoHandoff

(* While the helper has a stage the client offers none.                    *)
NothingOffered == InstallInProgress => staged = NoStage

(* An attempt that is still unpacking shares its number with no other, and *)
(* with no stage that was published, handed over, reserved or removed.     *)
AttemptsDiffer ==
    \A t \in Threads : thr[t].pc = "staging" =>
        /\ thr[t].lease.attempt \notin {0, staged.attempt, pending.staged.attempt}
        /\ \A s \in removed : s.attempt # thr[t].lease.attempt
        /\ \A u \in Threads :
              /\ thr[u].pc \in HandoffPcs =>
                    thr[u].handoff.staged.attempt # thr[t].lease.attempt
              /\ thr[u].pc = "staging" /\ u # t =>
                    thr[u].lease.attempt # thr[t].lease.attempt

(* A reserved stage is not offered, and a removed one nowhere: by number.  *)
StagesDiffer ==
    /\ staged # NoStage => staged.attempt # 0
    /\ pending # NoHandoff => pending.staged.attempt \notin {0, staged.attempt}
    /\ pending.staged.attempt <= stageAttempt
    /\ \A t \in Threads :
          thr[t].pc \in HandoffPcs => thr[t].handoff.staged.attempt # 0
    /\ \A s \in removed :
          /\ s.attempt \notin {0, staged.attempt} /\ s.attempt <= stageAttempt
          /\ pending # NoHandoff => s.attempt # pending.staged.attempt
          /\ \A t \in Threads :
                thr[t].pc \in HandoffPcs => s.attempt # thr[t].handoff.staged.attempt

SerialInv ==
    /\ ClientInv /\ OneInstallCall /\ ReservationTracked /\ PendingIsActive
    /\ NothingOffered /\ AttemptsDiffer /\ StagesDiffer

Serially ==
    /\ OneInstallCall /\ ReservationTracked /\ PendingIsActive
    /\ NothingOffered /\ AttemptsDiffer /\ StagesDiffer

(* Thread t moves and the others do not.                                   *)
Alone(t) == \A u \in Threads : u # t => thr'[u] = thr[u]

LEMMA AloneBy ==
    ASSUME SerialInv, NEW t \in Threads, NEW x \in Thread, Goes(t, x)
    PROVE  Alone(t) /\ thr'[t] = x
BY GoesTo DEF SerialInv, ClientInv, TypeOK, Alone

LEMMA ReturnsAlone ==
    ASSUME SerialInv, NEW t \in Threads, Returns(t)
    PROVE  Alone(t) /\ thr'[t].pc = "idle"
<1>1. Goes(t, Idle) BY DEF Returns
<1> QED BY <1>1, AloneBy, EmptyTypes DEF Idle, Inside, At

LEMMA InstallPcNames ==
    /\ "idle" \notin InstallPcs /\ "checking" \notin InstallPcs /\ "staging" \notin InstallPcs
    /\ HandoffPcs \subseteq InstallPcs /\ HandoffPcs = {"scheduling", "confirmed"}
    /\ {"validating", "committing", "cancelling", "clearing"} \subseteq InstallPcs
BY DEF InstallPcs, HandoffPcs

(* A thread returns and leaves the handoff, the stage and the pending      *)
(* fields alone.                                                           *)
LEMMA SerialReturn ==
    ASSUME SerialInv, NEW t \in Threads, Returns(t),
           thr[t].pc \notin HandoffPcs \cup {"clearing"},
           UNCHANGED <<handoff, activeHandoffToken, staged, stageAttempt, pending, removed>>
    PROVE  Serially'
<1>1. Alone(t) /\ thr'[t].pc = "idle" BY ReturnsAlone
<1>2. OneInstallCall'
  BY <1>1, InstallPcNames DEF SerialInv, OneInstallCall, Alone
<1>3. ReservationTracked'
  BY <1>1 DEF SerialInv, ReservationTracked, Alone, InstallInProgress
<1>4. PendingIsActive'
  BY <1>1, InstallPcNames DEF SerialInv, PendingIsActive, Alone, InstallInProgress
<1>5. NothingOffered'
  BY DEF SerialInv, NothingOffered, InstallInProgress
<1>6. AttemptsDiffer'
  BY <1>1, InstallPcNames DEF SerialInv, AttemptsDiffer, Alone
<1>7. StagesDiffer'
  BY <1>1, InstallPcNames DEF SerialInv, StagesDiffer, Alone
<1> QED BY <1>2, <1>3, <1>4, <1>5, <1>6, <1>7 DEF Serially

(* An install call starts when no other is running.                        *)
LEMMA SerialCall ==
    ASSUME SerialInv, NEW t \in Threads, NoInstallCall, InstallCall(t)
    PROVE  Serially'
<1>1. PICK x \in Thread :
        /\ Goes(t, x) /\ x.pc \in {"validating", "committing", "cancelling"}
        /\ x.pc # "validating" => pending # NoHandoff
  <2>1. CASE PrepareInstall(t)
    <3> DEFINE z == At("validating", NoLease, Snapshot, NoHandoff)
    <3>1. Snapshot \in Snapshots
      BY DEF Snapshot, Snapshots, SerialInv, ClientInv, TypeOK, Counters
    <3>2. z \in Thread BY <3>1, EmptyTypes DEF At, Thread, InstallPcs
    <3> QED BY <2>1, <3>2 DEF PrepareInstall, At
  <2>2. ASSUME NEW pc \in {"committing", "cancelling"}, Goes(t, Inside(pc)),
               pending # NoHandoff
        PROVE  \E x \in Thread :
                 /\ Goes(t, x) /\ x.pc \in {"validating", "committing", "cancelling"}
                 /\ x.pc # "validating" => pending # NoHandoff
    <3>1. Inside(pc) \in Thread /\ Inside(pc).pc = pc
      BY EmptyTypes DEF Inside, At, Thread, InstallPcs
    <3> QED BY <2>2, <3>1
  <2> QED BY <2>1, <2>2 DEF InstallCall, CommitAfterExit, CancelReservation
<1>2. Alone(t) /\ thr'[t] = x BY <1>1, AloneBy
<1>3. UNCHANGED <<handoff, activeHandoffToken, staged, stageAttempt, pending, removed>>
  BY DEF InstallCall, PrepareInstall, CommitAfterExit, CancelReservation, SameInstall, lifecycle
<1>4. \A u \in Threads : thr[u].pc \notin InstallPcs BY DEF NoInstallCall
<1>5. OneInstallCall' BY <1>2, <1>4 DEF OneInstallCall, Alone
<1>6. ReservationTracked'
  BY <1>3, <1>4, InstallPcNames DEF SerialInv, ReservationTracked, InstallInProgress
<1>7. PendingIsActive'
  BY <1>1, <1>2, <1>3, <1>4, InstallPcNames
     DEF SerialInv, PendingIsActive, Alone, InstallInProgress
<1>8. NothingOffered' BY <1>3 DEF SerialInv, NothingOffered, InstallInProgress
<1>9. AttemptsDiffer'
  BY <1>1, <1>2, <1>3, InstallPcNames DEF SerialInv, AttemptsDiffer, Alone
<1>10. StagesDiffer'
  BY <1>1, <1>2, <1>3, InstallPcNames DEF SerialInv, StagesDiffer, Alone
<1> QED BY <1>5, <1>6, <1>7, <1>8, <1>9, <1>10 DEF Serially

(* A new check or stage attempt drops the stage and takes a new attempt    *)
(* number.                                                                 *)
LEMMA SerialBegin ==
    ASSUME SerialInv, NEW t \in Threads, CheckForUpdate(t) \/ DownloadVerifyAndStage(t)
    PROVE  Serially'
<1>1. /\ stageAttempt' = stageAttempt + 1 /\ staged' = NoStage /\ thr[t].pc = "idle"
      /\ UNCHANGED <<handoff, activeHandoffToken, pending, removed>>
  BY Increments DEF CheckForUpdate, BeginCheck, DownloadVerifyAndStage, BeginStage, Counted,
     ClearStage, SameHandoff, SameInstall, SerialInv, ClientInv, TypeOK, Counters, NumbersTaken
<1>2. /\ Alone(t) /\ thr'[t].pc \in {"idle", "checking", "staging"}
      /\ thr'[t].pc = "staging" => thr'[t].lease.attempt = stageAttempt'
  <2>1. CASE Returns(t) BY <2>1, ReturnsAlone
  <2>2. CASE CheckForUpdate(t) /\ ~InstallInProgress
    <3> DEFINE lease == [generation |-> selectionGeneration', attempt |-> 0,
                         check |-> NoRelease]
               z == At("checking", lease, NoSnapshot, NoHandoff)
    <3>1. Goes(t, z) BY <2>2 DEF CheckForUpdate
    <3>2. selectionGeneration' \in Nat
      BY <2>2 DEF CheckForUpdate, BeginCheck, IncrementNonzero, SerialInv, ClientInv, TypeOK,
         Counters
    <3>3. lease \in StageLease BY <3>2 DEF StageLease, CheckResults
    <3>4. z \in Thread /\ z.pc = "checking" BY <3>3, EmptyTypes DEF At, Thread
    <3> QED BY <3>1, <3>4, AloneBy
  <2>3. CASE DownloadVerifyAndStage(t) /\ BeginStageAllowed /\ check # NoRelease
    <3> DEFINE lease == [generation |-> selectionGeneration, attempt |-> stageAttempt',
                         check |-> check]
               z == At("staging", lease, NoSnapshot, NoHandoff)
    <3>1. Goes(t, z) BY <2>3 DEF DownloadVerifyAndStage
    <3>2. lease \in StageLease BY <1>1 DEF StageLease, SerialInv, ClientInv, TypeOK, Counters
    <3>3. z \in Thread /\ z.pc = "staging" /\ z.lease.attempt = stageAttempt'
      BY <3>2, EmptyTypes DEF At, Thread
    <3> QED BY <3>1, <3>3, AloneBy
  <2> QED BY <2>1, <2>2, <2>3 DEF CheckForUpdate, DownloadVerifyAndStage
<1>3. \A u \in Threads : thr'[u].pc \in HandoffPcs \cup {"committing", "cancelling", "clearing"}
        => thr'[u] = thr[u]
  BY <1>2, InstallPcNames DEF Alone
<1>4. OneInstallCall'
  BY <1>2, InstallPcNames DEF SerialInv, OneInstallCall, Alone
<1>5. ReservationTracked'
  BY <1>1, <1>2, InstallPcNames DEF SerialInv, ReservationTracked, InstallInProgress, Alone
<1>6. PendingIsActive'
  BY <1>1, <1>2, InstallPcNames DEF SerialInv, PendingIsActive, InstallInProgress, Alone
<1>7. NothingOffered' BY <1>1 DEF NothingOffered
<1>8. NoStage.attempt = 0 BY DEF NoStage
<1>9. \A u \in Threads :
        /\ thr[u].lease.attempt \in Nat /\ thr[u].lease.attempt < stageAttempt'
        /\ thr[u].pc \in HandoffPcs => thr[u].handoff.staged.attempt < stageAttempt'
  BY <1>1, ThreadFields
     DEF SerialInv, ClientInv, NumbersTaken, HandoffRestorable, TypeOK, Counters
<1>10. /\ pending.staged.attempt \in Nat /\ pending.staged.attempt < stageAttempt'
       /\ \A s \in removed : s.attempt \in Nat /\ s.attempt < stageAttempt'
  BY <1>1 DEF SerialInv, ClientInv, TypeOK, Counters, StagesDiffer, InstallHandoff, Stage
<1>11. AttemptsDiffer'
  <2> SUFFICES ASSUME NEW u \in Threads, thr'[u].pc = "staging"
               PROVE  /\ thr'[u].lease.attempt \notin {0, staged'.attempt, pending'.staged.attempt}
                      /\ \A s \in removed' : s.attempt # thr'[u].lease.attempt
                      /\ \A v \in Threads :
                            /\ thr'[v].pc \in HandoffPcs =>
                                  thr'[v].handoff.staged.attempt # thr'[u].lease.attempt
                            /\ thr'[v].pc = "staging" /\ v # u =>
                                  thr'[v].lease.attempt # thr'[u].lease.attempt
    BY DEF AttemptsDiffer
  <2>1. CASE u = t
    <3>1. thr'[u].lease.attempt = stageAttempt' /\ stageAttempt' # 0
      BY <1>1, <1>2, <2>1 DEF SerialInv, ClientInv, TypeOK, Counters
    <3>2. thr'[u].lease.attempt \notin {0, staged'.attempt, pending'.staged.attempt}
      BY <1>1, <1>8, <1>10, <3>1 DEF SerialInv, ClientInv, TypeOK, Counters
    <3>3. \A s \in removed' : s.attempt # thr'[u].lease.attempt
      BY <1>1, <1>10, <3>1 DEF SerialInv, ClientInv, TypeOK, Counters
    <3>4. \A v \in Threads : thr'[v].pc \in HandoffPcs =>
             thr'[v].handoff.staged.attempt # thr'[u].lease.attempt
      <4> SUFFICES ASSUME NEW v \in Threads, thr'[v].pc \in HandoffPcs
                   PROVE  thr'[v].handoff.staged.attempt # stageAttempt'
        BY <3>1
      <4>1. thr'[v] = thr[v] BY <1>3
      <4>2. thr[v].handoff.staged.attempt \in Nat
        BY ThreadFields DEF SerialInv, ClientInv, Stage
      <4> QED BY <1>1, <1>9, <4>1, <4>2 DEF SerialInv, ClientInv, TypeOK, Counters
    <3>5. \A v \in Threads : v # u => thr'[v].lease.attempt # thr'[u].lease.attempt
      BY <1>1, <1>2, <1>9, <2>1, <3>1 DEF Alone, SerialInv, ClientInv, TypeOK, Counters
    <3> QED BY <3>2, <3>3, <3>4, <3>5
  <2>2. CASE u # t
    <3>1. thr'[u] = thr[u] BY <1>2, <2>2 DEF Alone
    <3>2. thr[u].lease.attempt # stageAttempt' BY <1>9
    <3> QED
      BY <1>1, <1>2, <1>3, <1>8, <2>2, <3>1, <3>2, InstallPcNames
         DEF SerialInv, AttemptsDiffer, Alone
  <2> QED BY <2>1, <2>2
<1>12. StagesDiffer'
  BY <1>1, <1>3, <1>8, <1>10 DEF SerialInv, StagesDiffer, ClientInv, TypeOK, Counters
<1> QED BY <1>4, <1>5, <1>6, <1>7, <1>11, <1>12 DEF Serially

(* A published stage has a number no other stage has.                      *)
LEMMA SerialPublish ==
    ASSUME SerialInv, NEW t \in Threads, StageCompletes(t)
    PROVE  Serially'
<1> DEFINE a == thr[t].lease.attempt
<1>1. /\ Returns(t) /\ thr[t].pc = "staging"
      /\ UNCHANGED <<handoff, activeHandoffToken, stageAttempt, pending, removed>>
  BY DEF StageCompletes, PublishStage, SameHandoff, SameInstall, lifecycle
<1>2. CASE ~PublishStageAllowed(thr[t].lease)
  <2>1. UNCHANGED staged BY <1>2 DEF StageCompletes, lifecycle
  <2> QED BY <1>1, <2>1, SerialReturn, InstallPcNames
<1>3. CASE PublishStageAllowed(thr[t].lease)
  <2>1. staged'.attempt = a /\ handoff = "none"
    BY <1>3 DEF StageCompletes, PublishStage, PublishStageAllowed, InstallInProgress
  <2>2. Alone(t) /\ thr'[t].pc = "idle" BY <1>1, ReturnsAlone
  <2>3. \A u \in Threads : thr[u].pc \notin HandoffPcs /\ thr'[u].pc \notin HandoffPcs
    BY <2>1, <2>2, InstallPcNames DEF SerialInv, ClientInv, SingleHandoff, Alone
  <2>4. /\ a \notin {0, pending.staged.attempt}
        /\ \A s \in removed : s.attempt # a
        /\ \A u \in Threads : thr[u].pc = "staging" /\ u # t => thr[u].lease.attempt # a
    BY <1>1 DEF SerialInv, AttemptsDiffer
  <2> HIDE DEF a
  <2>5. OneInstallCall' BY <2>2, InstallPcNames DEF SerialInv, OneInstallCall, Alone
  <2>6. ReservationTracked' /\ NothingOffered'
    BY <1>1, <2>1 DEF ReservationTracked, NothingOffered, InstallInProgress
  <2>7. PendingIsActive'
    BY <1>1, <2>2, InstallPcNames DEF SerialInv, PendingIsActive, Alone, InstallInProgress
  <2>8. AttemptsDiffer'
    BY <1>1, <2>1, <2>2, <2>3, <2>4 DEF SerialInv, AttemptsDiffer, Alone
  <2>9. StagesDiffer'
    BY <1>1, <2>1, <2>3, <2>4 DEF SerialInv, StagesDiffer
  <2> QED BY <2>5, <2>6, <2>7, <2>8, <2>9 DEF Serially
<1> QED BY <1>2, <1>3

(* BeginInstall finds nothing pending and takes the stage that was offered. *)
LEMMA SerialTake ==
    ASSUME SerialInv, NEW t \in Threads, ValidationSucceeds(t)
    PROVE  Serially'
<1>1. CASE ~BeginInstallAllowed(thr[t].snap)
  BY <1>1, SerialReturn, InstallPcNames DEF ValidationSucceeds, SameInstall, lifecycle
<1>2. CASE BeginInstallAllowed(thr[t].snap)
  <2> DEFINE x == At("scheduling", NoLease, thr[t].snap, TakenHandoff)
  <2>1. /\ Goes(t, x) /\ thr[t].pc = "validating" /\ BeginInstall(thr[t].snap)
        /\ UNCHANGED <<pending, removed>>
    BY <1>2 DEF ValidationSucceeds, SameInstall
  <2>2. /\ handoff = "none" /\ staged # NoStage /\ handoff' = "scheduling"
        /\ staged' = NoStage /\ stageAttempt' = stageAttempt
    BY <1>2, <2>1 DEF BeginInstall, BeginInstallAllowed, ClearStage, InstallInProgress
  <2>3. TakenHandoff \in InstallHandoff /\ TakenHandoff.staged = staged
    BY DEF TakenHandoff, InstallHandoff, IncrementNonzero, SerialInv, ClientInv, TypeOK, Counters
  <2>4. x \in Thread /\ x.pc = "scheduling" /\ x.handoff.staged = staged
    BY <2>3, EmptyTypes, ThreadFields DEF SerialInv, ClientInv, At, Thread, InstallPcs, HandoffPcs
  <2>5. Alone(t) /\ thr'[t] = x BY <2>1, <2>4, AloneBy
  <2> HIDE DEF x
  <2>6. \A u \in Threads : u # t => thr[u].pc \notin InstallPcs /\ thr'[u].pc \notin InstallPcs
    BY <2>1, <2>5, InstallPcNames DEF SerialInv, OneInstallCall, Alone
  <2>7. pending = NoHandoff
    BY <2>1, <2>2, <2>6, InstallPcNames DEF SerialInv, PendingIsActive, InstallInProgress
  <2>8. OneInstallCall' BY <2>6 DEF OneInstallCall
  <2>9. ReservationTracked' BY <2>4, <2>5, InstallPcNames DEF ReservationTracked
  <2>10. PendingIsActive'
    BY <2>1, <2>4, <2>5, <2>6, <2>7, InstallPcNames DEF PendingIsActive
  <2>11. NothingOffered' BY <2>2 DEF NothingOffered
  <2>12. NoStage.attempt = 0 /\ NoHandoff.staged.attempt = 0
    BY DEF NoStage, NoHandoff
  <2>13. AttemptsDiffer'
    BY <2>1, <2>2, <2>4, <2>5, <2>6, <2>7, <2>12, InstallPcNames
       DEF SerialInv, AttemptsDiffer, Alone
  <2>14. StagesDiffer'
    BY <2>1, <2>2, <2>4, <2>5, <2>6, <2>7, <2>12, InstallPcNames DEF SerialInv, StagesDiffer
  <2> QED BY <2>8, <2>9, <2>10, <2>11, <2>13, <2>14 DEF Serially
<1> QED BY <1>1, <1>2

(* A rollback gives back a stage that was not removed, or nothing.         *)
LEMMA SerialRollback ==
    ASSUME SerialInv, NEW t \in Threads, HandoffFails(t)
    PROVE  Serially'
<1> DEFINE h == thr[t].handoff
<1>1. /\ Returns(t) /\ thr[t].pc = "scheduling" /\ RollbackInstall(h)
      /\ UNCHANGED <<pending, removed>>
  BY DEF HandoffFails, SameInstall
<1>2. IsScheduling(h)
  BY <1>1, InstallPcNames
     DEF IsScheduling, OwnsHandoff, InstallInProgress, SerialInv, ClientInv, SingleHandoff
<1>3. /\ handoff' = "none" /\ stageAttempt' = stageAttempt
      /\ staged' \in {h.staged, staged}
  BY <1>1, <1>2 DEF RollbackInstall, SameSelection, SameStage, RestoreStage
<1>4. /\ staged = NoStage /\ pending = NoHandoff /\ NoStage.attempt = 0
      /\ NoHandoff.staged.attempt = 0
  BY <1>1, <1>2, InstallPcNames
     DEF SerialInv, NothingOffered, PendingIsActive, IsScheduling, OwnsHandoff, NoStage, NoHandoff
<1>5. /\ h.staged.attempt # 0
      /\ \A s \in removed : s.attempt # h.staged.attempt
      /\ \A u \in Threads : thr[u].pc = "staging" =>
            thr[u].lease.attempt # h.staged.attempt
  BY <1>1, InstallPcNames DEF SerialInv, StagesDiffer, AttemptsDiffer
<1> HIDE DEF h
<1>6. Alone(t) /\ thr'[t].pc = "idle" BY <1>1, ReturnsAlone
<1>7. \A u \in Threads : thr'[u].pc \notin InstallPcs
  BY <1>1, <1>6, InstallPcNames DEF SerialInv, OneInstallCall, Alone
<1>8. OneInstallCall' BY <1>7 DEF OneInstallCall
<1>9. ReservationTracked' /\ NothingOffered'
  BY <1>3 DEF ReservationTracked, NothingOffered, InstallInProgress
<1>10. PendingIsActive' BY <1>1, <1>4, <1>7, InstallPcNames DEF PendingIsActive
<1>11. AttemptsDiffer'
  BY <1>1, <1>3, <1>4, <1>5, <1>6, <1>7, InstallPcNames DEF SerialInv, AttemptsDiffer, Alone
<1>12. StagesDiffer'
  BY <1>1, <1>3, <1>4, <1>5, <1>7, InstallPcNames DEF SerialInv, StagesDiffer
<1> QED BY <1>8, <1>9, <1>10, <1>11, <1>12 DEF Serially

LEMMA SerialConfirm ==
    ASSUME SerialInv, NEW t \in Threads, HandoffSucceeds(t)
    PROVE  Serially'
<1> DEFINE x == At("confirmed", NoLease, thr[t].snap, thr[t].handoff)
<1>1. thr[t].pc = "scheduling" /\ UNCHANGED <<pending, removed>>
  BY DEF HandoffSucceeds, SameInstall
<1>2. IsScheduling(thr[t].handoff)
  BY <1>1, InstallPcNames
     DEF IsScheduling, OwnsHandoff, InstallInProgress, SerialInv, ClientInv, SingleHandoff
<1>3. /\ Goes(t, x) /\ staged' = staged /\ stageAttempt' = stageAttempt
      /\ handoff = "scheduling" /\ handoff' = "confirmed"
  BY <1>2 DEF HandoffSucceeds, ConfirmInstall, SameSelection, SameStage, IsScheduling
<1>4. x \in Thread /\ x.pc = "confirmed" /\ x.handoff = thr[t].handoff
  BY EmptyTypes, ThreadFields DEF SerialInv, ClientInv, At, Thread, InstallPcs, HandoffPcs
<1>5. Alone(t) /\ thr'[t] = x BY <1>3, <1>4, AloneBy
<1> HIDE DEF x
<1>6. OneInstallCall' BY <1>1, <1>4, <1>5, InstallPcNames DEF SerialInv, OneInstallCall, Alone
<1>7. ReservationTracked' BY <1>4, <1>5, InstallPcNames DEF ReservationTracked
<1>8. \A u \in Threads : u # t => thr'[u].pc \notin InstallPcs
  BY <1>1, <1>5, InstallPcNames DEF SerialInv, OneInstallCall, Alone
<1>9. pending = NoHandoff BY <1>1, InstallPcNames DEF SerialInv, PendingIsActive
<1>10. PendingIsActive'
  BY <1>1, <1>4, <1>5, <1>8, <1>9, InstallPcNames DEF PendingIsActive
<1>11. NothingOffered' BY <1>3 DEF SerialInv, NothingOffered, InstallInProgress
<1>12. AttemptsDiffer'
  BY <1>1, <1>3, <1>4, <1>5, <1>8, InstallPcNames DEF SerialInv, AttemptsDiffer, Alone
<1>13. StagesDiffer'
  BY <1>1, <1>3, <1>4, <1>5, <1>8, InstallPcNames DEF SerialInv, StagesDiffer, Alone
<1> QED BY <1>6, <1>7, <1>10, <1>11, <1>12, <1>13 DEF Serially

(* The reservation recorded is the active handoff's.                       *)
LEMMA SerialRecord ==
    ASSUME SerialInv, NEW t \in Threads, RecordReservation(t)
    PROVE  Serially'
<1> DEFINE h == thr[t].handoff
<1>1. /\ Returns(t) /\ thr[t].pc = "confirmed" /\ pending' = h
      /\ UNCHANGED <<lifecycle, removed>>
  BY DEF RecordReservation
<1>2. UNCHANGED <<handoff, activeHandoffToken, staged, stageAttempt>>
  BY <1>1 DEF lifecycle
<1>3. /\ InstallInProgress /\ h.token = activeHandoffToken /\ h.token # 0
      /\ h.staged.attempt # 0 /\ h.staged.attempt <= stageAttempt
  BY <1>1, ThreadFields, InstallPcNames
     DEF SerialInv, ClientInv, SingleHandoff, StagesDiffer, HandoffRestorable, NumbersTaken,
         InstallInProgress
<1>4. h # NoHandoff /\ staged = NoStage /\ NoStage.attempt = 0
  BY <1>3 DEF NoHandoff, SerialInv, NothingOffered, NoStage
<1>5. /\ \A s \in removed : s.attempt # h.staged.attempt
      /\ \A u \in Threads : thr[u].pc = "staging" =>
            thr[u].lease.attempt # h.staged.attempt
  BY <1>1, InstallPcNames DEF SerialInv, StagesDiffer, AttemptsDiffer
<1> HIDE DEF h
<1>6. Alone(t) /\ thr'[t].pc = "idle" BY <1>1, ReturnsAlone
<1>7. \A u \in Threads : thr'[u].pc \notin InstallPcs
  BY <1>1, <1>6, InstallPcNames DEF SerialInv, OneInstallCall, Alone
<1>8. OneInstallCall' BY <1>7 DEF OneInstallCall
<1>9. ReservationTracked' BY <1>1, <1>2, <1>3 DEF ReservationTracked
<1>10. PendingIsActive'
  BY <1>1, <1>2, <1>3, <1>7, InstallPcNames DEF PendingIsActive, InstallInProgress
<1>11. NothingOffered' BY <1>2, <1>4 DEF NothingOffered
<1>12. AttemptsDiffer'
  BY <1>1, <1>2, <1>5, <1>6, <1>7, InstallPcNames DEF SerialInv, AttemptsDiffer, Alone
<1>13. StagesDiffer'
  BY <1>1, <1>2, <1>3, <1>4, <1>5, <1>7, InstallPcNames DEF SerialInv, StagesDiffer
<1> QED BY <1>8, <1>9, <1>10, <1>11, <1>12, <1>13 DEF Serially

(* A commit or a cancellation ends the handoff that is pending.            *)
LEMMA SerialEnd ==
    ASSUME SerialInv, NEW t \in Threads, CommitAccepted(t) \/ CancelAccepted(t)
    PROVE  Serially'
<1>1. /\ thr[t].pc \in {"committing", "cancelling"} /\ CompleteInstall(pending)
      /\ UNCHANGED removed
  BY DEF CommitAccepted, CancelAccepted, SameInstall
<1>2. \A u \in Threads : u # t => thr[u].pc \notin InstallPcs
  BY <1>1, InstallPcNames DEF SerialInv, OneInstallCall
<1>3. /\ InstallInProgress /\ pending.token = activeHandoffToken /\ pending # NoHandoff
  BY <1>1, <1>2, InstallPcNames DEF SerialInv, PendingIsActive
<1>4. OwnsHandoff(pending)
  BY <1>3 DEF OwnsHandoff, SerialInv, ClientInv, TypeOK
<1>5. handoff' = "none" /\ staged' = staged /\ stageAttempt' = stageAttempt
  BY <1>1, <1>4 DEF CompleteInstall, SameSelection, SameStage
<1>6. /\ Alone(t)
      /\ \/ pending' = NoHandoff /\ thr'[t].pc = "idle"
         \/ pending' = pending /\ thr'[t].pc = "clearing"
  <2>1. CASE CancelAccepted(t) BY <2>1, ReturnsAlone DEF CancelAccepted
  <2>2. CASE CommitAccepted(t)
    <3>1. Goes(t, Inside("clearing")) /\ pending' = pending
      BY <1>4, <2>2 DEF CommitAccepted, SameInstall
    <3>2. Inside("clearing") \in Thread /\ Inside("clearing").pc = "clearing"
      BY EmptyTypes DEF Inside, At, Thread, InstallPcs
    <3> QED BY <3>1, <3>2, AloneBy
  <2> QED BY <2>1, <2>2
<1>7. OneInstallCall' BY <1>2, <1>6, InstallPcNames DEF OneInstallCall, Alone
<1>8. ReservationTracked' /\ NothingOffered'
  BY <1>5 DEF ReservationTracked, NothingOffered, InstallInProgress
<1>9. PendingIsActive'
  BY <1>2, <1>3, <1>5, <1>6, InstallPcNames DEF PendingIsActive, Alone, InstallInProgress
<1>10. NoHandoff.staged.attempt = 0 BY DEF NoHandoff, NoStage
<1>11. AttemptsDiffer'
  BY <1>1, <1>5, <1>6, <1>10, InstallPcNames DEF SerialInv, AttemptsDiffer, Alone
<1>12. StagesDiffer'
  BY <1>1, <1>5, <1>6, <1>10, InstallPcNames
     DEF SerialInv, StagesDiffer, Alone, ClientInv, TypeOK, Counters
<1> QED BY <1>7, <1>8, <1>9, <1>11, <1>12 DEF Serially

(* The stage a commit removes is offered nowhere.                          *)
LEMMA SerialClear ==
    ASSUME SerialInv, NEW t \in Threads, CommitClears(t)
    PROVE  Serially'
<1>1. /\ thr[t].pc = "clearing" /\ Returns(t) /\ pending' = NoHandoff
      /\ removed' \subseteq removed \cup {pending.staged}
      /\ UNCHANGED <<handoff, activeHandoffToken, staged, stageAttempt>>
  BY DEF CommitClears, lifecycle
<1>2. ~InstallInProgress /\ pending # NoHandoff
  BY <1>1 DEF SerialInv, PendingIsActive
<1>3. Alone(t) /\ thr'[t].pc = "idle" BY <1>1, ReturnsAlone
<1>4. \A u \in Threads : thr'[u].pc \notin InstallPcs
  BY <1>1, <1>3, InstallPcNames DEF SerialInv, OneInstallCall, Alone
<1>5. OneInstallCall' BY <1>4 DEF OneInstallCall
<1>6. ReservationTracked' /\ NothingOffered'
  BY <1>1, <1>2 DEF ReservationTracked, NothingOffered, InstallInProgress
<1>7. PendingIsActive' BY <1>1, <1>4, InstallPcNames DEF PendingIsActive
<1>8. NoHandoff.staged.attempt = 0 BY DEF NoHandoff, NoStage
<1>9. AttemptsDiffer'
  BY <1>1, <1>3, <1>4, <1>8, InstallPcNames DEF SerialInv, AttemptsDiffer, Alone
<1>10. StagesDiffer'
  BY <1>1, <1>2, <1>4, <1>8, InstallPcNames
     DEF SerialInv, StagesDiffer, ClientInv, TypeOK, Counters
<1> QED BY <1>5, <1>6, <1>7, <1>9, <1>10 DEF Serially

-----------------------------------------------------------------------------
LEMMA SerialNextIsNext == SerialNext => Next
BY DEF SerialNext, Next

LEMMA InitSerialInv == Init => SerialInv
<1> SUFFICES ASSUME Init PROVE SerialInv OBVIOUS
<1>1. \A t \in Threads : thr[t].pc = "idle" BY DEF Init, Idle, Inside, At
<1>2. /\ pending = NoHandoff /\ removed = {} /\ handoff = "none" /\ staged = NoStage
      /\ stageAttempt = 0 /\ NoHandoff.staged.attempt = 0
  BY DEF Init, LifecycleInit, NoHandoff, NoStage
<1>3. OneInstallCall /\ PendingIsActive /\ AttemptsDiffer
  BY <1>1, <1>2, InstallPcNames DEF OneInstallCall, PendingIsActive, AttemptsDiffer
<1>4. ReservationTracked /\ NothingOffered /\ StagesDiffer
  BY <1>1, <1>2, InstallPcNames
     DEF ReservationTracked, NothingOffered, InstallInProgress, StagesDiffer
<1> QED BY <1>3, <1>4, InitClientInv DEF SerialInv

(* With one install call of the host at a time SerialInv is kept, however  *)
(* checks and stage attempts of the other threads interleave with it.      *)
THEOREM SerialInvHolds == SerialSpec => []SerialInv
<1>1. ASSUME SerialInv, [SerialNext]_vars PROVE SerialInv'
  <2>1. ClientInv'
    BY <1>1, SerialNextIsNext, NextPreserves DEF SerialInv
  <2>2. CASE UNCHANGED vars
    <3>1. UNCHANGED <<thr, pending, removed, handoff, activeHandoffToken, staged, stageAttempt>>
      BY <2>2 DEF vars, lifecycle
    <3> QED
      BY <1>1, <2>1, <3>1 DEF SerialInv, OneInstallCall, ReservationTracked, PendingIsActive,
         NothingOffered, AttemptsDiffer, StagesDiffer, InstallInProgress
  <2>3. ASSUME NEW t \in Threads, CheckStep(t) PROVE Serially'
    <3>1. CASE CheckCompletes(t) \/ CheckThrows(t)
      <4>1. Returns(t) /\ thr[t].pc \notin HandoffPcs \cup {"clearing"}
        BY <3>1, InstallPcNames DEF CheckCompletes, CheckThrows
      <4>2. UNCHANGED <<handoff, activeHandoffToken, staged, stageAttempt, pending, removed>>
        BY <3>1 DEF CheckCompletes, CheckThrows, PublishCheck, SameHandoff, SameInstall, lifecycle
      <4> QED BY <1>1, <4>1, <4>2, SerialReturn
    <3> QED BY <1>1, <2>3, <3>1, SerialBegin DEF CheckStep
  <2>4. ASSUME NEW t \in Threads, StageStep(t) PROVE Serially'
    <3>1. CASE StageFails(t)
      BY <1>1, <3>1, SerialReturn, InstallPcNames DEF StageFails, SameInstall, lifecycle
    <3> QED BY <1>1, <2>4, <3>1, SerialBegin, SerialPublish DEF StageStep
  <2>5. ASSUME NEW t \in Threads, InstallStep(t) PROVE Serially'
    <3>1. CASE ValidationFails(t) \/ HelperRefuses(t)
      BY <1>1, <3>1, SerialReturn, InstallPcNames
         DEF ValidationFails, HelperRefuses, SameInstall, lifecycle
    <3> QED
      BY <1>1, <2>5, <3>1, SerialTake, SerialRollback, SerialConfirm, SerialRecord, SerialEnd,
         SerialClear DEF InstallStep
  <2>6. CASE SerialNext
    <3>1. Serially' BY <1>1, <2>3, <2>4, <2>5, <2>6, SerialCall DEF SerialNext
    <3> QED BY <2>1, <3>1 DEF SerialInv, Serially
  <2> QED BY <1>1, <2>2, <2>6
<1> QED BY <1>1, InitSerialInv, PTL DEF SerialSpec

(* A host that makes one install call at a time never loses a reservation: *)
(* while an install is in progress, CommitAfterExit and CancelReservation  *)
(* can still end it (PrepareInstall writes the pending fields late).       *)
THEOREM ReservationsAreTracked == SerialSpec => []ReservationTracked
<1>1. SerialInv => ReservationTracked BY DEF SerialInv
<1> QED BY <1>1, SerialInvHolds, PTL

(* For such a host a stage directory that CommitAfterExit removed is never *)
(* offered, handed over or reserved again.                                 *)
THEOREM RemovedStagesStayAway == SerialSpec => []RemovedStageNeverOffered
<1>1. SerialInv => RemovedStageNeverOffered
  BY DEF SerialInv, StagesDiffer, RemovedStageNeverOffered
<1> QED BY <1>1, SerialInvHolds, PTL
=============================================================================
