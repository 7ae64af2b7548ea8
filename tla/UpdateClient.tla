---------------------------- MODULE UpdateClient ----------------------------
(***************************************************************************)
(* The Linux update client: threads of the host application check for an   *)
(* update, stage it, hand the stage to the install helper, and commit or   *)
(* cancel the helper's reservation.  A call runs without a lock between    *)
(* its calls into ClientLifecycle, so a record here says where each thread *)
(* is and which lease, snapshot or handoff it still carries.  The network, *)
(* the file system and the helper are external: each of their calls ends   *)
(* in any way the client tells apart.                                      *)
(***************************************************************************)
EXTENDS ClientLifecycle

CONSTANTS Threads,
          MaxCalls     \* bound on the lifecycle calls that advance a counter

(* 2^64 calls do not happen: no counter wraps.                             *)
ASSUME CallAssumption == MaxCalls \in Nat /\ MaxCalls < Modulus

VARIABLES thr,       \* each thread's position and locals
          pending,   \* pending_handoff_ and pending_reservation_ (no lock)
          removed,   \* stages RemoveStagingDirectory deleted
          calls      \* BeginCheck, BeginStage and BeginInstall calls made so far

vars == <<lifecycle, thr, pending, removed, calls>>

NoLease == [generation |-> 0, attempt |-> 0, check |-> NoRelease]

NoSnapshot ==
    [check |-> NoRelease, staged |-> NoStage, selectionGeneration |-> 0,
     checkGeneration |-> 0, stageAttempt |-> 0, stagedGeneration |-> 0,
     stagedAttempt |-> 0]

(* Between BeginInstall and the write of the pending fields.               *)
HandoffPcs == {"scheduling", "confirmed"}

(* Inside PrepareInstall, CommitAfterExit or CancelReservation.            *)
InstallPcs == HandoffPcs \cup {"validating", "committing", "cancelling", "clearing"}

Thread == [pc : {"idle", "checking", "staging"} \cup InstallPcs,
           lease : StageLease, snap : Snapshots, handoff : InstallHandoff]

At(pc, lease, snap, taken) ==
    [pc |-> pc, lease |-> lease, snap |-> snap, handoff |-> taken]

Inside(pc) == At(pc, NoLease, NoSnapshot, NoHandoff)

Idle == Inside("idle")

Init ==
    /\ LifecycleInit
    /\ thr = [t \in Threads |-> Idle]
    /\ pending = NoHandoff
    /\ removed = {}
    /\ calls = 0

Goes(t, locals) == thr' = [thr EXCEPT ![t] = locals]

Returns(t) == Goes(t, Idle)

(* BeginCheck, BeginStage or BeginInstall.                                 *)
Counted == calls < MaxCalls /\ calls' = calls + 1

SameInstall == UNCHANGED <<pending, removed>>

-----------------------------------------------------------------------------
(* CheckForUpdate: BeginCheck, the network, PublishCheck.                  *)
CheckForUpdate(t) ==
    /\ thr[t].pc = "idle"
    /\ Counted
    /\ BeginCheck
    /\ IF InstallInProgress
       THEN Returns(t)
       ELSE Goes(t, At("checking",
                       [generation |-> selectionGeneration', attempt |-> 0,
                        check |-> NoRelease],
                       NoSnapshot, NoHandoff))
    /\ SameInstall

CheckCompletes(t) ==
    /\ thr[t].pc = "checking"
    /\ \E result \in CheckResults :
         IF PublishCheckAllowed(thr[t].lease)
         THEN PublishCheck(thr[t].lease, result)
         ELSE UNCHANGED lifecycle
    /\ Returns(t)
    /\ UNCHANGED calls /\ SameInstall

CheckThrows(t) ==
    /\ thr[t].pc = "checking"
    /\ Returns(t)
    /\ UNCHANGED <<lifecycle, calls>> /\ SameInstall

(* DownloadVerifyAndStage: BeginStage, download and unpack, PublishStage.  *)
DownloadVerifyAndStage(t) ==
    /\ thr[t].pc = "idle"
    /\ Counted
    /\ BeginStage
    /\ IF BeginStageAllowed /\ check # NoRelease
       THEN Goes(t, At("staging",
                       [generation |-> selectionGeneration,
                        attempt |-> stageAttempt', check |-> check],
                       NoSnapshot, NoHandoff))
       ELSE Returns(t)
    /\ SameInstall

StageCompletes(t) ==
    /\ thr[t].pc = "staging"
    /\ LET lease == thr[t].lease IN
         IF PublishStageAllowed(lease)
         THEN PublishStage(lease, [release |-> lease.check, attempt |-> lease.attempt])
         ELSE UNCHANGED lifecycle
    /\ Returns(t)
    /\ UNCHANGED calls /\ SameInstall

StageFails(t) ==
    /\ thr[t].pc = "staging"
    /\ Returns(t)
    /\ UNCHANGED <<lifecycle, calls>> /\ SameInstall

-----------------------------------------------------------------------------
(* PrepareInstall: Snapshot, validation on disk, BeginInstall, the         *)
(* helper's prepare, ConfirmInstall, then the pending fields.              *)
PrepareInstall(t) ==
    /\ thr[t].pc = "idle"
    /\ staged # NoStage /\ check # NoRelease
    /\ Goes(t, At("validating", NoLease, Snapshot, NoHandoff))
    /\ UNCHANGED <<lifecycle, calls>> /\ SameInstall

ValidationFails(t) ==
    /\ thr[t].pc = "validating"
    /\ Returns(t)
    /\ UNCHANGED <<lifecycle, calls>> /\ SameInstall

ValidationSucceeds(t) ==
    /\ thr[t].pc = "validating"
    /\ IF BeginInstallAllowed(thr[t].snap)
       THEN /\ BeginInstall(thr[t].snap)
            /\ Counted
            /\ Goes(t, At("scheduling", NoLease, thr[t].snap, TakenHandoff))
       ELSE UNCHANGED <<lifecycle, calls>> /\ Returns(t)
    /\ SameInstall

(* SchedulingRollbackGuard's destructor, on an error or an exception.      *)
HandoffFails(t) ==
    /\ thr[t].pc = "scheduling"
    /\ RollbackInstall(thr[t].handoff)
    /\ Returns(t)
    /\ UNCHANGED calls /\ SameInstall

HandoffSucceeds(t) ==
    /\ thr[t].pc = "scheduling"
    /\ IF IsScheduling(thr[t].handoff)
       THEN /\ ConfirmInstall(thr[t].handoff)
            /\ Goes(t, At("confirmed", NoLease, thr[t].snap, thr[t].handoff))
       ELSE UNCHANGED lifecycle /\ Returns(t)
    /\ UNCHANGED calls /\ SameInstall

RecordReservation(t) ==
    /\ thr[t].pc = "confirmed"
    /\ pending' = thr[t].handoff
    /\ Returns(t)
    /\ UNCHANGED <<lifecycle, removed, calls>>

-----------------------------------------------------------------------------
(* CommitAfterExit and CancelReservation: the helper's answer, then        *)
(* CompleteInstall, then the pending fields are cleared.                   *)
CommitAfterExit(t) ==
    /\ thr[t].pc = "idle" /\ pending # NoHandoff
    /\ Goes(t, Inside("committing"))
    /\ UNCHANGED <<lifecycle, calls>> /\ SameInstall

CancelReservation(t) ==
    /\ thr[t].pc = "idle" /\ pending # NoHandoff
    /\ Goes(t, Inside("cancelling"))
    /\ UNCHANGED <<lifecycle, calls>> /\ SameInstall

(* Mutated HelperRefuses: a refused call forgets the reservation.          *)
HelperRefusesForgetting(t) ==
    /\ thr[t].pc \in {"committing", "cancelling"}
    /\ pending' = NoHandoff
    /\ Returns(t)
    /\ UNCHANGED <<lifecycle, removed, calls>>

(* Mutated HelperRefuses: a refused call deletes the stage directory.      *)
HelperRefusesCleaning(t) ==
    /\ thr[t].pc \in {"committing", "cancelling"}
    /\ removed' = removed \cup {pending.staged}
    /\ Returns(t)
    /\ UNCHANGED <<lifecycle, pending, calls>>

HelperRefuses(t) ==
    /\ thr[t].pc \in {"committing", "cancelling"}
    /\ Returns(t)
    /\ UNCHANGED <<lifecycle, calls>> /\ SameInstall

(* A commit returns, and clears nothing, when the handoff is not active.   *)
CommitAccepted(t) ==
    /\ thr[t].pc = "committing"
    /\ CompleteInstall(pending)
    /\ IF OwnsHandoff(pending)
       THEN Goes(t, Inside("clearing"))
       ELSE Returns(t)
    /\ UNCHANGED calls /\ SameInstall

(* RemoveStagingDirectory, best effort, and the reset of the fields.       *)
CommitClears(t) ==
    /\ thr[t].pc = "clearing"
    /\ \/ removed' = removed \cup {pending.staged}
       \/ UNCHANGED removed
    /\ pending' = NoHandoff
    /\ Returns(t)
    /\ UNCHANGED <<lifecycle, calls>>

(* A cancellation ignores CompleteInstall's answer; nothing happens        *)
(* between it and the reset.                                               *)
CancelAccepted(t) ==
    /\ thr[t].pc = "cancelling"
    /\ CompleteInstall(pending)
    /\ pending' = NoHandoff
    /\ Returns(t)
    /\ UNCHANGED <<removed, calls>>

-----------------------------------------------------------------------------
CheckStep(t) ==
    \/ CheckForUpdate(t) \/ CheckCompletes(t) \/ CheckThrows(t)

StageStep(t) ==
    \/ DownloadVerifyAndStage(t) \/ StageCompletes(t) \/ StageFails(t)

InstallCall(t) ==
    \/ PrepareInstall(t) \/ CommitAfterExit(t) \/ CancelReservation(t)

InstallStep(t) ==
    \/ ValidationFails(t) \/ ValidationSucceeds(t)
    \/ HandoffFails(t) \/ HandoffSucceeds(t) \/ RecordReservation(t)
    \/ HelperRefuses(t) \/ CommitAccepted(t) \/ CommitClears(t) \/ CancelAccepted(t)

Next ==
    \E t \in Threads : CheckStep(t) \/ StageStep(t) \/ InstallCall(t) \/ InstallStep(t)

Spec == Init /\ [][Next]_vars

(* The host makes one install call at a time: nothing protects the pending *)
(* fields.  Checks and stage attempts still run concurrently.              *)
NoInstallCall == \A t \in Threads : thr[t].pc \notin InstallPcs

SerialNext ==
    \E t \in Threads :
      \/ CheckStep(t) \/ StageStep(t) \/ InstallStep(t)
      \/ NoInstallCall /\ InstallCall(t)

SerialSpec == Init /\ [][SerialNext]_vars

-----------------------------------------------------------------------------
Counters ==
    /\ selectionGeneration \in Nat /\ checkGeneration \in Nat
    /\ stageAttempt \in Nat /\ stagedGeneration \in Nat /\ stagedAttempt \in Nat
    /\ nextHandoffToken \in Nat /\ activeHandoffToken \in Nat

(* Every variable stays in its type; the active token is 0, which no       *)
(* handoff carries, exactly when install_in_progress_ is false.            *)
TypeOK ==
    /\ Counters
    /\ check \in CheckResults
    /\ staged \in Stage
    /\ handoff \in {"none", "scheduling", "confirmed"}
    /\ InstallInProgress <=> activeHandoffToken # 0
    /\ thr \in [Threads -> Thread]
    /\ pending \in InstallHandoff
    /\ removed \subseteq Stage
    /\ calls \in 0..MaxCalls

(* PublishStage, RollbackInstall: whatever checks and stage attempts were  *)
(* started, refused or overtaken while it was downloaded or offered to the *)
(* helper, the stage the client offers is the newest attempt's, and holds  *)
(* the release of the check now published.                                 *)
StagedFromCurrentCheck ==
    staged # NoStage =>
      /\ stagedGeneration = selectionGeneration
      /\ checkGeneration = selectionGeneration
      /\ stagedAttempt = stageAttempt
      /\ staged.attempt = stageAttempt
      /\ staged.release = check

(* BeginInstall(expected): the stage handed to the helper is the one the   *)
(* thread validated on disk before it took it, and the descriptor passed   *)
(* along, read from the earlier snapshot, is the one it was staged from.   *)
HandoffIsWhatWasValidated ==
    \A t \in Threads : thr[t].pc \in HandoffPcs =>
      /\ thr[t].handoff.staged = thr[t].snap.staged
      /\ thr[t].handoff.staged.release = thr[t].snap.check
      /\ thr[t].snap.check # NoRelease

(* BeginInstall, ConfirmInstall, RollbackInstall, CompleteInstall: one     *)
(* thread at a time hands a stage to the helper; until it has recorded the *)
(* reservation its token is the active one, whatever is committed or       *)
(* cancelled meanwhile, so its confirmation or rollback is never refused.  *)
SingleHandoff ==
    /\ \A t, u \in Threads :
         thr[t].pc \in HandoffPcs /\ thr[u].pc \in HandoffPcs => t = u
    /\ \A t \in Threads : thr[t].pc \in HandoffPcs =>
         /\ thr[t].handoff.token = activeHandoffToken
         /\ thr[t].handoff.token # 0
         /\ handoff = thr[t].pc

(* PrepareInstall, CommitAfterExit, CancelReservation: an install that     *)
(* blocks checks and stages (install_in_progress_) can always be ended:    *)
(* the client holds its reservation, or a thread is about to record it.    *)
ReservationTracked ==
    InstallInProgress =>
      \/ pending.token = activeHandoffToken
      \/ \E t \in Threads : thr[t].pc \in HandoffPcs

(* CommitAfterExit, RollbackInstall: a stage whose directory a commit      *)
(* deleted is never offered, handed to the helper or held as reserved.     *)
RemovedStageNeverOffered ==
    /\ staged \notin removed
    /\ pending # NoHandoff => pending.staged \notin removed
    /\ \A t \in Threads :
         thr[t].pc \in HandoffPcs => thr[t].handoff.staged \notin removed

-----------------------------------------------------------------------------
(* What StagedFromCurrentCheck, HandoffIsWhatWasValidated and              *)
(* SingleHandoff rest on: together with them these are inductive.          *)

(* No number a thread carries is ahead of the counter it was taken from.   *)
NumbersTaken ==
    /\ selectionGeneration <= calls
    /\ stageAttempt <= calls
    /\ nextHandoffToken <= calls
    /\ pending.token <= nextHandoffToken
    /\ activeHandoffToken <= nextHandoffToken
    /\ \A t \in Threads :
         /\ thr[t].lease.generation <= selectionGeneration
         /\ thr[t].handoff.generation <= selectionGeneration
         /\ thr[t].lease.attempt <= stageAttempt
         /\ thr[t].handoff.attempt <= stageAttempt

(* A check whose generation is current is alone and not yet published.     *)
CurrentCheckUnpublished ==
    /\ checkGeneration \in {0, selectionGeneration}
    /\ \A t \in Threads :
         thr[t].pc = "checking" /\ thr[t].lease.generation = selectionGeneration
           => checkGeneration = 0
    /\ \A t, u \in Threads :
         thr[t].pc = "checking" /\ thr[u].pc = "checking" /\ t # u
           => thr[t].lease.generation # thr[u].lease.generation
    /\ \A t \in Threads : thr[t].pc = "checking" => thr[t].lease.generation # 0

(* A stage attempt under the current generation unpacks the published      *)
(* check's release.                                                        *)
StagingCurrentCheck ==
    \A t \in Threads : thr[t].pc = "staging" =>
      /\ thr[t].lease.generation # 0
      /\ thr[t].lease.generation = selectionGeneration =>
           /\ checkGeneration = selectionGeneration
           /\ thr[t].lease.check = check

StagedNumbered == staged # NoStage => stagedGeneration # 0

(* What a thread validates is a stage of the descriptor it validates with. *)
SnapshotCoherent ==
    \A t \in Threads : thr[t].pc \in HandoffPcs \cup {"validating"} =>
      /\ thr[t].snap.check # NoRelease
      /\ thr[t].snap.staged.release = thr[t].snap.check

(* A stage taken by a thread can be given back if nothing newer started.   *)
HandoffRestorable ==
    \A t \in Threads : thr[t].pc \in HandoffPcs =>
      /\ thr[t].handoff.generation # 0
      /\ thr[t].handoff.staged.attempt = thr[t].handoff.attempt
      /\ thr[t].handoff.token # pending.token
      /\ thr[t].handoff.generation = selectionGeneration =>
           /\ checkGeneration = selectionGeneration
           /\ thr[t].handoff.staged.release = check

ClientInv ==
    /\ TypeOK /\ NumbersTaken /\ CurrentCheckUnpublished /\ StagingCurrentCheck
    /\ StagedFromCurrentCheck /\ StagedNumbered /\ SnapshotCoherent
    /\ HandoffIsWhatWasValidated /\ HandoffRestorable /\ SingleHandoff
=============================================================================
