--------------------------- MODULE ClientLifecycle ---------------------------
(***************************************************************************)
(* ClientLifecycleState: the state, shared by the threads of a host        *)
(* application, that ties a staged update to the check that selected it    *)
(* and hands it to the install helper once.  Every method runs under one   *)
(* mutex, so a method is one step; the update client that calls them, and  *)
(* what happens between two calls, is module UpdateClient.                 *)
(***************************************************************************)
EXTENDS Naturals

CONSTANTS Releases,    \* releases a check may find
          NoRelease,   \* no verified descriptor
          Modulus      \* the counters' range (2^64 in the code)

ASSUME ReleaseAssumption == NoRelease \notin Releases
ASSUME ModulusAssumption == Modulus \in Nat /\ Modulus > 2

VARIABLES check,                \* the release of the published check
          selectionGeneration,
          checkGeneration,
          stageAttempt,
          staged,               \* the published stage
          stagedGeneration,
          stagedAttempt,
          handoff,              \* none, scheduling or confirmed
          nextHandoffToken,
          activeHandoffToken

lifecycle == <<check, selectionGeneration, checkGeneration, stageAttempt, staged,
               stagedGeneration, stagedAttempt, handoff, nextHandoffToken,
               activeHandoffToken>>

CheckResults == Releases \cup {NoRelease}

(* A stage directory: what was unpacked into it, and for which attempt (a  *)
(* path is fresh for every attempt).                                       *)
Stage == [release : CheckResults, attempt : Nat]

NoStage == [release |-> NoRelease, attempt |-> 0]

CheckLease == [generation : Nat]

StageLease == [generation : Nat, attempt : Nat, check : CheckResults]

InstallHandoff == [token : Nat, generation : Nat, attempt : Nat, staged : Stage]

NoHandoff == [token |-> 0, generation |-> 0, attempt |-> 0, staged |-> NoStage]

LifecycleInit ==
    /\ check = NoRelease
    /\ selectionGeneration = 0
    /\ checkGeneration = 0
    /\ stageAttempt = 0
    /\ staged = NoStage
    /\ stagedGeneration = 0
    /\ stagedAttempt = 0
    /\ handoff = "none"
    /\ nextHandoffToken = 0
    /\ activeHandoffToken = 0

InstallInProgress == handoff # "none"

(* uint64 increment that skips 0 when it wraps.                            *)
IncrementNonzero(n) == IF n + 1 = Modulus THEN 1 ELSE n + 1

ClearStage ==
    /\ staged' = NoStage
    /\ stagedGeneration' = 0
    /\ stagedAttempt' = 0

SameHandoff == UNCHANGED <<handoff, nextHandoffToken, activeHandoffToken>>

-----------------------------------------------------------------------------
(* BeginCheck drops the selection and the stage even when it is refused.   *)
BeginCheck ==
    /\ selectionGeneration' = IncrementNonzero(selectionGeneration)
    /\ check' = NoRelease
    /\ checkGeneration' = 0
    /\ stageAttempt' = IncrementNonzero(stageAttempt)
    /\ ClearStage
    /\ SameHandoff

PublishCheckAllowed(lease) ==
    ~InstallInProgress /\ lease.generation = selectionGeneration

PublishCheck(lease, result) ==
    /\ PublishCheckAllowed(lease)
    /\ check' = result
    /\ checkGeneration' = lease.generation
    /\ UNCHANGED <<selectionGeneration, stageAttempt, staged, stagedGeneration,
                   stagedAttempt>>
    /\ SameHandoff

(* BeginStage drops the stage even when it is refused.                     *)
BeginStage ==
    /\ stageAttempt' = IncrementNonzero(stageAttempt)
    /\ ClearStage
    /\ UNCHANGED <<check, selectionGeneration, checkGeneration>>
    /\ SameHandoff

BeginStageAllowed ==
    /\ ~InstallInProgress
    /\ selectionGeneration # 0 /\ checkGeneration # 0
    /\ checkGeneration = selectionGeneration

(* Mutated PublishStageAllowed: the attempt is not compared.               *)
PublishStageAllowedAnyAttempt(lease) ==
    /\ ~InstallInProgress
    /\ lease.generation = selectionGeneration
    /\ lease.generation = checkGeneration

(* PublishStage and PublishFilesystemStage.                                *)
PublishStageAllowed(lease) ==
    /\ ~InstallInProgress
    /\ lease.generation = selectionGeneration
    /\ lease.generation = checkGeneration
    /\ lease.attempt = stageAttempt

PublishStage(lease, stage) ==
    /\ PublishStageAllowed(lease)
    /\ staged' = stage
    /\ stagedGeneration' = lease.generation
    /\ stagedAttempt' = lease.attempt
    /\ UNCHANGED <<check, selectionGeneration, checkGeneration, stageAttempt>>
    /\ SameHandoff

-----------------------------------------------------------------------------
Snapshots == [check : CheckResults, staged : Stage, selectionGeneration : Nat,
              checkGeneration : Nat, stageAttempt : Nat, stagedGeneration : Nat,
              stagedAttempt : Nat]

Snapshot ==
    [check |-> check, staged |-> staged,
     selectionGeneration |-> selectionGeneration,
     checkGeneration |-> checkGeneration, stageAttempt |-> stageAttempt,
     stagedGeneration |-> stagedGeneration, stagedAttempt |-> stagedAttempt]

(* Mutated SnapshotCurrent: a snapshot is never compared.                  *)
SnapshotAccepted(expected) == TRUE

(* BeginInstall(expected) compares everything but the check itself.        *)
SnapshotCurrent(expected) ==
    /\ expected.staged = staged
    /\ expected.selectionGeneration = selectionGeneration
    /\ expected.checkGeneration = checkGeneration
    /\ expected.stageAttempt = stageAttempt
    /\ expected.stagedGeneration = stagedGeneration
    /\ expected.stagedAttempt = stagedAttempt

BeginInstallAllowed(expected) ==
    /\ SnapshotCurrent(expected)
    /\ ~InstallInProgress
    /\ staged # NoStage /\ stagedGeneration # 0
    /\ stagedGeneration = selectionGeneration
    /\ stagedGeneration = checkGeneration
    /\ stagedAttempt = stageAttempt

(* BeginInstallLocked: the stage leaves the shared state with the handoff. *)
BeginInstall(expected) ==
    /\ BeginInstallAllowed(expected)
    /\ nextHandoffToken' = IncrementNonzero(nextHandoffToken)
    /\ activeHandoffToken' = nextHandoffToken'
    /\ handoff' = "scheduling"
    /\ ClearStage
    /\ UNCHANGED <<check, selectionGeneration, checkGeneration, stageAttempt>>

(* The handoff BeginInstall returns.                                       *)
TakenHandoff ==
    [token |-> IncrementNonzero(nextHandoffToken), generation |-> stagedGeneration,
     attempt |-> stagedAttempt, staged |-> staged]

SameSelection == UNCHANGED <<check, selectionGeneration, checkGeneration, stageAttempt>>

SameStage == UNCHANGED <<staged, stagedGeneration, stagedAttempt>>

OwnsHandoff(h) == InstallInProgress /\ h.token # 0 /\ h.token = activeHandoffToken

IsScheduling(h) == OwnsHandoff(h) /\ handoff = "scheduling"

(* A rollback gives the stage back only if no check and no stage attempt,  *)
(* refused ones included, happened since it was taken.                     *)
CanRestore(h) ==
    /\ h.generation = selectionGeneration
    /\ h.generation = checkGeneration
    /\ h.attempt = stageAttempt

RestoreStage(h) ==
    /\ staged' = h.staged
    /\ stagedGeneration' = h.generation
    /\ stagedAttempt' = h.attempt

(* Mutated RollbackInstall: the active token outlives the install.         *)
RollbackInstallKeepingToken(h) ==
    IF IsScheduling(h)
    THEN /\ handoff' = "none"
         /\ IF CanRestore(h) THEN RestoreStage(h) ELSE SameStage
         /\ SameSelection
         /\ UNCHANGED <<nextHandoffToken, activeHandoffToken>>
    ELSE UNCHANGED lifecycle

RollbackInstall(h) ==
    IF IsScheduling(h)
    THEN /\ handoff' = "none"
         /\ activeHandoffToken' = 0
         /\ IF CanRestore(h) THEN RestoreStage(h) ELSE SameStage
         /\ SameSelection
         /\ UNCHANGED nextHandoffToken
    ELSE UNCHANGED lifecycle

ConfirmInstall(h) ==
    /\ IsScheduling(h)
    /\ handoff' = "confirmed"
    /\ SameSelection /\ SameStage
    /\ UNCHANGED <<nextHandoffToken, activeHandoffToken>>

(* Mutated CompleteInstall: the handoff completed is not compared with the *)
(* active one.                                                             *)
CompleteInstallOfAny(h) ==
    IF InstallInProgress
    THEN /\ handoff' = "none"
         /\ activeHandoffToken' = 0
         /\ SameSelection /\ SameStage
         /\ UNCHANGED nextHandoffToken
    ELSE UNCHANGED lifecycle

CompleteInstall(h) ==
    IF OwnsHandoff(h)
    THEN /\ handoff' = "none"
         /\ activeHandoffToken' = 0
         /\ SameSelection /\ SameStage
         /\ UNCHANGED nextHandoffToken
    ELSE UNCHANGED lifecycle
=============================================================================
