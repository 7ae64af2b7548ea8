------------------------- MODULE LinuxInstallService -------------------------
(***************************************************************************)
(* One install transaction on Linux from the host application's call to    *)
(* the relaunch: the client session in the host (caller), the helper it    *)
(* starts, and the control services (helpers too) that later answer        *)
(* recoverPendingInstall for the same transaction.                         *)
(*                                                                         *)
(* The processes share the socket, the registry record and the target's    *)
(* parent directory.  Persist is one step here (TransactionRegistry has    *)
(* its system calls); so are the renames of the swap, each with the        *)
(* journal write that follows it (LinuxFileTransaction has those).         *)
(***************************************************************************)
EXTENDS TransactionStates, Naturals, Sequences

CONSTANTS Controllers,   \* control services that may run at once
          Digest,        \* the digest of this transaction's journal
          Binding,       \* the immutable fields of its record
          MaxTampers     \* how often something checked may change

ASSUME ServiceAssumption == Digest \in Journals /\ Binding \in Bindings

VARIABLES caller,    \* the host: pc and whether the process lives
          helper,    \* the owner: pc, its copy of the record, a reply owed
          wire,      \* frames on the socket, to the helper and to the caller
          expired,   \* the reservation's expiry has passed
          record,    \* the registry's record
          dir,       \* the target's parent directory
          control,   \* the control services
          defect,    \* the fact that would fail its check now, if any
          tampers,   \* how often defect has changed
          launches   \* how often the helper started the new application

vars == <<caller, helper, wire, expired, record, dir, control, defect, tampers,
          launches>>

-----------------------------------------------------------------------------
(* The checks.  At most one of the facts they establish is false at a time; *)
(* which one may change between two checks of it.                          *)
Facts == {"request", "peer", "policy", "provenance", "descriptor", "target",
          "archive", "payload"}

NoDefect == "none"

(* The request is well formed, its paths canonical and apart.              *)
RequestValid == defect # "request"

(* The process at the other end of the socket is the one the nonce was     *)
(* handed to, with the start identity, user and executable it claims.      *)
PeerProved == defect # "peer"

(* The helper's policy exists, is protected and admits package and target. *)
PolicyAdmits == defect # "policy"

(* The stage's provenance marker names this inventory and package.         *)
ProvenanceHolds == defect # "provenance"

(* The signed descriptor verifies under the policy's keys.                 *)
DescriptorHolds == defect # "descriptor"

(* The installed bundle is the one the caller runs from.                   *)
TargetProved == defect # "target"

(* The archive unpacks to exactly the signed inventory.                    *)
ArchiveHolds == defect # "archive"

(* A payload tree is the sealed one, under whatever name.                  *)
PayloadVerified == defect # "payload"

ClientChecks == RequestValid /\ ProvenanceHolds /\ TargetProved /\ PeerProved

HelperChecks ==
    /\ PeerProved /\ PolicyAdmits /\ ProvenanceHolds /\ DescriptorHolds
    /\ TargetProved /\ ArchiveHolds /\ PayloadVerified

Frames == {"reservation", "acknowledged", "rolledBack", "commitAfterExit",
           "cancelReservation"}

CallerPcs == {"idle", "reserving", "reserved", "committing", "cancelling",
              "destroying", "committed", "cancelled", "failed"}

(* The phases of the helper, in order; "ended" when the process has.       *)
HelperPcs == {"none", "authorizing", "registering", "locking", "abandoning",
              "journaling", "unwinding", "preparing", "reserving", "reading",
              "accepting", "acknowledging", "waiting", "executing", "pending",
              "attempting", "launching", "launched", "launchFailed",
              "completing", "cancelling", "rollingBack", "cleaning", "ended"}

ControlPcs == {"idle", "dispatch", "terminal", "tidyNew", "tidyOld", "inspect",
               "recover", "swap", "recovered", "consume", "topology",
               "remove", "rollBack", "settle"}

Answers == {"none", "newTarget", "oldTarget", "recoveryRequired",
            "manualActionRequired"}

(* target: the old bundle, moved to its backup name, or the new one;       *)
(* stage: the payload, under its prepared name, or gone.                   *)
Directory == [target : {"old", "away", "new"},
              stage : {"payload", "prepared", "none"},
              journal : BOOLEAN, lock : BOOLEAN, control : BOOLEAN]

NoControl == [pc |-> "idle", rec |-> NoRecord, journal |-> FALSE,
              answer |-> "none"]

TypeOK ==
    /\ caller \in [pc : CallerPcs, alive : BOOLEAN]
    /\ helper \in [pc : HelperPcs, rec : Record \cup {NoRecord}, owes : BOOLEAN]
    /\ wire \in [helper : Seq(Frames), caller : Seq(Frames)]
    /\ expired \in BOOLEAN
    /\ record \in Record \cup {NoRecord}
    /\ dir \in Directory
    /\ control \in [Controllers -> [pc : ControlPcs, rec : Record \cup {NoRecord},
                                    journal : BOOLEAN, answer : Answers]]
    /\ defect \in Facts \cup {NoDefect}
    /\ tampers \in Nat
    /\ launches \in Nat

Init ==
    /\ caller = [pc |-> "idle", alive |-> TRUE]
    /\ helper = [pc |-> "none", rec |-> NoRecord, owes |-> FALSE]
    /\ wire = [helper |-> << >>, caller |-> << >>]
    /\ expired = FALSE
    /\ record = NoRecord
    /\ dir = [target |-> "old", stage |-> "none", journal |-> FALSE,
              lock |-> FALSE, control |-> FALSE]
    /\ control = [c \in Controllers |-> NoControl]
    /\ defect \in Facts \cup {NoDefect}
    /\ tampers = 0
    /\ launches = 0

-----------------------------------------------------------------------------
(* Who is there, and the socket between caller and helper.                 *)
OwnerLives == helper.pc \notin {"none", "ended"}

CallerListens ==
    /\ caller.alive
    /\ caller.pc \in {"reserving", "reserved", "committing", "cancelling",
                      "destroying"}

SendToCaller(f) == wire' = [wire EXCEPT !.caller = Append(@, f)]

SendToHelper(f) == wire' = [wire EXCEPT !.helper = Append(@, f)]

HelperGoto(pc) == helper' = [helper EXCEPT !.pc = pc]

CallerGoto(pc) == caller' = [caller EXCEPT !.pc = pc]

(* TerminateAndReap: SIGKILL, so no destructor of the helper runs.         *)
TerminateAndReap == helper' = [helper EXCEPT !.pc = IF @ = "none" THEN @ ELSE "ended"]

SameShared == UNCHANGED <<record, dir, defect, tampers, launches>>

(* What Persist checks, and the record it leaves.                          *)
Accepts(r) == record # NoRecord => ValidTransition(record, r)

InState(r, s) == [r EXCEPT !.state = s]

-----------------------------------------------------------------------------
(* The host application: LinuxOneShotClientSession and the SDK calls.      *)

(* PrepareInstall refuses a request by itself, or cannot prove its peer.   *)
RejectRequest ==
    /\ caller.alive /\ caller.pc = "idle"
    /\ ~ClientChecks
    /\ CallerGoto("failed")
    /\ UNCHANGED <<helper, wire, expired, control>> /\ SameShared

LaunchHelper ==
    /\ caller.alive /\ caller.pc = "idle"
    /\ ClientChecks
    /\ CallerGoto("reserving")
    /\ HelperGoto("authorizing")
    /\ UNCHANGED <<wire, expired, control>> /\ SameShared

ReceiveReservation ==
    /\ caller.alive /\ caller.pc = "reserving"
    /\ wire.caller # << >> /\ ~expired
    /\ CallerGoto("reserved")
    /\ wire' = [wire EXCEPT !.caller = Tail(@)]
    /\ UNCHANGED <<helper, expired, control>> /\ SameShared

(* The startup deadline passes, or the helper ends without an answer.      *)
LaunchFails ==
    /\ caller.alive /\ caller.pc = "reserving"
    /\ CallerGoto("failed") /\ TerminateAndReap
    /\ UNCHANGED <<wire, expired, control>> /\ SameShared

(* A session leaves the table of active ones before its command is sent;   *)
(* when the write fails its destructor's does too.                         *)
SendCommand(f, pc) ==
    /\ caller.alive /\ caller.pc = "reserved"
    /\ \/ OwnerLives /\ SendToHelper(f) /\ CallerGoto(pc)
       \/ ~OwnerLives /\ CallerGoto("failed") /\ UNCHANGED wire
    /\ UNCHANGED <<helper, expired, control>> /\ SameShared

CommitAfterExit == SendCommand("commitAfterExit", "committing")

CancelReservation == SendCommand("cancelReservation", "cancelling")

ReceiveAcknowledgement ==
    /\ caller.alive /\ caller.pc = "committing"
    /\ wire.caller # << >> /\ Head(wire.caller) = "acknowledged"
    /\ CallerGoto("committed")
    /\ wire' = [wire EXCEPT !.caller = Tail(@)]
    /\ UNCHANGED <<helper, expired, control>> /\ SameShared

(* The helper is killed if it has not ended by itself.                     *)
ReceiveCancelled ==
    /\ caller.alive /\ caller.pc = "cancelling"
    /\ wire.caller # << >> /\ Head(wire.caller) = "rolledBack"
    /\ CallerGoto("cancelled") /\ TerminateAndReap
    /\ wire' = [wire EXCEPT !.caller = Tail(@)]
    /\ UNCHANGED <<expired, control>> /\ SameShared

(* No answer: the session is still prepared, so its destructor cancels.    *)
CommandFails ==
    /\ caller.alive /\ caller.pc \in {"committing", "cancelling"}
    /\ wire.caller = << >> /\ (expired \/ ~OwnerLives)
    /\ \/ OwnerLives /\ SendToHelper("cancelReservation") /\ CallerGoto("destroying")
       \/ ~OwnerLives /\ CallerGoto("failed") /\ UNCHANGED wire
    /\ UNCHANGED <<helper, expired, control>> /\ SameShared

(* Whatever the destructor reads, the helper does not survive it.          *)
DestroySession ==
    /\ caller.alive /\ caller.pc = "destroying"
    /\ wire.caller # << >> \/ expired \/ ~OwnerLives
    /\ CallerGoto("failed") /\ TerminateAndReap
    /\ UNCHANGED <<wire, expired, control>> /\ SameShared

CallerExits ==
    /\ caller.alive
    /\ caller' = [caller EXCEPT !.alive = FALSE]
    /\ UNCHANGED <<helper, wire, expired, control>> /\ SameShared

-----------------------------------------------------------------------------
(* The helper: Authorize, the one-shot session and its runtime.            *)
HelperOnly == UNCHANGED <<caller, expired, control, defect, tampers>>

(* Persist(r) in the helper, which keeps the copy it tried to write; the   *)
(* record was refused when it goes to otherwise.                           *)
HelperPersists(r, next, otherwise) ==
    /\ \/ Accepts(r) /\ record' = r /\ helper' = [helper EXCEPT !.pc = next, !.rec = r]
       \/ ~Accepts(r) /\ UNCHANGED record
          /\ helper' = [helper EXCEPT !.pc = otherwise, !.rec = r]
    /\ HelperOnly

HelperPersistsState(s, next, otherwise) ==
    HelperPersists(InState(helper.rec, s), next, otherwise)

RefuseRequest ==
    /\ helper.pc = "authorizing" /\ ~HelperChecks
    /\ HelperGoto("ended")
    /\ HelperOnly /\ UNCHANGED <<wire, record, dir, launches>>

(* The signed archive is unpacked beside the target and sealed.            *)
RestagePayload ==
    /\ helper.pc = "authorizing" /\ HelperChecks
    /\ dir' = [dir EXCEPT !.stage = "payload", !.control = TRUE]
    /\ HelperGoto("registering")
    /\ HelperOnly /\ UNCHANGED <<wire, record, launches>>

RegisterPreparing ==
    /\ helper.pc = "registering"
    /\ HelperPersists([state |-> "preparing", binding |-> Binding,
                       journal |-> NoJournal], "locking", "unwinding")
    /\ UNCHANGED <<wire, dir, launches>>

(* LinuxFileTransaction's constructor opens the trees and creates the lock.*)
AcquireTargetLock ==
    /\ helper.pc = "locking"
    /\ dir.stage = "payload" /\ ~dir.lock /\ TargetProved
    /\ dir' = [dir EXCEPT !.lock = TRUE]
    /\ HelperGoto("journaling")
    /\ HelperOnly /\ UNCHANGED <<wire, record, launches>>

TargetLockFails ==
    /\ helper.pc = "locking"
    /\ dir.stage # "payload" \/ dir.lock \/ ~TargetProved
    /\ HelperPersistsState("rolledBack", "abandoning", "abandoning")
    /\ UNCHANGED <<wire, dir, launches>>

(* CleanupCancelled, or the restaged payload's destructor.                 *)
Abandon ==
    /\ helper.pc = "abandoning"
    /\ dir' = [dir EXCEPT !.stage = "none", !.control = FALSE]
    /\ HelperGoto("ended")
    /\ HelperOnly /\ UNCHANGED <<wire, record, launches>>

(* The journal writer checks both trees again, and so does a cancel.       *)
TreesUnchanged == TargetProved /\ PayloadVerified /\ dir.stage = "payload"

PrepareDurableJournal ==
    /\ helper.pc = "journaling"
    /\ \/ TreesUnchanged
          /\ dir' = [dir EXCEPT !.journal = TRUE] /\ HelperGoto("preparing")
       \/ ~TreesUnchanged
          /\ HelperGoto("unwinding") /\ UNCHANGED dir
    /\ HelperOnly /\ UNCHANGED <<wire, record, launches>>

(* The destructors of a session without a durable journal.                 *)
Unwind ==
    /\ helper.pc = "unwinding"
    /\ dir' = [dir EXCEPT !.stage = IF @ = "payload" THEN "none" ELSE @,
                          !.control = FALSE, !.lock = FALSE]
    /\ HelperGoto("ended")
    /\ HelperOnly /\ UNCHANGED <<wire, record, launches>>

(* ArmForRecovery, and the record: from here the trees belong to recovery. *)
RegisterPrepared ==
    /\ helper.pc = "preparing"
    /\ HelperPersists([state |-> "prepared", binding |-> Binding,
                       journal |-> Digest], "reserving", "ended")
    /\ UNCHANGED <<wire, dir, launches>>

(* A frame to a caller that does not listen fails, and the session rolls   *)
(* back, before and after the commit.                                      *)
WriteReservation ==
    /\ helper.pc = "reserving"
    /\ \/ CallerListens /\ SendToCaller("reservation") /\ HelperGoto("reading")
       \/ ~CallerListens /\ HelperGoto("cancelling") /\ UNCHANGED wire
    /\ HelperOnly /\ UNCHANGED <<record, dir, launches>>

ReadCommand ==
    /\ helper.pc = "reading" /\ wire.helper # << >>
    /\ wire' = [wire EXCEPT !.helper = Tail(@)]
    /\ helper' = [helper EXCEPT
         !.pc = IF Head(wire.helper) = "commitAfterExit" /\ ~expired
                THEN "accepting" ELSE "cancelling",
         !.owes = Head(wire.helper) = "cancelReservation"]
    /\ HelperOnly /\ UNCHANGED <<record, dir, launches>>

ReadFails ==
    /\ helper.pc = "reading"
    /\ wire.helper = << >> /\ (expired \/ ~CallerListens)
    /\ HelperGoto("cancelling")
    /\ HelperOnly /\ UNCHANGED <<wire, record, dir, launches>>

MarkCommitAccepted ==
    /\ helper.pc = "accepting"
    /\ HelperPersistsState("commitAccepted", "acknowledging", "cancelling")
    /\ UNCHANGED <<wire, dir, launches>>

Acknowledge ==
    /\ helper.pc = "acknowledging"
    /\ \/ CallerListens /\ SendToCaller("acknowledged") /\ HelperGoto("waiting")
       \/ ~CallerListens /\ HelperGoto("cancelling") /\ UNCHANGED wire
    /\ HelperOnly /\ UNCHANGED <<record, dir, launches>>

(* Mutated WaitForExit: an expired wait counts as the caller's exit.        *)
WaitForExitOrExpiry ==
    /\ helper.pc = "waiting"
    /\ ~caller.alive \/ expired
    /\ HelperGoto("executing")
    /\ HelperOnly /\ UNCHANGED <<wire, record, dir, launches>>

WaitForExit ==
    /\ helper.pc = "waiting"
    /\ \/ ~caller.alive /\ HelperGoto("executing")
       \/ expired /\ HelperGoto("cancelling")
    /\ HelperOnly /\ UNCHANGED <<wire, record, dir, launches>>

(* The next rename of the swap, then the removal of journal and lock: what *)
(* Execute and Recover do, one step at a time.                             *)
SwapStep(d) ==
    CASE d.stage = "payload" -> [d EXCEPT !.stage = "prepared"]
      [] d.stage = "prepared" /\ d.target = "old" -> [d EXCEPT !.target = "away"]
      [] d.stage = "prepared" /\ d.target = "away" ->
           [d EXCEPT !.target = "new", !.stage = "none"]
      [] OTHER -> [d EXCEPT !.journal = FALSE, !.lock = FALSE]

(* The identity and payload checks before that step.                       *)
SwapChecked(d) ==
    /\ PayloadVerified
    /\ d.target = "old" => d.stage # "none" /\ TargetProved

Execute ==
    /\ helper.pc = "executing" /\ SwapChecked(dir)
    /\ dir' = SwapStep(dir)
    /\ HelperGoto(IF dir.target = "new" THEN "pending" ELSE "executing")
    /\ HelperOnly /\ UNCHANGED <<wire, record, launches>>

ExecuteFails ==
    /\ helper.pc = "executing" /\ ~SwapChecked(dir)
    /\ HelperPersistsState("recoveryRequired", "ended", "ended")
    /\ UNCHANGED <<wire, dir, launches>>

RegisterLaunchPending ==
    /\ helper.pc = "pending"
    /\ IF Accepts(InState(helper.rec, "launchPending"))
       THEN HelperPersistsState("launchPending", "attempting", "ended")
       ELSE HelperPersistsState("recoveryRequired", "ended", "ended")
    /\ UNCHANGED <<wire, dir, launches>>

RegisterLaunchAttempting ==
    /\ helper.pc = "attempting"
    /\ HelperPersistsState("launchAttempting", "launching", "ended")
    /\ UNCHANGED <<wire, dir, launches>>

(* The executable is verified again; the child proves its exec or is       *)
(* killed.                                                                 *)
Relaunch ==
    /\ helper.pc = "launching"
    /\ \/ PayloadVerified /\ launches' = launches + 1 /\ HelperGoto("launched")
       \/ HelperGoto("launchFailed") /\ UNCHANGED launches
    /\ HelperOnly /\ UNCHANGED <<wire, record, dir>>

RegisterLaunch ==
    /\ helper.pc \in {"launched", "launchFailed"}
    /\ HelperPersistsState(helper.pc, "completing", "ended")
    /\ UNCHANGED <<wire, dir, launches>>

(* Best effort: the control directory may stay for a recovery.             *)
CleanupCompleted ==
    /\ helper.pc = "completing"
    /\ \E kept \in BOOLEAN : dir' = [dir EXCEPT !.control = @ /\ kept]
    /\ HelperGoto("ended")
    /\ HelperOnly /\ UNCHANGED <<wire, record, launches>>

(* Mutated CancelPrepared: the journal is left for a recovery to find.     *)
CancelPreparedKeepingJournal ==
    /\ helper.pc = "cancelling"
    /\ dir' = [dir EXCEPT !.lock = FALSE]
    /\ HelperGoto("rollingBack")
    /\ HelperOnly /\ UNCHANGED <<wire, record, launches>>

(* CancelPreparedState: a changed tree keeps the journal and ends the      *)
(* session as recovery required.                                           *)
CancelPrepared ==
    /\ helper.pc = "cancelling"
    /\ \/ TreesUnchanged
          /\ dir' = [dir EXCEPT !.journal = FALSE, !.lock = FALSE]
          /\ HelperGoto("rollingBack")
       \/ ~TreesUnchanged /\ HelperGoto("ended") /\ UNCHANGED dir
    /\ HelperOnly /\ UNCHANGED <<wire, record, launches>>

RegisterRolledBack ==
    /\ helper.pc = "rollingBack"
    /\ HelperPersistsState("rolledBack", "cleaning", "ended")
    /\ UNCHANGED <<wire, dir, launches>>

(* CleanupCancelled, best effort, then the answer a cancel command is owed.*)
CleanupCancelled ==
    /\ helper.pc = "cleaning"
    /\ \/ dir' = [dir EXCEPT !.stage = "none", !.control = FALSE]
       \/ UNCHANGED dir
    /\ \/ helper.owes /\ CallerListens /\ SendToCaller("rolledBack")
       \/ ~(helper.owes /\ CallerListens) /\ UNCHANGED wire
    /\ HelperGoto("ended")
    /\ HelperOnly /\ UNCHANGED <<record, launches>>

HelperDies ==
    /\ OwnerLives
    /\ HelperGoto("ended")
    /\ HelperOnly /\ UNCHANGED <<wire, record, dir, launches>>

-----------------------------------------------------------------------------
(* The control service: recoverPendingInstall.                             *)
ControlOnly == UNCHANGED <<caller, helper, wire, expired, defect, tampers, launches>>

ControlGoto(c, pc) == control' = [control EXCEPT ![c].pc = pc]

Answered(c, answer) == control' = [control EXCEPT ![c] = [NoControl EXCEPT !.answer = answer]]

Threw(c) == Answered(c, "none")

ActivatedStates == {"completed", "launched", "launchPending", "launchAttempting",
                    "launchFailed"}

(* Persist(r) in a control service; a refused record ends the service.     *)
ControlPersists(c, r, next) ==
    \/ /\ Accepts(r) /\ record' = r
       /\ control' = [control EXCEPT ![c].rec = r, ![c].pc = next]
    \/ ~Accepts(r) /\ Threw(c) /\ UNCHANGED record

(* Load, the authority and policy checks, and the branch on the state.     *)
BeginRecovery(c) ==
    /\ control[c].pc = "idle"
    /\ record # NoRecord
    /\ PeerProved /\ PolicyAdmits
    /\ dir.control => DescriptorHolds /\ ArchiveHolds
    /\ control' = [control EXCEPT ![c] =
         [NoControl EXCEPT
            !.rec = IF record.state \notin ActivatedStates \cup {"rolledBack"} /\ ~dir.control
                    THEN InState(record, "manualActionRequired") ELSE record,
            !.pc = IF record.state \in ActivatedStates THEN "terminal"
                   ELSE IF record.state = "rolledBack" THEN "tidyOld"
                   ELSE IF dir.control THEN "inspect" ELSE "settle"]]
    /\ ControlOnly /\ UNCHANGED <<record, dir>>

(* What queryTransaction tells the host of a record's state; a pending     *)
(* launch still counts as prepared.                                        *)
QueryAnswer(state) ==
    CASE state \in ActivatedStates \ {"launchPending"} -> "newTarget"
      [] state = "rolledBack" -> "oldTarget"
      [] state = "manualActionRequired" -> "manualActionRequired"
      [] OTHER -> "recoveryRequired"

QueryTransaction(c) ==
    /\ control[c].pc = "idle"
    /\ record # NoRecord
    /\ PeerProved /\ PolicyAdmits
    /\ Answered(c, QueryAnswer(record.state))
    /\ ControlOnly /\ UNCHANGED <<record, dir>>

(* Mutated ConsumeLaunch: the answer is the state's name.                  *)
ConsumeLaunchUnmapped(c) ==
    /\ control[c].pc = "terminal"
    /\ Answered(c, control[c].rec.state)
    /\ ControlOnly /\ UNCHANGED <<record, dir>>

(* A launch that was pending or attempted is recorded as failed.           *)
ConsumeLaunch(c) ==
    /\ control[c].pc = "terminal"
    /\ IF control[c].rec.state \in {"launchPending", "launchAttempting"}
       THEN ControlPersists(c, InState(control[c].rec, "launchFailed"), "tidyNew")
       ELSE ControlGoto(c, "tidyNew") /\ UNCHANGED record
    /\ ControlOnly /\ UNCHANGED dir

TidyNewTarget(c) ==
    /\ control[c].pc = "tidyNew"
    /\ \/ /\ dir.control => PayloadVerified /\ dir.target = "new"
          /\ dir' = [dir EXCEPT !.control = FALSE] /\ Answered(c, "newTarget")
       \/ /\ dir.control /\ ~(PayloadVerified /\ dir.target = "new")
          /\ Threw(c) /\ UNCHANGED dir
    /\ ControlOnly /\ UNCHANGED record

TidyOldTarget(c) ==
    /\ control[c].pc = "tidyOld"
    /\ LET checked == /\ dir.target = "old" /\ TargetProved
                      /\ dir.stage = "payload" => dir.control /\ PayloadVerified
       IN  \/ /\ checked /\ Answered(c, "oldTarget")
              /\ dir' = [dir EXCEPT !.control = FALSE,
                                    !.stage = IF @ = "payload" THEN "none" ELSE @]
           \/ ~checked /\ Threw(c) /\ UNCHANGED dir
    /\ ControlOnly /\ UNCHANGED record

(* A record without a digest takes the one of the journal found.           *)
InspectJournal(c) ==
    /\ control[c].pc = "inspect"
    /\ LET r == [control[c].rec EXCEPT !.journal = Digest]
       IN  IF dir.journal /\ control[c].rec.journal = NoJournal
           THEN \/ /\ Accepts(r) /\ record' = r
                   /\ control' = [control EXCEPT ![c].rec = r, ![c].journal = TRUE,
                                                 ![c].pc = "recover"]
                \/ ~Accepts(r) /\ Threw(c) /\ UNCHANGED record
           ELSE /\ control' = [control EXCEPT ![c].journal = dir.journal,
                                              ![c].pc = "recover"]
                /\ UNCHANGED record
    /\ ControlOnly /\ UNCHANGED dir

Settle(c, s) ==
    control' = [control EXCEPT ![c].rec.state = s, ![c].pc = "settle"]

(* Mutated LockIsHeld: the owner's flock is not tried.                     *)
LockIsHeldByRecovery(c) == \E o \in Controllers \ {c} : control[o].pc = "swap"

(* The owner holds the lock's flock while it lives, a recoverer while it   *)
(* works.                                                                  *)
LockIsHeld(c) == OwnerLives \/ \E o \in Controllers \ {c} : control[o].pc = "swap"

(* Recover up to its first rename.  A journal that was there and is gone   *)
(* is reported as ambiguous.                                               *)
Recover(c) ==
    /\ control[c].pc = "recover"
    /\ \/ dir.lock /\ LockIsHeld(c) /\ Settle(c, "recoveryRequired") /\ UNCHANGED dir
       \/ /\ dir.lock /\ ~LockIsHeld(c) /\ dir.journal
          /\ ControlGoto(c, "swap") /\ UNCHANGED dir
       \/ /\ dir.lock => ~LockIsHeld(c) /\ ~dir.journal
          /\ dir' = [dir EXCEPT !.lock = FALSE]
          /\ IF control[c].journal \/ dir.journal
             THEN Settle(c, "manualActionRequired")
             ELSE ControlGoto(c, "topology")
    /\ ControlOnly /\ UNCHANGED record

(* Only a journal that was seen before Recover makes its outcome count.    *)
RecoverSwap(c) ==
    /\ control[c].pc = "swap"
    /\ \/ /\ SwapChecked(dir)
          /\ dir' = SwapStep(dir)
          /\ IF dir.target # "new" THEN UNCHANGED control
             ELSE IF control[c].journal THEN ControlGoto(c, "recovered")
             ELSE Settle(c, "manualActionRequired")
       \/ ~SwapChecked(dir) /\ Settle(c, "manualActionRequired") /\ UNCHANGED dir
    /\ ControlOnly /\ UNCHANGED record

RegisterRecovered(c) ==
    /\ control[c].pc = "recovered"
    /\ IF ~PayloadVerified THEN Threw(c) /\ UNCHANGED record
       ELSE ControlPersists(c, InState(control[c].rec, "launchPending"), "consume")
    /\ ControlOnly /\ UNCHANGED dir

(* No relaunch without the caller's session; control cleanup best effort.  *)
RegisterConsumed(c) ==
    /\ control[c].pc = "consume"
    /\ LET r == InState(control[c].rec, "launchFailed")
       IN  \/ /\ Accepts(r) /\ record' = r /\ Answered(c, "newTarget")
              /\ \E kept \in BOOLEAN : dir' = [dir EXCEPT !.control = @ /\ kept]
           \/ ~Accepts(r) /\ Threw(c) /\ UNCHANGED <<record, dir>>
    /\ ControlOnly

TargetIsOld == dir.target = "old" /\ TargetProved

(* Neither journal nor lock: the trees decide.                             *)
ExamineTopology(c) ==
    /\ control[c].pc = "topology"
    /\ LET new == dir.target = "new" /\ PayloadVerified
           stageOk == dir.stage = "payload" => PayloadVerified
       IN  \/ new /\ dir.stage # "payload" /\ ControlGoto(c, "recovered")
           \/ /\ ~new /\ TargetIsOld /\ stageOk
              /\ ControlGoto(c, IF dir.stage = "payload" THEN "remove" ELSE "rollBack")
           \/ /\ ~(new /\ dir.stage # "payload") /\ ~(~new /\ TargetIsOld /\ stageOk)
              /\ Settle(c, "manualActionRequired")
    /\ ControlOnly /\ UNCHANGED <<record, dir>>

RemoveStage(c) ==
    /\ control[c].pc = "remove"
    /\ \/ /\ dir.stage = "payload"
          /\ dir' = [dir EXCEPT !.stage = "none"] /\ ControlGoto(c, "rollBack")
       \/ dir.stage # "payload" /\ Threw(c) /\ UNCHANGED dir
    /\ ControlOnly /\ UNCHANGED record

ControlRollsBack(c) ==
    /\ control[c].pc = "rollBack"
    /\ LET r == InState(control[c].rec, "rolledBack")
       IN  \/ /\ Accepts(r) /\ record' = r /\ Answered(c, "oldTarget")
              /\ \E kept \in BOOLEAN : dir' = [dir EXCEPT !.control = @ /\ kept]
           \/ ~Accepts(r) /\ Threw(c) /\ UNCHANGED <<record, dir>>
    /\ ControlOnly

SettleRecord(c) ==
    /\ control[c].pc = "settle"
    /\ LET r == control[c].rec
       IN  \/ Accepts(r) /\ record' = r /\ Answered(c, r.state)
           \/ ~Accepts(r) /\ Threw(c) /\ UNCHANGED record
    /\ ControlOnly /\ UNCHANGED dir

(* The client kills a control helper that does not answer in time.         *)
ControlDies(c) ==
    /\ control[c].pc # "idle"
    /\ Threw(c)
    /\ ControlOnly /\ UNCHANGED <<record, dir>>

-----------------------------------------------------------------------------
Expire ==
    /\ ~expired
    /\ helper.rec # NoRecord /\ helper.rec.journal = Digest
    /\ expired' = TRUE
    /\ UNCHANGED <<caller, helper, wire, control>> /\ SameShared

(* Something that was checked changes before it is used.                   *)
Tamper ==
    /\ tampers < MaxTampers
    /\ \E f \in Facts \cup {NoDefect} : f # defect /\ defect' = f
    /\ tampers' = tampers + 1
    /\ UNCHANGED <<caller, helper, wire, expired, record, dir, control, launches>>

CallerNext ==
    \/ RejectRequest \/ LaunchHelper \/ ReceiveReservation \/ LaunchFails
    \/ CommitAfterExit \/ CancelReservation \/ ReceiveAcknowledgement
    \/ ReceiveCancelled \/ CommandFails \/ DestroySession \/ CallerExits

HelperNext ==
    \/ RefuseRequest \/ RestagePayload \/ RegisterPreparing \/ AcquireTargetLock
    \/ TargetLockFails \/ Abandon \/ PrepareDurableJournal \/ Unwind
    \/ RegisterPrepared \/ WriteReservation \/ ReadCommand \/ ReadFails
    \/ MarkCommitAccepted \/ Acknowledge \/ WaitForExit \/ Execute \/ ExecuteFails
    \/ RegisterLaunchPending \/ RegisterLaunchAttempting \/ Relaunch
    \/ RegisterLaunch \/ CleanupCompleted \/ CancelPrepared \/ RegisterRolledBack
    \/ CleanupCancelled

ControlNext(c) ==
    \/ QueryTransaction(c) \/ BeginRecovery(c) \/ ConsumeLaunch(c)
    \/ TidyNewTarget(c) \/ TidyOldTarget(c)
    \/ InspectJournal(c) \/ Recover(c) \/ RecoverSwap(c) \/ RegisterRecovered(c)
    \/ RegisterConsumed(c) \/ ExamineTopology(c) \/ RemoveStage(c)
    \/ ControlRollsBack(c) \/ SettleRecord(c)

Next ==
    \/ CallerNext \/ HelperNext \/ HelperDies \/ Expire \/ Tamper
    \/ \E c \in Controllers : ControlNext(c) \/ ControlDies(c)

Spec == Init /\ [][Next]_vars

-----------------------------------------------------------------------------
(* A record that says the swap is over is right about the target, whoever  *)
(* wrote it and whatever died in between: Persist refuses what would make  *)
(* it lie.                                                                 *)
RecordTellsTarget ==
    record # NoRecord =>
      /\ record.state \in ActivatedStates => dir.target = "new"
      /\ record.state = "rolledBack" => dir.target = "old"

(* What queryTransaction and recoverPendingInstall once told the host, the *)
(* old or the new target, stays true.                                      *)
AnswersHold ==
    \A c \in Controllers :
      /\ control[c].answer = "newTarget" => dir.target = "new"
      /\ control[c].answer = "oldTarget" => dir.target = "old"

(* After cancelReservation has succeeded no recovery, however late, finds  *)
(* a journal to roll forward: the old application stays.                   *)
CancelledStaysOld ==
    caller.pc = "cancelled" =>
      dir.target = "old" /\ ~dir.journal /\ record.state = "rolledBack"

(* The helper starts the new application at most once, only when the       *)
(* caller that committed is gone, and only with the new target in place.   *)
LaunchedOnceAfterExit ==
    launches > 0 => launches = 1 /\ ~caller.alive /\ dir.target = "new"
=============================================================================
