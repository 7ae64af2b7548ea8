----------------------- MODULE WindowsArchiveRestage -----------------------
(***************************************************************************)
(* RestageVerifiedWindowsZip: as on Linux the helper copies and unpacks    *)
(* the signed archive beside the target, but the names of what it makes    *)
(* hold a nonce of the attempt, and the nonce is in a control file whose   *)
(* name is derived from the transaction.  Files of an attempt are opened   *)
(* without sharing: nobody else opens them while the attempt lives, and    *)
(* everybody may when it is dead.                                          *)
(*                                                                         *)
(* A nonce is the attempt itself.  A check of the request or the archive   *)
(* is reduced to whether it is the one that fails.                         *)
(***************************************************************************)
EXTENDS Naturals, FiniteSets

CONSTANTS Attempts,   \* helper processes restaging this transaction
          MaxDeaths,  \* how many of them are killed
          MaxFaults   \* how many file system operations fail

ASSUME WindowsRestageAssumption ==
    "none" \notin Attempts /\ MaxDeaths \in Nat /\ MaxFaults \in Nat

VARIABLES defect,   \* the check that this request or archive would fail
          stage,    \* whether the caller's stage is still there
          next,     \* whose control file is under the temporary name
          control,  \* whose control file is under its name
          archive,  \* the attempts whose archive copy is there
          payload,  \* per attempt: its unpacked tree
          journal,  \* who journaled the transaction
          proc,     \* per attempt: where it is
          deaths, faults

made == <<archive, payload>>

vars == <<defect, stage, next, control, archive, payload, journal, proc,
          deaths, faults>>

-----------------------------------------------------------------------------
Defects == {"request", "source", "digest", "path", "entry", "inventory"}

Trees == {"none", "part", "full", "moved"}

Owners == Attempts \cup {"none"}

Sweeping == {"sweepingPayload", "sweepingArchive", "sweepingControl"}

(* The attempt has its control file under its final name.                  *)
Building == {"flushing", "copying", "rooting", "extracting", "sealing",
             "restaged", "journaled"}

Dropping == {"droppingPayload", "droppingArchive", "droppingControl"}

Ended == {"idle", "failed", "released", "dead"}

Pcs == Sweeping \cup Building \cup Dropping \cup Ended
       \cup {"clearing", "looking", "creating", "naming", "moving"}

(* prior: the attempt it cleans up after; since: the deaths before it.     *)
Fresh == [pc |-> "idle", prior |-> "none", since |-> 0]

TypeOK ==
    /\ defect \in Defects \cup {"none"} /\ stage \in BOOLEAN
    /\ next \in Owners /\ control \in Owners /\ journal \in Owners
    /\ archive \subseteq Attempts /\ payload \in [Attempts -> Trees]
    /\ proc \in [Attempts -> [pc : Pcs, prior : Owners, since : 0..MaxDeaths]]
    /\ deaths \in 0..MaxDeaths /\ faults \in 0..MaxFaults

Init ==
    /\ defect \in Defects \cup {"none"} /\ stage = TRUE
    /\ next = "none" /\ control = "none" /\ journal = "none"
    /\ archive = {} /\ payload = [p \in Attempts |-> "none"]
    /\ proc = [p \in Attempts |-> Fresh]
    /\ deaths = 0 /\ faults = 0

-----------------------------------------------------------------------------
At(p, pc) == proc[p].pc = pc

Goto(p, pc) == proc' = [proc EXCEPT ![p].pc = pc]

Live(p) == p # "none" /\ proc[p].pc \notin Ended

(* Somebody has the control file open: its owner, or who sweeps after it.  *)
ControlIsOpen ==
    \/ Live(control)
    \/ \E q \in Attempts : proc[q].pc \in Sweeping /\ proc[q].prior = control

RequestAccepted == defect # "request"

SourceMatches == defect # "source"

CopyDigestMatches == defect # "digest"

ValidateArchivePath == defect # "path"

PreflightAccepts == ValidateArchivePath /\ defect # "entry"

SealMatches == defect # "inventory"

(* An exception destroys the result, which cleans up what it has.          *)
Throw(p) == Goto(p, "droppingPayload")

-----------------------------------------------------------------------------
(* CleanupPriorRestage.                                                    *)

Begin(p) ==
    /\ At(p, "idle")
    /\ proc' = [proc EXCEPT ![p].since = deaths,
                  ![p].pc = IF RequestAccepted /\ stage /\ SourceMatches
                            THEN "clearing" ELSE "failed"]
    /\ UNCHANGED <<defect, stage, next, control, made, journal, deaths, faults>>

(* Mutated Deleted: the file stays under the temporary name.               *)
NotDeleted(owner) == owner

Deleted(owner) == "none"

DeleteOptionalRestageFile(p) ==
    /\ At(p, "clearing")
    /\ \/ ~Live(next) /\ next' = Deleted(next) /\ Goto(p, "looking")
       \/ Live(next) /\ Goto(p, "failed") /\ UNCHANGED next
    /\ UNCHANGED <<defect, stage, control, made, journal, deaths, faults>>

(* Mutated MayOpenControl: the control file is opened with sharing.        *)
OpensShared == TRUE

MayOpenControl == ~ControlIsOpen

(* Mutated OpenControl: the control file is deleted once it is read.       *)
OpenControlAndDelete(p) ==
    /\ At(p, "looking")
    /\ control # "none" => MayOpenControl
    /\ control' = "none"
    /\ proc' = [proc EXCEPT ![p].prior = control, ![p].pc =
                  IF control = "none" THEN "creating" ELSE "sweepingPayload"]
    /\ UNCHANGED <<defect, stage, next, made, journal, deaths, faults>>

OpenControl(p) ==
    /\ At(p, "looking")
    /\ \/ control = "none" /\ Goto(p, "creating")
       \/ /\ control # "none" /\ MayOpenControl
          /\ proc' = [proc EXCEPT ![p].pc = "sweepingPayload",
                                  ![p].prior = control]
       \/ control # "none" /\ ~MayOpenControl /\ Goto(p, "failed")
    /\ UNCHANGED <<defect, stage, next, control, made, journal, deaths, faults>>

(* VerifyAndDeleteBoundedPartialTree deletes from the leaves to the root;  *)
(* the archive copy is next.                                               *)
SweepPayload(p) ==
    LET old == proc[p].prior IN
    /\ At(p, "sweepingPayload")
    /\ payload' = IF payload[old] = "moved" THEN payload
                  ELSE [payload EXCEPT ![old] = "none"]
    /\ Goto(p, "sweepingArchive")
    /\ UNCHANGED <<defect, stage, next, control, archive, journal, deaths, faults>>

SweepArchive(p) ==
    /\ At(p, "sweepingArchive")
    /\ archive' = archive \ {proc[p].prior}
    /\ Goto(p, "sweepingControl")
    /\ UNCHANGED <<defect, stage, next, control, payload, journal, deaths, faults>>

(* The control file goes last, by the handle that is still open.           *)
SweepControl(p) ==
    /\ At(p, "sweepingControl")
    /\ control' = IF control = proc[p].prior THEN "none" ELSE control
    /\ Goto(p, "creating")
    /\ UNCHANGED <<defect, stage, next, made, journal, deaths, faults>>

-----------------------------------------------------------------------------
(* CreateRestageControl: a new file under the temporary name, then a       *)
(* rename that replaces nothing.                                           *)
CreateNext(p) ==
    /\ At(p, "creating")
    /\ \/ next = "none" /\ next' = p /\ Goto(p, "naming")
       \/ next # "none" /\ Goto(p, "failed") /\ UNCHANGED next
    /\ UNCHANGED <<defect, stage, control, made, journal, deaths, faults>>

RenameNext(p) ==
    /\ At(p, "naming")
    /\ next' = "none"
    /\ \/ control = "none" /\ control' = p /\ Goto(p, "flushing")
       \/ control # "none" /\ Goto(p, "failed") /\ UNCHANGED control
    /\ UNCHANGED <<defect, stage, made, journal, deaths, faults>>

FlushControl(p) ==
    /\ At(p, "flushing")
    /\ Goto(p, "copying")
    /\ UNCHANGED <<defect, stage, next, control, made, journal, deaths, faults>>

(* The copy is created, written and checked, and deleted with its handle   *)
(* open: it is read through that handle from then on.                      *)
CopyArchive(p) ==
    /\ At(p, "copying")
    /\ \/ p \notin archive /\ archive' = archive \cup {p} /\ UNCHANGED proc
       \/ /\ p \in archive /\ CopyDigestMatches
          /\ archive' = archive \ {p} /\ Goto(p, "rooting")
       \/ p \in archive /\ ~CopyDigestMatches /\ Throw(p) /\ UNCHANGED archive
    /\ UNCHANGED <<defect, stage, next, control, payload, journal, deaths, faults>>

CreateRoot(p) ==
    /\ At(p, "rooting")
    /\ payload' = [payload EXCEPT ![p] = "part"]
    /\ Goto(p, "extracting")
    /\ UNCHANGED <<defect, stage, next, control, archive, journal, deaths, faults>>

Extract(p) ==
    /\ At(p, "extracting")
    /\ \/ /\ PreflightAccepts
          /\ payload' = [payload EXCEPT ![p] = "full"] /\ Goto(p, "sealing")
       \/ ~PreflightAccepts /\ Throw(p) /\ UNCHANGED payload
    /\ UNCHANGED <<defect, stage, next, control, archive, journal, deaths, faults>>

(* The seal of the tree as it is must be the seal of what was written.     *)
Seal(p) ==
    /\ At(p, "sealing")
    /\ IF SealMatches THEN Goto(p, "restaged") ELSE Throw(p)
    /\ UNCHANGED <<defect, stage, next, control, made, journal, deaths, faults>>

-----------------------------------------------------------------------------
(* WindowsFileTransaction::Prepare: the journal, the release, the rename.  *)
PersistJournal(p) ==
    /\ At(p, "restaged")
    /\ \/ /\ journal = "none" /\ payload[p] = "full"
          /\ journal' = p /\ Goto(p, "journaled")
       \/ /\ journal # "none" \/ payload[p] # "full"
          /\ Throw(p) /\ UNCHANGED journal
    /\ UNCHANGED <<defect, stage, next, control, made, deaths, faults>>

(* The caller's stage goes too, if it can.                                 *)
ReleaseToTransaction(p) ==
    /\ At(p, "journaled")
    /\ control' = IF control = p THEN "none" ELSE control
    /\ stage' \in {stage, FALSE}
    /\ Goto(p, "moving")
    /\ UNCHANGED <<defect, next, made, journal, deaths, faults>>

(* From here on the tree has the names of the transaction.                 *)
RenameStage(p) ==
    /\ At(p, "moving")
    /\ payload' = [payload EXCEPT ![p] = "moved"]
    /\ Goto(p, "released")
    /\ UNCHANGED <<defect, stage, next, control, archive, journal, deaths, faults>>

-----------------------------------------------------------------------------
(* ~Impl: every deletion is tried, and no failure stops the next one.      *)
DropPayload(p) ==
    /\ At(p, "droppingPayload")
    /\ payload' = [payload EXCEPT ![p] = "none"]
    /\ Goto(p, "droppingArchive")
    /\ UNCHANGED <<defect, stage, next, control, archive, journal, deaths, faults>>

DropArchive(p) ==
    /\ At(p, "droppingArchive")
    /\ archive' = archive \ {p}
    /\ Goto(p, "droppingControl")
    /\ UNCHANGED <<defect, stage, next, control, payload, journal, deaths, faults>>

DropControl(p) ==
    /\ At(p, "droppingControl")
    /\ control' = IF control = p THEN "none" ELSE control
    /\ Goto(p, "failed")
    /\ UNCHANGED <<defect, stage, next, made, journal, deaths, faults>>

-----------------------------------------------------------------------------
Faulty == faults < MaxFaults /\ faults' = faults + 1

(* Before there is a control file of its own.  What was written under the  *)
(* temporary name is deleted; a failed flush after the rename leaves the   *)
(* control file for the next attempt.                                      *)
EarlyFault(p) ==
    /\ proc[p].pc \in {"clearing", "looking", "creating", "naming", "flushing"}
                      \cup Sweeping
    /\ Faulty
    /\ next' = IF At(p, "naming") THEN "none" ELSE next
    /\ Goto(p, "failed")
    /\ UNCHANGED <<defect, stage, control, made, journal, deaths>>

BuildFault(p) ==
    /\ proc[p].pc \in {"copying", "rooting", "extracting", "sealing", "restaged"}
    /\ Faulty
    /\ Throw(p)
    /\ UNCHANGED <<defect, stage, next, control, made, journal, deaths>>

(* No cleanup failure re-arms the destructor once there is a journal.      *)
ReleaseFault(p) ==
    /\ proc[p].pc \in {"journaled", "moving"}
    /\ Faulty
    /\ Goto(p, "failed")
    /\ UNCHANGED <<defect, stage, next, control, made, journal, deaths>>

DropFault(p) ==
    /\ proc[p].pc \in Dropping
    /\ Faulty
    /\ Goto(p, CASE At(p, "droppingPayload") -> "droppingArchive"
                 [] At(p, "droppingArchive") -> "droppingControl"
                 [] OTHER -> "failed")
    /\ UNCHANGED <<defect, stage, next, control, made, journal, deaths>>

(* Death closes every handle.                                              *)
Die(p) ==
    /\ Live(p) /\ deaths < MaxDeaths
    /\ deaths' = deaths + 1
    /\ Goto(p, "dead")
    /\ UNCHANGED <<defect, stage, next, control, made, journal, faults>>

Next ==
    \E p \in Attempts :
        \/ Begin(p) \/ DeleteOptionalRestageFile(p) \/ OpenControl(p)
        \/ SweepPayload(p) \/ SweepArchive(p) \/ SweepControl(p)
        \/ CreateNext(p) \/ RenameNext(p) \/ FlushControl(p)
        \/ CopyArchive(p) \/ CreateRoot(p) \/ Extract(p) \/ Seal(p)
        \/ PersistJournal(p) \/ ReleaseToTransaction(p)
        \/ RenameStage(p)
        \/ DropPayload(p) \/ DropArchive(p) \/ DropControl(p)
        \/ EarlyFault(p) \/ BuildFault(p) \/ ReleaseFault(p) \/ DropFault(p)
        \/ Die(p)

Spec == Init /\ [][Next]_vars

-----------------------------------------------------------------------------
(* Whatever a dead or failed attempt leaves has its nonce in the control   *)
(* file or is in the journal: a name with a nonce that no file holds would *)
(* never be found again (~Impl and CleanupPriorRestage delete the control  *)
(* file last).  A deletion that fails in ~Impl loses it: see DropFault.    *)
LeftoversAreNamed ==
    faults = 0 =>
        \A p \in Attempts :
            ~Live(p) /\ (p \in archive \/ payload[p] \in {"part", "full"})
                => p \in {control, journal}

(* From its rename to its release one attempt alone has the control file,  *)
(* and what it journals is the whole tree of a sound archive, untouched by *)
(* the attempts that run beside it.                                        *)
BuilderIsAlone ==
    \A p \in Attempts :
        /\ proc[p].pc \in Building => control = p
        /\ proc[p].pc \in {"journaled", "moving"} =>
              defect = "none" /\ journal = p /\ payload[p] = "full"

(* Retry: an attempt whose archive is sound, that meets no fault and runs  *)
(* beside no other live or just killed attempt, is never stopped by what   *)
(* earlier ones left (CleanupPriorRestage, the fault points of the tests). *)
RetriesSucceed ==
    [][\A p \in Attempts :
          /\ proc[p].pc # "failed" /\ proc'[p].pc = "failed"
          /\ defect = "none" /\ stage /\ faults' = 0 /\ journal = "none"
          => deaths > proc[p].since \/ \E q \in Attempts \ {p} : Live(q)]_vars
=============================================================================
