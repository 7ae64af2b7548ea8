------------------------ MODULE LinuxArchiveRestage ------------------------
(***************************************************************************)
(* RestageLinuxSignedZip: the helper copies the signed archive next to the *)
(* target and unpacks it, under names derived from the transaction, with a *)
(* recovery record that a later attempt for the same transaction uses to   *)
(* clean up after a dead one.  The attempts are processes; they interleave *)
(* at every file system operation and die anywhere.                        *)
(*                                                                         *)
(* A directory is who made it and how far it is.  Its identity includes    *)
(* the change time, so two looks at it agree only if both are the same; a  *)
(* record file is replaced as a whole, so its identity is its content.     *)
(* Digests, owners, modes and archive entries are reduced to which check   *)
(* of them fails: defect, or "none".                                       *)
(***************************************************************************)
EXTENDS Naturals, FiniteSets

CONSTANTS Attempts,   \* helper processes restaging this transaction
          MaxDeaths,  \* how many of them are killed
          MaxFaults   \* how many file system operations fail, each with
                      \* the removal that was to undo it or without

VARIABLES defect,   \* the check that this request or archive would fail
          next,     \* the record's temporary file
          record,   \* the recovery record
          payload,  \* the unpacked tree
          control,  \* the archive, manifest and seal beside it
          journal,  \* who journaled the transaction: it owns both trees
          proc,     \* per attempt: where it is
          stray,    \* a half-made directory could not be removed (a history)
          deaths, faults

tree == <<payload, control>>

vars == <<defect, next, record, payload, control, journal, proc, stray, deaths,
          faults>>

-----------------------------------------------------------------------------
Defects == {"request", "sourceOwner", "digest", "path", "entry", "executable",
            "inventory", "seal"}

Stages == {"made", "marking", "marked", "copied", "first", "more", "bare",
           "sealed", "torn"}

Absent == [by |-> "none", stage |-> "none"]

Dirs == {Absent} \cup [by : Attempts, stage : Stages]

(* RestageRecoveryRecord: the owner, its cookie (one per attempt) and the  *)
(* identities of the two directories as far as they are known.             *)
NoRecord == [by |-> "none", payload |-> Absent, control |-> Absent]

Records == {NoRecord} \cup [by : Attempts, payload : Dirs, control : Dirs]

Persists == {"recording", "recordingPayload", "recordingControl",
             "recordingCopy", "recordingFirst", "recordingSeal"}

Working == Persists \cup
           {"clearing", "reading", "removingPayload", "tearingPayload",
            "removingControl", "tearingControl", "droppingRecord",
            "makingPayload", "openingPayload", "markingPayload",
            "makingControl", "openingControl", "markingControl", "copying",
            "extracting", "extractingRest", "unmarkingPayload",
            "unmarkingControl", "sealing", "retaining"}

Pcs == Working \cup {"idle", "cleaningPayload", "cleaningControl",
                     "cleaningRecord", "restaged", "journaled", "armed",
                     "failed", "manual", "dead"}

(* old: the record of an earlier attempt; mine: the record as last         *)
(* persisted here; made: what this attempt created and must clean up; temp *)
(* how far it is with the temporary file of the record.                    *)
Temps == {"todo", "cleared", "linked"}

Fresh == [pc |-> "idle", old |-> NoRecord, mine |-> NoRecord, made |-> {},
          temp |-> "todo"]

TypeOK ==
    /\ defect \in Defects \cup {"none"}
    /\ next \in Records /\ record \in Records
    /\ payload \in Dirs /\ control \in Dirs
    /\ journal \in Attempts \cup {"none"} /\ stray \in BOOLEAN
    /\ proc \in [Attempts ->
          [pc : Pcs, old : Records, mine : Records, temp : Temps,
           made : SUBSET {"payload", "control", "record"}]]
    /\ deaths \in 0..MaxDeaths /\ faults \in 0..MaxFaults

Init ==
    /\ defect \in Defects \cup {"none"}
    /\ next = NoRecord /\ record = NoRecord
    /\ payload = Absent /\ control = Absent /\ journal = "none"
    /\ proc = [p \in Attempts |-> Fresh]
    /\ stray = FALSE /\ deaths = 0 /\ faults = 0

-----------------------------------------------------------------------------
At(p, pc) == proc[p].pc = pc

Goto(p, pc) == proc' = [proc EXCEPT ![p].pc = pc]

(* The attempt is over, or has cleaned up after another: its variables are *)
(* out of scope.                                                           *)
Leave(p, pc) == proc' = [proc EXCEPT ![p] = [Fresh EXCEPT !.pc = pc]]

OwnerProcessIsLive(p) == proc[p].pc \notin {"idle", "failed", "manual", "dead"}

(* The checks, in the order they are made.                                 *)
RequestAccepted == defect # "request"

SourceOwned == defect # "sourceOwner"

CopyDigestMatches == defect # "digest"

StrictArchiveSegments == defect # "path"

(* Mutated PreflightAccepts: the paths of the entries are not looked at.   *)
PreflightIgnoresPaths == defect # "entry"

PreflightAccepts == StrictArchiveSegments /\ defect # "entry"

ExecutablePresent == defect # "executable"

InventoryMatches == defect # "inventory"

SealFits == defect # "seal"

(* An exception of the restage: its catch block cleans up what was made.   *)
Throw(p) == proc' = [proc EXCEPT ![p].pc = "cleaningPayload", ![p].temp = "todo"]

-----------------------------------------------------------------------------
(* What an earlier attempt left.                                           *)

(* A journal takes precedence over a retry.                                *)
Begin(p) ==
    /\ At(p, "idle")
    /\ Goto(p, IF RequestAccepted /\ SourceOwned /\ journal = "none"
               THEN "clearing" ELSE "failed")
    /\ UNCHANGED <<defect, next, record, tree, journal, stray, deaths, faults>>

(* ReconcileRecoveryRecordTemporary: whoever's temporary file it is.       *)
ClearTemporary(p) ==
    /\ At(p, "clearing")
    /\ next' = NoRecord
    /\ Goto(p, "reading")
    /\ UNCHANGED <<defect, record, tree, journal, stray, deaths, faults>>

(* Mutated MayReconcile: the owner's liveness is not looked at.            *)
AlwaysReconcile(r) == TRUE

MayReconcile(r) == ~OwnerProcessIsLive(r.by)

ReadRecord(p) ==
    /\ At(p, "reading")
    /\ \/ record = NoRecord /\ Goto(p, "recording")
       \/ /\ record # NoRecord /\ MayReconcile(record)
          /\ proc' = [proc EXCEPT ![p].pc = "removingPayload", ![p].old = record]
       \/ record # NoRecord /\ ~MayReconcile(record) /\ Goto(p, "failed")
    /\ UNCHANGED <<defect, next, record, tree, journal, stray, deaths, faults>>

(* Nothing but the owner's marker, with the cookie of the record.          *)
VerifyCleanupCookieDirectory(dir, old) == dir = [by |-> old.by, stage |-> "marked"]

(* No marker at all, and empty: left by a death right after mkdirat.       *)
VerifyPristineEmptyDirectory(dir) == dir.stage = "made"

(* RemoveRecordedDirectory: known says what the record says of dir.        *)
Owned(dir, known, old) ==
    \/ known # Absent /\ dir = known
    \/ VerifyCleanupCookieDirectory(dir, old)

Pristine(dir, known) == known = Absent /\ VerifyPristineEmptyDirectory(dir)

(* RemoveLinuxTreeExact unlinks the entries, then the directory.           *)
Torn(dir) == [dir EXCEPT !.stage = IF dir.stage \in {"made", "marked"}
                                   THEN "made" ELSE "torn"]

RemoveRecordedPayload(p) ==
    LET old == proc[p].old IN
    /\ At(p, "removingPayload")
    /\ \/ /\ payload = Absent
          /\ Goto(p, "removingControl") /\ UNCHANGED payload
       \/ /\ payload # Absent /\ Owned(payload, old.payload, old)
          /\ payload' = Torn(payload)
          /\ Goto(p, "tearingPayload")
       \/ /\ payload # Absent /\ ~Owned(payload, old.payload, old)
          /\ Pristine(payload, old.payload)
          /\ payload' = Absent
          /\ Goto(p, "removingControl")
       \/ /\ payload # Absent /\ ~Owned(payload, old.payload, old)
          /\ ~Pristine(payload, old.payload)
          /\ Leave(p, "manual") /\ UNCHANGED payload
    /\ UNCHANGED <<defect, next, record, control, journal, stray, deaths, faults>>

RemoveRecordedControl(p) ==
    LET old == proc[p].old IN
    /\ At(p, "removingControl")
    /\ \/ /\ control = Absent
          /\ Goto(p, "droppingRecord") /\ UNCHANGED control
       \/ /\ control # Absent /\ Owned(control, old.control, old)
          /\ control' = Torn(control)
          /\ Goto(p, "tearingControl")
       \/ /\ control # Absent /\ ~Owned(control, old.control, old)
          /\ Pristine(control, old.control)
          /\ control' = Absent
          /\ Goto(p, "droppingRecord")
       \/ /\ control # Absent /\ ~Owned(control, old.control, old)
          /\ ~Pristine(control, old.control)
          /\ Leave(p, "manual") /\ UNCHANGED control
    /\ UNCHANGED <<defect, next, record, payload, journal, stray, deaths, faults>>

(* The second half of the removal: the retained directory must still have  *)
(* its name.                                                               *)
FinishRemoval(p) ==
    LET old == proc[p].old IN
    /\ \/ /\ At(p, "tearingPayload") /\ payload.by = old.by
          /\ payload' = Absent
          /\ Goto(p, "removingControl") /\ UNCHANGED control
       \/ /\ At(p, "tearingControl") /\ control.by = old.by
          /\ control' = Absent
          /\ Goto(p, "droppingRecord") /\ UNCHANGED payload
       \/ /\ \/ At(p, "tearingPayload") /\ payload.by # old.by
             \/ At(p, "tearingControl") /\ control.by # old.by
          /\ Leave(p, "manual") /\ UNCHANGED tree
    /\ UNCHANGED <<defect, next, record, journal, stray, deaths, faults>>

(* RemoveRecoveryRecordExact, of the record that was read.                 *)
DropRecord(p) ==
    /\ At(p, "droppingRecord")
    /\ \/ record = proc[p].old /\ record' = NoRecord /\ Leave(p, "recording")
       \/ record # proc[p].old /\ Leave(p, "failed") /\ UNCHANGED record
    /\ UNCHANGED <<defect, next, tree, journal, stray, deaths, faults>>

-----------------------------------------------------------------------------
(* PersistRecoveryRecord.                                                  *)

(* What p knows of a directory it made: the identity is read through the   *)
(* descriptor, and once the directory is unlinked no other ever has it.    *)
Unlinked(p) == [by |-> p, stage |-> "torn"]

Known(p, name, dir) ==
    CASE name \notin proc[p].made -> Absent
      [] name \in proc[p].made /\ dir.by = p -> dir
      [] OTHER -> Unlinked(p)

RecordOf(p) == [by |-> p, payload |-> Known(p, "payload", payload),
                control |-> Known(p, "control", control)]

AfterPersist(p) ==
    CASE At(p, "recording") -> "makingPayload"
      [] At(p, "recordingPayload") -> "makingControl"
      [] At(p, "recordingControl") -> "copying"
      [] At(p, "recordingCopy") -> "extracting"
      [] At(p, "recordingFirst") -> "extractingRest"
      [] OTHER -> "retaining"

(* The temporary file has a name all attempts share: whatever has it is    *)
(* unlinked, then the written record is linked to it.  The file system     *)
(* has O_TMPFILE: the fallback, a named file that is written afterwards,   *)
(* is left out.                                                            *)
ClearForPersist(p) ==
    /\ proc[p].pc \in Persists /\ proc[p].temp = "todo"
    /\ next' = NoRecord
    /\ proc' = [proc EXCEPT ![p].temp = "cleared"]
    /\ UNCHANGED <<defect, record, tree, journal, stray, deaths, faults>>

LinkTemporary(p) ==
    /\ proc[p].pc \in Persists /\ proc[p].temp = "cleared"
    /\ \/ /\ next = NoRecord
          /\ next' = RecordOf(p)
          /\ proc' = [proc EXCEPT ![p].temp = "linked"]
       \/ /\ next # NoRecord
          /\ Throw(p) /\ UNCHANGED next
    /\ UNCHANGED <<defect, record, tree, journal, stray, deaths, faults>>

(* The rename, without replacement the first time, and the identity of     *)
(* what it published.  The temporary file of a failed rename is unlinked,  *)
(* whoever's it is.                                                        *)
Publish(p) ==
    LET may == next # NoRecord /\ (At(p, "recording") => record = NoRecord) IN
    /\ proc[p].pc \in Persists /\ proc[p].temp = "linked"
    /\ next' = NoRecord
    /\ \/ /\ may
          /\ record' = next
          /\ proc' = [proc EXCEPT ![p].pc = AfterPersist(p), ![p].temp = "todo",
                        ![p].mine = next, ![p].made = @ \cup {"record"}]
       \/ ~may /\ Throw(p) /\ UNCHANGED record
    /\ UNCHANGED <<defect, tree, journal, stray, deaths, faults>>

-----------------------------------------------------------------------------
(* CreateRecoverableDirectoryAt, twice.                                    *)
Follow(pc) ==
    CASE pc = "makingPayload" -> "openingPayload"
      [] pc = "openingPayload" -> "markingPayload"
      [] pc = "markingPayload" -> "recordingPayload"
      [] pc = "makingControl" -> "openingControl"
      [] pc = "openingControl" -> "markingControl"
      [] OTHER -> "recordingControl"

(* mkdirat.                                                                *)
MakeDirectory(p, dir) ==
    \/ /\ dir = Absent
       /\ dir' = [by |-> p, stage |-> "made"]
       /\ Goto(p, Follow(proc[p].pc))
    \/ dir # Absent /\ Throw(p) /\ UNCHANGED dir

(* The directory is opened by its name and the marker is created in it.    *)
(* If there is a marker already, what was opened is removed.               *)
OpenDirectory(p, dir) ==
    \/ dir = Absent /\ Throw(p) /\ UNCHANGED dir
    \/ /\ dir.stage = "made"
       /\ dir' = [by |-> p, stage |-> "marking"]
       /\ Goto(p, Follow(proc[p].pc))
    \/ dir # Absent /\ dir.stage # "made" /\ Throw(p) /\ dir' = Absent

(* The cookie is in the marker, on disk.                                   *)
MarkDirectory(p, name, dir) ==
    \/ /\ dir.by = p
       /\ dir' = [dir EXCEPT !.stage = "marked"]
       /\ proc' = [proc EXCEPT ![p].pc = Follow(@), ![p].made = @ \cup {name}]
    \/ dir.by # p /\ Throw(p) /\ UNCHANGED dir

MakePayload(p) ==
    /\ \/ At(p, "makingPayload") /\ MakeDirectory(p, payload)
       \/ At(p, "openingPayload") /\ OpenDirectory(p, payload)
       \/ At(p, "markingPayload") /\ MarkDirectory(p, "payload", payload)
    /\ UNCHANGED <<defect, next, record, control, journal, stray, deaths, faults>>

MakeControl(p) ==
    /\ \/ At(p, "makingControl") /\ MakeDirectory(p, control)
       \/ At(p, "openingControl") /\ OpenDirectory(p, control)
       \/ At(p, "markingControl") /\ MarkDirectory(p, "control", control)
    /\ UNCHANGED <<defect, next, record, payload, journal, stray, deaths, faults>>

-----------------------------------------------------------------------------
(* The archive is copied and unpacked.  An operation below a directory     *)
(* that is no longer there throws.                                         *)
InPayload(p, stage) ==
    payload.by = p /\ payload' = [payload EXCEPT !.stage = stage]

InControl(p, stage) ==
    control.by = p /\ control' = [control EXCEPT !.stage = stage]

(* CopyArtifact, then the digest.                                          *)
CopyArchive(p) ==
    /\ At(p, "copying")
    /\ \/ /\ InControl(p, "copied")
          /\ IF CopyDigestMatches THEN Goto(p, "recordingCopy") ELSE Throw(p)
       \/ control.by # p /\ Throw(p) /\ UNCHANGED control
    /\ UNCHANGED <<defect, next, record, payload, journal, stray, deaths, faults>>

(* ExtractArchive up to the first file, after which the record is renewed. *)
ExtractFirst(p) ==
    /\ At(p, "extracting")
    /\ \/ PreflightAccepts /\ InPayload(p, "first") /\ Goto(p, "recordingFirst")
       \/ /\ ~PreflightAccepts \/ payload.by # p
          /\ Throw(p) /\ UNCHANGED payload
    /\ UNCHANGED <<defect, next, record, control, journal, stray, deaths, faults>>

(* The rest of it, which may or may not be in the root directory.          *)
ExtractRest(p) ==
    /\ At(p, "extractingRest")
    /\ \/ /\ \E stage \in {"first", "more"} : InPayload(p, stage)
          /\ Goto(p, "unmarkingPayload")
       \/ payload.by # p /\ Throw(p) /\ UNCHANGED payload
    /\ UNCHANGED <<defect, next, record, control, journal, stray, deaths, faults>>

RemoveCleanupCookie(p) ==
    /\ \/ /\ At(p, "unmarkingPayload") /\ InPayload(p, "bare")
          /\ Goto(p, "unmarkingControl") /\ UNCHANGED control
       \/ /\ At(p, "unmarkingControl") /\ InControl(p, "bare")
          /\ Goto(p, "sealing") /\ UNCHANGED payload
       \/ /\ \/ At(p, "unmarkingPayload") /\ payload.by # p
             \/ At(p, "unmarkingControl") /\ control.by # p
          /\ Throw(p) /\ UNCHANGED tree
    /\ UNCHANGED <<defect, next, record, journal, stray, deaths, faults>>

(* Only what the archive held, exactly as it held it, is sealed.           *)
SealPayload(p) ==
    LET sound == ExecutablePresent /\ InventoryMatches /\ SealFits
    IN  /\ At(p, "sealing")
        /\ \/ sound /\ InControl(p, "sealed") /\ Goto(p, "recordingSeal")
           \/ /\ ~sound \/ control.by # p
              /\ Throw(p) /\ UNCHANGED control
        /\ UNCHANGED <<defect, next, record, payload, journal, stray, deaths, faults>>

(* The record must be the one persisted last.                              *)
RetainRecord(p) ==
    /\ At(p, "retaining")
    /\ IF record = proc[p].mine THEN Goto(p, "restaged") ELSE Throw(p)
    /\ UNCHANGED <<defect, next, record, tree, journal, stray, deaths, faults>>

-----------------------------------------------------------------------------
(* The transaction takes over.                                             *)

(* VerifyLinuxArchivePayload: by content, so by how far the trees are.     *)
Verified == payload.stage = "bare" /\ control.stage = "sealed"

(* PrepareDurableJournal: an exception destroys the restaged payload,      *)
(* which cleans up as the catch block of the restage does.                 *)
PersistJournal(p) ==
    /\ At(p, "restaged")
    /\ \/ Verified /\ journal = "none" /\ journal' = p /\ Goto(p, "journaled")
       \/ /\ ~Verified \/ journal # "none"
          /\ Throw(p) /\ UNCHANGED journal
    /\ UNCHANGED <<defect, next, record, tree, stray, deaths, faults>>

(* The journal owns the trees before the record is touched: nothing is     *)
(* left for the attempt to clean up.                                       *)
ArmForRecovery(p) ==
    /\ At(p, "journaled")
    /\ \/ /\ record \in {NoRecord, proc[p].mine}
          /\ record' = NoRecord
          /\ proc' = [proc EXCEPT ![p].pc = "armed", ![p].made = {}]
       \/ /\ record \notin {NoRecord, proc[p].mine}
          /\ proc' = [proc EXCEPT ![p].pc = "cleaningPayload", ![p].made = {}]
          /\ UNCHANGED record
    /\ UNCHANGED <<defect, next, tree, journal, stray, deaths, faults>>

-----------------------------------------------------------------------------
(* Cleaning up after an exception: what was made and is still there under  *)
(* its name.                                                               *)
CleanPayload(p) ==
    LET mine == "payload" \in proc[p].made /\ payload.by = p
        left == "payload" \in proc[p].made /\ payload.by \notin {p, "none"}
    IN  /\ At(p, "cleaningPayload")
        /\ payload' = IF mine THEN Absent ELSE payload
        /\ proc' = [proc EXCEPT ![p].pc = "cleaningControl",
                      ![p].made = IF left THEN @ ELSE @ \ {"payload"}]
        /\ UNCHANGED <<defect, next, record, control, journal, stray, deaths, faults>>

CleanControl(p) ==
    LET mine == "control" \in proc[p].made /\ control.by = p
        left == "control" \in proc[p].made /\ control.by \notin {p, "none"}
    IN  /\ At(p, "cleaningControl")
        /\ control' = IF mine THEN Absent ELSE control
        /\ proc' = [proc EXCEPT ![p].pc = "cleaningRecord",
                      ![p].made = IF left THEN @ ELSE @ \ {"control"}]
        /\ UNCHANGED <<defect, next, record, payload, journal, stray, deaths, faults>>

(* Mutated RecordDisposable: the record goes whatever was left.            *)
RecordAlwaysDisposable(made) == "record" \in made

(* The record is needed as long as anything is left.                       *)
RecordDisposable(made) == made = {"record"}

CleanRecord(p) ==
    LET made == proc[p].made IN
    /\ At(p, "cleaningRecord")
    /\ record' = IF RecordDisposable(made) /\ record = proc[p].mine
                 THEN NoRecord ELSE record
    /\ Leave(p, IF made \subseteq {"record"} THEN "failed" ELSE "manual")
    /\ UNCHANGED <<defect, next, tree, journal, stray, deaths, faults>>

-----------------------------------------------------------------------------
(* A file system operation fails.                                          *)

Faulty == faults < MaxFaults /\ faults' = faults + 1

(* Before there is anything of its own, and while cleaning up for another. *)
ReconcileFails(p) ==
    /\ proc[p].pc \in {"clearing", "reading", "removingPayload",
                       "tearingPayload", "removingControl", "tearingControl",
                       "droppingRecord"}
    /\ Faulty
    /\ Leave(p, IF proc[p].pc \in {"clearing", "reading", "droppingRecord"}
                THEN "failed" ELSE "manual")
    /\ UNCHANGED <<defect, next, record, tree, journal, stray, deaths>>

(* PersistRecoveryRecord may fail after its rename: the record is there,   *)
(* and the attempt does not know its identity.                             *)
PersistFails(p) ==
    /\ proc[p].pc \in Persists
    /\ Faulty
    /\ \/ /\ proc[p].temp = "linked" /\ next # NoRecord
          /\ At(p, "recording") => record = NoRecord
          /\ record' = next /\ next' = NoRecord
       \/ /\ next' = IF proc[p].temp = "linked" THEN NoRecord ELSE next
          /\ UNCHANGED record
    /\ Throw(p)
    /\ UNCHANGED <<defect, tree, journal, stray, deaths>>

(* CreateRecoverableDirectoryAt removes what it cannot finish.  When that  *)
(* fails too it says nothing of it, and the attempt does not know that it  *)
(* made anything.                                                          *)
HalfMade(p, dir, opening, marking) ==
    \/ At(p, opening) /\ dir.stage = "made"
    \/ At(p, marking) /\ dir.by = p

Emptied(dir) == [dir EXCEPT !.stage = "made"]

MakeFails(p) ==
    LET halfPayload == HalfMade(p, payload, "openingPayload", "markingPayload")
        halfControl == HalfMade(p, control, "openingControl", "markingControl")
    IN  /\ proc[p].pc \in {"makingPayload", "openingPayload", "markingPayload",
                           "makingControl", "openingControl", "markingControl"}
        /\ \/ /\ Faulty
              /\ payload' = IF halfPayload THEN Absent ELSE payload
              /\ control' = IF halfControl THEN Absent ELSE control
              /\ UNCHANGED stray
           \/ /\ Faulty
              /\ \/ /\ halfPayload /\ payload' \in {payload, Emptied(payload)}
                    /\ UNCHANGED control
                 \/ /\ halfControl /\ control' \in {control, Emptied(control)}
                    /\ UNCHANGED payload
              /\ stray' = TRUE
        /\ Throw(p)
        /\ UNCHANGED <<defect, next, record, journal, deaths>>

UnpackFails(p) ==
    /\ proc[p].pc \in {"copying", "extracting", "extractingRest",
                       "unmarkingPayload", "unmarkingControl", "sealing",
                       "retaining", "restaged"}
    /\ Faulty
    /\ Throw(p)
    /\ UNCHANGED <<defect, next, record, tree, journal, stray, deaths>>

(* The journal is published, and the exception comes after that.           *)
JournalFails(p) ==
    /\ At(p, "restaged") /\ Verified /\ journal = "none"
    /\ Faulty
    /\ journal' = p
    /\ Throw(p)
    /\ UNCHANGED <<defect, next, record, tree, stray, deaths>>

(* ArmForRecovery keeps the trees when the record cannot be removed.       *)
ArmFails(p) ==
    /\ At(p, "journaled")
    /\ Faulty
    /\ proc' = [proc EXCEPT ![p].pc = "cleaningPayload", ![p].made = {}]
    /\ UNCHANGED <<defect, next, record, tree, journal, stray, deaths>>

(* What could not be removed stays in made; some of it may be gone.        *)
CleanFails(p) ==
    /\ Faulty
    /\ \/ /\ At(p, "cleaningPayload") /\ "payload" \in proc[p].made
          /\ payload.by = p
          /\ payload' \in {payload, Torn(payload)}
          /\ Goto(p, "cleaningControl") /\ UNCHANGED control
       \/ /\ At(p, "cleaningControl") /\ "control" \in proc[p].made
          /\ control.by = p
          /\ control' \in {control, Torn(control)}
          /\ Goto(p, "cleaningRecord") /\ UNCHANGED payload
       \/ /\ At(p, "cleaningRecord") /\ "record" \in proc[p].made
          /\ Leave(p, IF proc[p].made = {"record"} THEN "failed" ELSE "manual")
          /\ UNCHANGED tree
    /\ UNCHANGED <<defect, next, record, journal, stray, deaths>>

(* The helper is killed, in the middle of a removal too.                   *)
Die(p) ==
    /\ OwnerProcessIsLive(p) /\ deaths < MaxDeaths
    /\ deaths' = deaths + 1
    /\ Leave(p, "dead")
    /\ \/ UNCHANGED tree
       \/ /\ At(p, "cleaningPayload") /\ "payload" \in proc[p].made
          /\ payload.by = p
          /\ payload' = Torn(payload) /\ UNCHANGED control
       \/ /\ At(p, "cleaningControl") /\ "control" \in proc[p].made
          /\ control.by = p
          /\ control' = Torn(control) /\ UNCHANGED payload
    /\ UNCHANGED <<defect, next, record, journal, stray, faults>>

Next ==
    \E p \in Attempts :
        \/ Begin(p) \/ ClearTemporary(p) \/ ReadRecord(p)
        \/ RemoveRecordedPayload(p) \/ RemoveRecordedControl(p)
        \/ FinishRemoval(p) \/ DropRecord(p)
        \/ ClearForPersist(p) \/ LinkTemporary(p) \/ Publish(p)
        \/ MakePayload(p) \/ MakeControl(p) \/ CopyArchive(p)
        \/ ExtractFirst(p) \/ ExtractRest(p) \/ RemoveCleanupCookie(p)
        \/ SealPayload(p) \/ RetainRecord(p)
        \/ PersistJournal(p) \/ ArmForRecovery(p)
        \/ CleanPayload(p) \/ CleanControl(p) \/ CleanRecord(p)
        \/ ReconcileFails(p) \/ PersistFails(p) \/ MakeFails(p)
        \/ UnpackFails(p) \/ JournalFails(p) \/ ArmFails(p)
        \/ CleanFails(p) \/ Die(p)

Spec == Init /\ [][Next]_vars

-----------------------------------------------------------------------------
(* Whatever an attempt leaves beside the target when no attempt runs is    *)
(* named by a recovery record or by the journal, so that a later attempt   *)
(* finds it (ReconcileRecoveryRecord), unless the removal of a half-made   *)
(* directory failed (CreateRecoverableDirectoryAt).                        *)
RemainsAreNamed ==
    /\ \A p \in Attempts : ~OwnerProcessIsLive(p)
    /\ tree # <<Absent, Absent>> /\ ~stray
    => record # NoRecord \/ journal # "none"

(* What a transaction is prepared with was made and sealed by one attempt, *)
(* passed every check, and was left alone by all others.                   *)
RestagedIsIntact ==
    \A p \in Attempts : proc[p].pc \in {"journaled", "armed"} =>
        /\ defect = "none" /\ journal = p
        /\ payload = [by |-> p, stage |-> "bare"]
        /\ control = [by |-> p, stage |-> "sealed"]

(* No step of an attempt changes a directory that another, live one has    *)
(* marked: not while it cleans up after a dead third one                   *)
(* (OwnerProcessIsLive, the cookie and the identities of its record), and  *)
(* not while it builds or cleans up after itself.  The one exception is in *)
(* CreateRecoverableDirectoryAt, which opens the directory it has just     *)
(* made by its name: if that is another's by now, and marked, it is        *)
(* removed.                                                                *)
Works(p) == OwnerProcessIsLive(p) /\ OwnerProcessIsLive(p)'

Opening(p) == proc[p].pc \in {"openingPayload", "openingControl"}

Spared(dir, p) == dir.by = p /\ dir.stage # "made" => dir' = dir

LiveWorkSurvives ==
    [][\A p, q \in Attempts :
          /\ p # q /\ Works(p)
          /\ proc'[q] # proc[q] /\ ~Opening(q)
          => Spared(payload, p) /\ Spared(control, p)]_vars
=============================================================================
