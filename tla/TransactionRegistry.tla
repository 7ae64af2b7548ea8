------------------------- MODULE TransactionRegistry -------------------------
(***************************************************************************)
(* LinuxTransactionRegistry: the index record of one transaction, a leaf   *)
(* and its ".next" sibling in a private directory.  Persist and Load hold  *)
(* the directory's flock from their first read to their return, so one     *)
(* operation runs at a time; but a helper may die, a call may fail and the *)
(* machine may lose power between any two of its system calls.             *)
(*                                                                         *)
(* disk is the set of directory states a power loss may leave; a file that *)
(* was not flushed may then hold anything, which is to say not decode.     *)
(***************************************************************************)
EXTENDS TransactionStates

VARIABLES dir,    \* leaf and next, as running processes see them
          disk,   \* the states of dir that may survive a power loss
          op,     \* the operation under the flock
          told,   \* the record last returned to a caller, by Load or Persist
          synced  \* the record of the last Persist that wrote, synced and returned

vars == <<dir, disk, op, told, synced>>

File == [rec : Record \cup {NoRecord, TornRecord}, flushed : BOOLEAN]

NoFile == [rec |-> NoRecord, flushed |-> TRUE]

(* A file just created: empty, so it does not decode.                      *)
EmptyFile == [rec |-> TornRecord, flushed |-> FALSE]

Directory == [leaf : File, next : File]

Pcs == {"idle", "reconcile", "cleaned", "promoted", "ready", "created", "write",
        "flush", "rename", "sync"}

(* A Load has no record to write.                                          *)
Operation == [pc : Pcs, rec : Record \cup {NoRecord}]

NoOperation == [pc |-> "idle", rec |-> NoRecord]

Init ==
    /\ dir = [leaf |-> NoFile, next |-> NoFile]
    /\ disk = {dir}
    /\ op = NoOperation
    /\ told = NoRecord
    /\ synced = NoRecord

Change(d) == dir' = d /\ disk' = disk \cup {d}

SyncDirectory == disk' = {dir} /\ UNCHANGED dir

SameDirectory == UNCHANGED <<dir, disk>>

SameReplies == UNCHANGED <<told, synced>>

Goto(pc) == op' = [pc |-> pc, rec |-> op.rec]

(* The operation throws: the flock is released, what was written stays.    *)
Throw == op' = NoOperation /\ SameReplies

(* Mutated Accepts: the record found is not compared with the new one.     *)
AcceptsAny(current, r) == TRUE

(* No record yet, or ValidateTransition lets it become r.                  *)
Accepts(current, r) == current # NoRecord => ValidTransition(current, r)

-----------------------------------------------------------------------------
(* A transaction's first record is Authorize's; every other is written by  *)
(* a helper that was told one.                                             *)
BeginPersist ==
    /\ op.pc = "idle"
    /\ \E r \in Record :
         /\ told = NoRecord => r.state = "preparing" /\ r.journal = NoJournal
         /\ op' = [pc |-> "reconcile", rec |-> r]
    /\ SameDirectory /\ SameReplies

BeginLoad ==
    /\ op.pc = "idle"
    /\ op' = [pc |-> "reconcile", rec |-> NoRecord]
    /\ SameDirectory /\ SameReplies

(* Mutated ReadLeaf: a Load takes a leaf that does not decode as it is.    *)
ReadLeafUndecoded ==
    /\ op.pc = "reconcile"
    /\ dir.next.rec = NoRecord
    /\ dir.leaf.rec = TornRecord => op.rec = NoRecord
    /\ Goto("ready") /\ SameDirectory /\ SameReplies

(* ReconcileTornNext: a next that does not decode is unlinked, one that    *)
(* does is promoted.                                                       *)
ReadLeaf ==
    /\ op.pc = "reconcile"
    /\ dir.next.rec = NoRecord /\ dir.leaf.rec # TornRecord
    /\ Goto("ready") /\ SameDirectory /\ SameReplies

LeafUnreadable ==
    /\ op.pc = "reconcile"
    /\ dir.leaf.rec = TornRecord
    /\ Throw /\ SameDirectory

UnlinkNext ==
    /\ op.pc = "reconcile"
    /\ dir.next.rec = TornRecord /\ dir.leaf.rec # TornRecord
    /\ Change([leaf |-> dir.leaf, next |-> NoFile])
    /\ Goto("cleaned") /\ SameReplies

(* Mutated PromoteNext: what another helper left is always discarded.      *)
PromoteNextDiscarding ==
    /\ op.pc = "reconcile"
    /\ dir.next.rec \in Record /\ dir.leaf.rec # TornRecord
    /\ Change([leaf |-> dir.leaf, next |-> NoFile])
    /\ Goto("promoted") /\ SameReplies

(* Renamed without a flush of the file; the directory sync follows.        *)
PromoteNext ==
    /\ op.pc = "reconcile"
    /\ dir.next.rec \in Record /\ dir.leaf.rec # TornRecord
    /\ Accepts(dir.leaf.rec, dir.next.rec)
    /\ Change([leaf |-> dir.next, next |-> NoFile])
    /\ Goto("promoted") /\ SameReplies

Reconciled ==
    /\ op.pc \in {"cleaned", "promoted"}
    /\ SyncDirectory /\ Goto("ready") /\ SameReplies

LoadReturns ==
    /\ op.pc = "ready" /\ op.rec = NoRecord
    /\ told' = dir.leaf.rec
    /\ op' = NoOperation
    /\ SameDirectory /\ UNCHANGED synced

(* The rest of Persist.                                                    *)
PersistRejected ==
    /\ op.pc = "ready" /\ op.rec # NoRecord
    /\ ~Accepts(dir.leaf.rec, op.rec)
    /\ Throw /\ SameDirectory

(* An equal record is already there: nothing is written, nothing synced.   *)
PersistSame ==
    /\ op.pc = "ready" /\ op.rec # NoRecord
    /\ dir.leaf.rec = op.rec
    /\ told' = op.rec
    /\ op' = NoOperation
    /\ SameDirectory /\ UNCHANGED synced

CreateNext ==
    /\ op.pc = "ready" /\ op.rec # NoRecord
    /\ Accepts(dir.leaf.rec, op.rec) /\ dir.leaf.rec # op.rec
    /\ Change([leaf |-> dir.leaf, next |-> EmptyFile])
    /\ Goto("created") /\ SameReplies

CreateSynced ==
    /\ op.pc = "created"
    /\ SyncDirectory /\ Goto("write") /\ SameReplies

(* The directory was just synced: dir is the only state of disk.           *)
WriteNext ==
    /\ op.pc = "write"
    /\ dir' = [leaf |-> dir.leaf, next |-> [rec |-> op.rec, flushed |-> FALSE]]
    /\ disk' = {dir'}
    /\ Goto("flush") /\ SameReplies

FlushNext ==
    /\ op.pc = "flush"
    /\ dir' = [leaf |-> dir.leaf, next |-> [rec |-> dir.next.rec, flushed |-> TRUE]]
    /\ disk' = {dir'}
    /\ Goto("rename") /\ SameReplies

RenameNext ==
    /\ op.pc = "rename"
    /\ Change([leaf |-> dir.next, next |-> NoFile])
    /\ Goto("sync") /\ SameReplies

(* Mutated PersistSynced: Persist returns without the directory sync.      *)
PersistReturnsUnsynced ==
    /\ op.pc = "sync"
    /\ SameDirectory
    /\ told' = op.rec /\ synced' = op.rec
    /\ op' = NoOperation

PersistSynced ==
    /\ op.pc = "sync"
    /\ SyncDirectory
    /\ told' = op.rec /\ synced' = op.rec
    /\ op' = NoOperation

(* A system call fails and the operation throws, or the helper dies.       *)
OperationEnds ==
    /\ op.pc # "idle"
    /\ Throw /\ SameDirectory

-----------------------------------------------------------------------------
(* After a power loss a flushed file holds what was written, another one   *)
(* that or nothing that decodes.                                           *)
Survivors(f) ==
    {[rec |-> f.rec, flushed |-> TRUE]}
      \cup (IF f.flushed THEN {} ELSE {[rec |-> TornRecord, flushed |-> TRUE]})

PowerLoss ==
    /\ \E d \in disk : \E leaf \in Survivors(d.leaf), next \in Survivors(d.next) :
         dir' = [leaf |-> leaf, next |-> next]
    /\ disk' = {dir'}
    /\ op' = NoOperation
    /\ SameReplies

Step ==
    \/ BeginPersist \/ BeginLoad \/ ReadLeaf \/ UnlinkNext \/ PromoteNext
    \/ Reconciled \/ LoadReturns \/ PersistRejected \/ PersistSame \/ CreateNext
    \/ CreateSynced \/ WriteNext \/ FlushNext \/ RenameNext \/ PersistSynced
    \/ LeafUnreadable \/ OperationEnds

(* Helpers die and calls fail, but the machine keeps running.              *)
ProcessSpec == Init /\ [][Step]_vars

Spec == Init /\ [][Step \/ PowerLoss]_vars

-----------------------------------------------------------------------------
(* Files, operations and replies are of their types, and an operation that *)
(* writes has a record to write.                                           *)
TypeOK ==
    /\ dir \in Directory
    /\ disk \subseteq Directory
    /\ op \in Operation
    /\ op.pc \in {"created", "write", "flush", "rename", "sync"} => op.rec \in Record
    /\ told \in Record \cup {NoRecord}
    /\ synced \in Record \cup {NoRecord}

(* Persist, ReconcileTornNext: whoever died while writing it, a next that  *)
(* decodes is a legal successor of the leaf on every state that may        *)
(* survive, so the next operation is never refused because of it.          *)
NextSucceedsLeaf ==
    \A d \in disk \cup {dir} :
      d.next.rec \in Record /\ d.leaf.rec \in Record => ValidTransition(d.leaf.rec, d.next.rec)

(* The states accepted transitions lead to from a state, in any number.    *)
Later ==
    [from \in States |->
        {to \in States :
            \A S \in SUBSET States :
              from \in S /\ (\A s \in S : Successors(s) \subseteq S) => to \in S}]

(* Persist: what a Persist wrote before it returned outlives a power loss  *)
(* at any later moment: the leaf that survives never holds an older record *)
(* (it may be unreadable: a later record promoted without a flush).        *)
NeverOlderThanSynced ==
    synced # NoRecord =>
      \A d \in disk :
        /\ d.leaf.rec # NoRecord
        /\ d.leaf.rec \in Record => d.leaf.rec.state \in Later[synced.state]

(* The record a Load would return.                                         *)
Logical == IF dir.next.rec \in Record THEN dir.next.rec ELSE dir.leaf.rec

(* Persist, Load: as long as the machine keeps running the registry is the *)
(* register its callers expect, whichever helpers die in it.               *)
Register == INSTANCE RecordRegister WITH value <- Logical

ImplementsRegister == Register!Spec

-----------------------------------------------------------------------------
(* The parts of the inductive invariant: what an operation knows of the    *)
(* files at each of its steps.                                             *)
DirectoryMaySurvive == dir \in disk

ReconciledFiles ==
    /\ op.pc \in {"cleaned", "promoted", "ready", "sync"} => dir.next.rec = NoRecord
    /\ op.pc \notin {"idle", "reconcile"} => dir.leaf.rec # TornRecord

WritingFiles ==
    /\ op.pc \in {"created", "write"} => dir.next.rec = TornRecord
    /\ op.pc \in {"flush", "rename"} => dir.next.rec = op.rec
    /\ op.pc \in {"write", "flush", "rename"} => disk = {dir}
    /\ op.pc \in {"created", "write", "flush", "rename"} => Accepts(dir.leaf.rec, op.rec)
    /\ op.pc = "sync" => dir.leaf.rec = op.rec

RegistryInv ==
    /\ TypeOK
    /\ NextSucceedsLeaf
    /\ DirectoryMaySurvive
    /\ ReconciledFiles
    /\ WritingFiles

(* Without power losses a leaf always decodes.                             *)
LeafDecodes == dir.leaf.rec # TornRecord

=============================================================================
