----------------------- MODULE TransactionRegistryProofs -----------------------
(***************************************************************************)
(* Proofs about the transaction registry: its invariant under helper       *)
(* deaths and power losses, the durability of what Persist synced, and the *)
(* register it implements as long as the machine keeps running.            *)
(***************************************************************************)
EXTENDS TransactionRegistry, TLAPS

(* "none" and "torn" are no states of a record.                            *)
LEMMA RecordsDistinct ==
    NoRecord \notin Record /\ TornRecord \notin Record /\ NoRecord # TornRecord
  <1>1. \A r \in Record : r.state \in States
    BY DEF Record
  <1>2. "none" \notin States /\ "torn" \notin States
    BY DEF States, ActiveStates, TerminalStates
  <1>3. NoRecord.state = "none" /\ TornRecord.state = "torn"
    BY DEF NoRecord, TornRecord
  <1> QED BY <1>1, <1>2, <1>3

(* A state is later than itself, and its successors than what it follows.  *)
LEMMA LaterClosed ==
    ASSUME NEW from \in States
    PROVE  /\ from \in Later[from]
           /\ \A s \in Later[from] : \A t \in States :
                AllowedStateTransition(s, t) => t \in Later[from]
  <1>1. \A s : s \in Later[from] <=>
          /\ s \in States
          /\ \A S \in SUBSET States :
               from \in S /\ (\A x \in S : Successors(x) \subseteq S) => s \in S
    BY DEF Later
  <1> QED BY <1>1 DEF AllowedStateTransition

(* The initial directory is empty and on disk.                             *)
LEMMA InitRegistryInv == Init => RegistryInv
  <1> SUFFICES ASSUME Init PROVE RegistryInv
    OBVIOUS
  <1> USE RecordsDistinct DEF Init, NoFile, NoOperation
  <1>1. TypeOK
    BY DEF TypeOK, Directory, File, Operation, Pcs
  <1>2. NextSucceedsLeaf
    BY DEF NextSucceedsLeaf
  <1>3. DirectoryMaySurvive /\ ReconciledFiles /\ WritingFiles
    BY DEF DirectoryMaySurvive, ReconciledFiles, WritingFiles
  <1> QED BY <1>1, <1>2, <1>3 DEF RegistryInv

(* A file in a directory of the right type, part by part.                  *)
LEMMA DirectoryParts ==
    \A d \in Directory : /\ d.leaf \in File /\ d.next \in File
                         /\ d = [leaf |-> d.leaf, next |-> d.next]
                         /\ d.leaf.rec \in Record \cup {NoRecord, TornRecord}
                         /\ d.next.rec \in Record \cup {NoRecord, TornRecord}
                         /\ d.leaf.flushed \in BOOLEAN /\ d.next.flushed \in BOOLEAN
  BY DEF Directory, File

(* Files put together again.                                               *)
LEMMA FilesBuild ==
    /\ NoFile \in File /\ EmptyFile \in File
    /\ \A r \in Record \cup {NoRecord, TornRecord} :
         \A b \in BOOLEAN : [rec |-> r, flushed |-> b] \in File
    /\ \A f, g \in File : [leaf |-> f, next |-> g] \in Directory
    /\ \A f \in File : Survivors(f) \subseteq File
  <1>1. NoFile \in File /\ EmptyFile \in File
    BY DEF File, NoFile, EmptyFile
  <1>2. \A r \in Record \cup {NoRecord, TornRecord} :
          \A b \in BOOLEAN : [rec |-> r, flushed |-> b] \in File
    BY DEF File
  <1>3. \A f, g \in File : [leaf |-> f, next |-> g] \in Directory
    BY DEF Directory
  <1>4. ASSUME NEW f \in File, NEW g \in Survivors(f) PROVE g \in File
    <2>1. f.rec \in Record \cup {NoRecord, TornRecord}
      BY DEF File
    <2>2. g = [rec |-> f.rec, flushed |-> TRUE] \/ g = [rec |-> TornRecord, flushed |-> TRUE]
      BY <1>4 DEF Survivors
    <2> QED BY <1>2, <2>1, <2>2
  <1> QED BY <1>1, <1>2, <1>3, <1>4

(* Every step keeps the types.                                             *)
LEMMA TypeStep == RegistryInv /\ [Step \/ PowerLoss]_vars => TypeOK'
  <1> SUFFICES ASSUME RegistryInv, [Step \/ PowerLoss]_vars PROVE TypeOK'
    OBVIOUS
  <1>0. TypeOK /\ ReconciledFiles /\ dir \in disk
    BY DEF RegistryInv, DirectoryMaySurvive
  <1>1. op' \in Operation
    BY <1>0, RecordsDistinct DEF TypeOK, Operation, Pcs, vars, Step, PowerLoss, BeginPersist, BeginLoad,
       ReadLeaf, UnlinkNext, PromoteNext, Reconciled, LoadReturns, PersistRejected,
       PersistSame, CreateNext, CreateSynced, WriteNext, FlushNext, RenameNext,
       PersistSynced, LeafUnreadable, OperationEnds, Goto, Throw, NoOperation
  <1>2. op'.pc \in {"created", "write", "flush", "rename", "sync"} => op'.rec \in Record
    BY <1>0 DEF TypeOK, Operation, vars, Step, PowerLoss, BeginPersist, BeginLoad,
       ReadLeaf, UnlinkNext, PromoteNext, Reconciled, LoadReturns, PersistRejected,
       PersistSame, CreateNext, CreateSynced, WriteNext, FlushNext, RenameNext,
       PersistSynced, LeafUnreadable, OperationEnds, Goto, Throw, NoOperation
  <1>3. told' \in Record \cup {NoRecord} /\ synced' \in Record \cup {NoRecord}
    BY <1>0, DirectoryParts DEF TypeOK, ReconciledFiles, vars, Step, PowerLoss, BeginPersist,
       BeginLoad, ReadLeaf, UnlinkNext, PromoteNext, Reconciled, LoadReturns, PersistRejected,
       PersistSame, CreateNext, CreateSynced, WriteNext, FlushNext, RenameNext,
       PersistSynced, LeafUnreadable, OperationEnds, Throw, SameReplies
  <1>4. dir' \in Directory /\ disk' \subseteq Directory
    <2>1. CASE PowerLoss
      <3>1. dir' \in Directory
        BY <1>0, <2>1, DirectoryParts, FilesBuild DEF TypeOK, PowerLoss
      <3> QED BY <2>1, <3>1 DEF PowerLoss
    <2>2. CASE UnlinkNext \/ PromoteNext \/ CreateNext \/ RenameNext
      BY <1>0, <2>2, DirectoryParts, FilesBuild DEF TypeOK, UnlinkNext, PromoteNext, CreateNext,
         RenameNext, Change
    <2>3. CASE WriteNext \/ FlushNext
      <3>1. dir' \in Directory
        BY <1>0, <2>3, DirectoryParts, FilesBuild DEF TypeOK, WriteNext, FlushNext
      <3> QED BY <2>3, <3>1 DEF WriteNext, FlushNext
    <2>4. CASE Reconciled \/ CreateSynced \/ PersistSynced
      BY <1>0, <2>4 DEF TypeOK, Reconciled, CreateSynced, PersistSynced, SyncDirectory
    <2>5. CASE UNCHANGED <<dir, disk>>
      BY <1>0, <2>5 DEF TypeOK
    <2> QED BY <2>1, <2>2, <2>3, <2>4, <2>5 DEF Step, vars, BeginPersist, BeginLoad, ReadLeaf,
         LoadReturns, PersistRejected, PersistSame, LeafUnreadable, OperationEnds, SameDirectory
  <1> QED BY <1>1, <1>2, <1>3, <1>4 DEF TypeOK

(* Every step leaves a next that the leaf's record may become.             *)
LEMMA SuccessorStep ==
    RegistryInv /\ [Step \/ PowerLoss]_vars => NextSucceedsLeaf' /\ DirectoryMaySurvive'
  <1> SUFFICES ASSUME RegistryInv, [Step \/ PowerLoss]_vars
               PROVE  NextSucceedsLeaf' /\ DirectoryMaySurvive'
    OBVIOUS
  <1>0. /\ TypeOK /\ dir \in disk /\ WritingFiles
        /\ \A d \in disk : d.next.rec \in Record /\ d.leaf.rec \in Record
                           => ValidTransition(d.leaf.rec, d.next.rec)
    BY DEF RegistryInv, DirectoryMaySurvive, NextSucceedsLeaf
  <1> USE RecordsDistinct
  <1>1. CASE PowerLoss
    <2>1. PICK d \in disk : \E leaf \in Survivors(d.leaf), next \in Survivors(d.next) :
            dir' = [leaf |-> leaf, next |-> next]
      BY <1>1 DEF PowerLoss
    <2>2. /\ dir'.leaf.rec \in {d.leaf.rec, TornRecord}
          /\ dir'.next.rec \in {d.next.rec, TornRecord}
      <3>1. \A f, g : g \in Survivors(f) => g.rec \in {f.rec, TornRecord}
        BY DEF Survivors
      <3>2. PICK leaf \in Survivors(d.leaf), next \in Survivors(d.next) :
              dir' = [leaf |-> leaf, next |-> next]
        BY <2>1
      <3>3. dir'.leaf = leaf /\ dir'.next = next
        BY <3>2
      <3> QED BY <3>1, <3>2, <3>3
    <2>3. disk' = {dir'}
      BY <1>1 DEF PowerLoss
    <2> QED BY <1>0, <2>1, <2>2, <2>3 DEF NextSucceedsLeaf, DirectoryMaySurvive
  <1>2. CASE UnlinkNext \/ PromoteNext \/ CreateNext \/ RenameNext
    <2>1. disk' = disk \cup {dir'} /\ dir'.next.rec \in {NoRecord, TornRecord}
      <3>1. NoFile.rec = NoRecord /\ EmptyFile.rec = TornRecord
        BY DEF NoFile, EmptyFile
      <3>2. dir'.next \in {NoFile, EmptyFile}
        BY <1>2 DEF UnlinkNext, PromoteNext, CreateNext, RenameNext, Change
      <3>3. disk' = disk \cup {dir'}
        BY <1>2 DEF UnlinkNext, PromoteNext, CreateNext, RenameNext, Change
      <3> QED BY <3>1, <3>2, <3>3
    <2> QED BY <1>0, <2>1 DEF NextSucceedsLeaf, DirectoryMaySurvive
  <1>3. CASE WriteNext \/ FlushNext
    <2>1. /\ disk' = {dir'} /\ dir'.next.rec = op.rec /\ dir'.leaf.rec = dir.leaf.rec
          /\ Accepts(dir.leaf.rec, op.rec)
      BY <1>0, <1>3 DEF WriteNext, FlushNext, WritingFiles
    <2> QED BY <2>1 DEF NextSucceedsLeaf, DirectoryMaySurvive, Accepts
  <1>4. CASE Reconciled \/ CreateSynced \/ PersistSynced
    BY <1>0, <1>4 DEF Reconciled, CreateSynced, PersistSynced, SyncDirectory,
       NextSucceedsLeaf, DirectoryMaySurvive
  <1>5. CASE UNCHANGED <<dir, disk>>
    BY <1>0, <1>5 DEF NextSucceedsLeaf, DirectoryMaySurvive
  <1> QED BY <1>1, <1>2, <1>3, <1>4, <1>5 DEF Step, vars, BeginPersist, BeginLoad, ReadLeaf,
       LoadReturns, PersistRejected, PersistSame, LeafUnreadable, OperationEnds, SameDirectory

(* Every step leaves the files as the operation's next step expects them.  *)
LEMMA OperationStep ==
    RegistryInv /\ [Step \/ PowerLoss]_vars => ReconciledFiles' /\ WritingFiles'
  <1> SUFFICES ASSUME RegistryInv, [Step \/ PowerLoss]_vars
               PROVE  ReconciledFiles' /\ WritingFiles'
    OBVIOUS
  <1>0. TypeOK /\ ReconciledFiles /\ WritingFiles
    BY DEF RegistryInv
  <1> USE RecordsDistinct DEF ReconciledFiles, WritingFiles
  <1>1. CASE PowerLoss \/ LoadReturns \/ PersistRejected \/ PersistSame \/ LeafUnreadable
             \/ OperationEnds \/ PersistSynced
    BY <1>1 DEF PowerLoss, LoadReturns, PersistRejected, PersistSame, LeafUnreadable,
       OperationEnds, PersistSynced, Throw, NoOperation
  <1>2. CASE BeginPersist \/ BeginLoad
    BY <1>2 DEF BeginPersist, BeginLoad
  <1>3. CASE ReadLeaf \/ Reconciled
    BY <1>0, <1>3 DEF ReadLeaf, Reconciled, Goto, SameDirectory, SyncDirectory
  <1>4. CASE UnlinkNext
    BY <1>4 DEF UnlinkNext, Change, Goto, NoFile
  <1>5. CASE PromoteNext
    BY <1>5 DEF PromoteNext, Change, Goto, NoFile
  <1>6. CASE CreateNext
    BY <1>0, <1>6 DEF CreateNext, Change, Goto, EmptyFile
  <1>7. CASE CreateSynced
    BY <1>0, <1>7 DEF CreateSynced, SyncDirectory, Goto
  <1>8. CASE WriteNext \/ FlushNext
    BY <1>0, <1>8 DEF WriteNext, FlushNext, Goto
  <1>9. CASE RenameNext
    BY <1>0, <1>9 DEF TypeOK, RenameNext, Change, Goto, NoFile
  <1>10. CASE UNCHANGED vars
    BY <1>0, <1>10 DEF vars
  <1> QED BY <1>1, <1>2, <1>3, <1>4, <1>5, <1>6, <1>7, <1>8, <1>9, <1>10 DEF Step

(* The inductive step.                                                     *)
LEMMA RegistryInvStep == RegistryInv /\ [Step \/ PowerLoss]_vars => RegistryInv'
  BY TypeStep, SuccessorStep, OperationStep DEF RegistryInv

(* Whatever helpers die and whenever the power fails, the registry's       *)
(* invariant holds.                                                        *)
THEOREM RegistryInvHolds == Spec => []RegistryInv
  BY InitRegistryInv, RegistryInvStep, PTL DEF Spec

(* Every record, file and operation of the registry is of its type: in     *)
(* particular bytes that do not decode are never returned to a caller.     *)
THEOREM RegistryTypeCorrect == Spec => []TypeOK
  <1>1. RegistryInv => TypeOK
    BY DEF RegistryInv
  <1> QED BY <1>1, RegistryInvHolds, PTL

(* A next left behind by a dead helper or a power loss can always be       *)
(* promoted.                                                               *)
THEOREM NextAlwaysPromotable == Spec => []NextSucceedsLeaf
  <1>1. RegistryInv => NextSucceedsLeaf
    BY DEF RegistryInv
  <1> QED BY <1>1, RegistryInvHolds, PTL


-----------------------------------------------------------------------------
(* What was synced is not forgotten by any step.                           *)
LEMMA SyncedStep ==
    RegistryInv /\ NeverOlderThanSynced /\ [Step \/ PowerLoss]_vars => NeverOlderThanSynced'
  <1> SUFFICES ASSUME RegistryInv, NeverOlderThanSynced, [Step \/ PowerLoss]_vars
               PROVE  NeverOlderThanSynced'
    OBVIOUS
  <1>0. TypeOK /\ dir \in disk /\ ReconciledFiles /\ WritingFiles
    BY DEF RegistryInv, DirectoryMaySurvive
  <1> USE RecordsDistinct
  <1>1. \A r \in Record : r.state \in States
    BY DEF Record
  <1> SUFFICES ASSUME synced' # NoRecord, NEW e \in disk'
               PROVE  /\ e.leaf.rec # NoRecord
                      /\ e.leaf.rec \in Record => e.leaf.rec.state \in Later[synced'.state]
    BY DEF NeverOlderThanSynced
  <1>2. CASE PersistSynced
    <2>1. e = dir /\ dir.leaf.rec = op.rec /\ op.rec \in Record /\ synced' = op.rec
      BY <1>0, <1>2 DEF PersistSynced, SyncDirectory, WritingFiles, TypeOK
    <2> QED BY <1>1, <2>1, LaterClosed
  <1>3. CASE synced' = synced
    <2>0. synced \in Record /\ synced.state \in States
      BY <1>0, <1>1, <1>3 DEF TypeOK
    <2>1. ASSUME NEW d \in disk
          PROVE  /\ d.leaf.rec # NoRecord
                 /\ d.leaf.rec \in Record => d.leaf.rec.state \in Later[synced.state]
      BY <1>3 DEF NeverOlderThanSynced
    <2>2. ASSUME NEW r \in Record, Accepts(dir.leaf.rec, r), dir.leaf.rec # TornRecord
          PROVE  r.state \in Later[synced.state]
      <3>1. dir.leaf.rec \in Record /\ dir.leaf.rec.state \in Later[synced.state]
        BY <1>0, <2>1, <2>2, DirectoryParts DEF TypeOK
      <3>2. AllowedStateTransition(dir.leaf.rec.state, r.state)
        BY <2>2, <3>1 DEF Accepts, ValidTransition
      <3> QED BY <1>1, <2>0, <3>1, <3>2, LaterClosed
    <2>3. CASE PowerLoss
      <3>1. PICK d \in disk : \E leaf \in Survivors(d.leaf), next \in Survivors(d.next) :
              dir' = [leaf |-> leaf, next |-> next]
        BY <2>3 DEF PowerLoss
      <3>2. e = dir'
        BY <2>3 DEF PowerLoss
      <3>3. \A f, g : g \in Survivors(f) => g.rec \in {f.rec, TornRecord}
        BY DEF Survivors
      <3>4. e.leaf.rec \in {d.leaf.rec, TornRecord}
        <4>1. PICK leaf \in Survivors(d.leaf), next \in Survivors(d.next) :
                dir' = [leaf |-> leaf, next |-> next]
          BY <3>1
        <4>2. e.leaf = leaf
          BY <3>2, <4>1
        <4> QED BY <3>3, <4>1, <4>2
      <3> QED BY <1>3, <2>1, <3>1, <3>4
    <2>4. CASE UnlinkNext \/ CreateNext \/ WriteNext \/ FlushNext
      <3>1. e \in disk \/ e.leaf = dir.leaf
        BY <2>4 DEF UnlinkNext, CreateNext, WriteNext, FlushNext, Change
      <3> QED BY <1>0, <1>3, <2>1, <3>1
    <2>5. CASE PromoteNext \/ RenameNext
      <3>1. e \in disk \/ e.leaf = dir.next
        BY <2>5 DEF PromoteNext, RenameNext, Change
      <3>2. dir.next.rec \in Record /\ Accepts(dir.leaf.rec, dir.next.rec)
            /\ dir.leaf.rec # TornRecord
        BY <1>0, <2>5 DEF PromoteNext, RenameNext, ReconciledFiles, WritingFiles, TypeOK
      <3> QED BY <1>3, <2>1, <2>2, <3>1, <3>2
    <2>6. CASE Reconciled \/ CreateSynced
      BY <1>0, <1>3, <2>1, <2>6 DEF Reconciled, CreateSynced, SyncDirectory
    <2>7. CASE UNCHANGED disk
      BY <1>3, <2>1, <2>7
    <2>8. CASE PersistSynced
      BY <1>2, <2>8
    <2> QED BY <2>3, <2>4, <2>5, <2>6, <2>7, <2>8 DEF Step, vars, BeginPersist, BeginLoad,
         ReadLeaf, LoadReturns, PersistRejected, PersistSame, LeafUnreadable, OperationEnds,
         SameDirectory
  <1> QED BY <1>2, <1>3 DEF Step, vars, PowerLoss, BeginPersist, BeginLoad, ReadLeaf, UnlinkNext,
       PromoteNext, Reconciled, LoadReturns, PersistRejected, PersistSame, CreateNext,
       CreateSynced, WriteNext, FlushNext, RenameNext, LeafUnreadable, OperationEnds, Throw,
       SameReplies

(* What Persist wrote and synced before it returned outlives every later   *)
(* power loss: the leaf never goes back to an older record.                *)
THEOREM SyncedIsDurable == Spec => []NeverOlderThanSynced
  <1>1. Init => NeverOlderThanSynced
    BY DEF Init, NeverOlderThanSynced
  <1> QED BY <1>1, SyncedStep, RegistryInvHolds, PTL DEF Spec

-----------------------------------------------------------------------------
(* Without power losses every leaf was written in full.                    *)
LEMMA LeafDecodesStep == RegistryInv /\ LeafDecodes /\ [Step]_vars => LeafDecodes'
  <1> SUFFICES ASSUME RegistryInv, LeafDecodes, [Step]_vars PROVE dir'.leaf.rec # TornRecord
    BY DEF LeafDecodes
  <1>1. CASE PromoteNext \/ RenameNext
    <2>1. dir'.leaf = dir.next /\ dir.next.rec \in Record
      BY <1>1 DEF PromoteNext, RenameNext, Change, RegistryInv, WritingFiles, TypeOK
    <2> QED BY <2>1, RecordsDistinct
  <1>2. CASE dir'.leaf = dir.leaf
    BY <1>2 DEF LeafDecodes
  <1> QED BY <1>1, <1>2 DEF Step, vars, BeginPersist, BeginLoad, ReadLeaf, UnlinkNext,
       Reconciled, LoadReturns, PersistRejected, PersistSame, CreateNext, CreateSynced,
       WriteNext, FlushNext, PersistSynced, LeafUnreadable, OperationEnds, Change,
       SyncDirectory, SameDirectory

(* The register's records and transitions are the registry's.              *)
LEMMA SameRecords ==
    /\ Register!Record = Record /\ Register!NoRecord = NoRecord
    /\ \A a, b : ValidTransition(a, b) => Register!ValidTransition(a, b)
  <1>1. Register!States = States
    BY DEF Register!States, Register!ActiveStates, Register!TerminalStates, States,
       ActiveStates, TerminalStates
  <1>2. Register!Record = Record /\ Register!NoRecord = NoRecord
    BY <1>1 DEF Register!Record, Record, Register!NoRecord, NoRecord
  <1>3. \A x : Register!Successors(x) = Successors(x)
    BY DEF Register!Successors, Successors
  <1>4. \A a, b : ValidTransition(a, b) => Register!ValidTransition(a, b)
    BY <1>3 DEF Register!ValidTransition, ValidTransition, Register!AllowedStateTransition,
       AllowedStateTransition
  <1> QED BY <1>2, <1>4

(* Each step of the registry is a step of the register or changes nothing  *)
(* a caller can see.                                                       *)
LEMMA RegisterStep ==
    RegistryInv /\ LeafDecodes /\ [Step]_vars
      => [Register!Write \/ Register!Tell]_<<Logical, told>>
  <1> SUFFICES ASSUME RegistryInv, LeafDecodes, [Step]_vars
               PROVE  [Register!Write \/ Register!Tell]_<<Logical, told>>
    OBVIOUS
  <1>0. TypeOK /\ ReconciledFiles /\ WritingFiles /\ NextSucceedsLeaf
    BY DEF RegistryInv
  <1> USE RecordsDistinct
  <1>1. CASE WriteNext
    <2>1. Logical = dir.leaf.rec /\ op.rec \in Record /\ Accepts(dir.leaf.rec, op.rec)
      BY <1>0, <1>1 DEF WriteNext, WritingFiles, Logical, TypeOK
    <2>2. dir'.next.rec = op.rec
      BY <1>1 DEF WriteNext
    <2>3. Logical' = op.rec /\ told' = told
      BY <1>1, <2>1, <2>2 DEF WriteNext, Logical, SameReplies
    <2>4. Logical # NoRecord => ValidTransition(Logical, op.rec)
      BY <2>1 DEF Accepts
    <2> QED BY <2>1, <2>3, <2>4, SameRecords DEF Register!Write
  <1>2. CASE LoadReturns \/ PersistSame \/ PersistSynced
    <2>1. dir.next.rec = NoRecord /\ told' = dir.leaf.rec /\ dir' = dir
      BY <1>0, <1>2 DEF LoadReturns, PersistSame, PersistSynced, ReconciledFiles, WritingFiles,
         SameDirectory, SyncDirectory
    <2> QED BY <2>1 DEF Register!Tell, Logical
  <1>3. CASE PromoteNext \/ RenameNext
    <2>1. dir'.leaf = dir.next /\ dir'.next = NoFile /\ dir.next.rec \in Record /\ told' = told
      BY <1>0, <1>3 DEF PromoteNext, RenameNext, Change, WritingFiles, TypeOK, SameReplies
    <2> QED BY <2>1 DEF Logical, NoFile
  <1>4. CASE UnlinkNext \/ CreateNext
    <2>1. /\ dir'.leaf = dir.leaf /\ dir'.next \in {NoFile, EmptyFile} /\ told' = told
          /\ dir.next.rec \notin Record
      BY <1>0, <1>4 DEF UnlinkNext, CreateNext, Change, ReconciledFiles, SameReplies
    <2>2. dir'.next.rec \notin Record
      BY <2>1 DEF NoFile, EmptyFile
    <2> QED BY <2>1, <2>2 DEF Logical
  <1>5. CASE FlushNext
    <2>1. dir'.leaf = dir.leaf /\ dir'.next.rec = dir.next.rec /\ told' = told
      BY <1>5 DEF FlushNext, SameReplies
    <2> QED BY <2>1 DEF Logical
  <1>6. CASE dir' = dir /\ told' = told
    BY <1>6 DEF Logical
  <1> QED BY <1>1, <1>2, <1>3, <1>4, <1>5, <1>6 DEF Step, vars, BeginPersist, BeginLoad, ReadLeaf,
       Reconciled, PersistRejected, CreateSynced, LeafUnreadable, OperationEnds, Throw,
       SameDirectory, SyncDirectory, SameReplies

(* As long as the machine keeps running, the registry implements the       *)
(* register of its callers, whichever helpers die in the middle of it.     *)
THEOREM RegistryIsARegister == ProcessSpec => ImplementsRegister
  <1>1. Init => Register!Init
    BY RecordsDistinct DEF Init, NoFile, Register!Init, Logical, Register!NoRecord, NoRecord
  <1>2. Init => RegistryInv /\ LeafDecodes
    BY InitRegistryInv, RecordsDistinct DEF Init, LeafDecodes, NoFile
  <1>3. RegistryInv /\ LeafDecodes /\ [Step]_vars => (RegistryInv /\ LeafDecodes)'
    BY RegistryInvStep, LeafDecodesStep
  <1> QED BY <1>1, <1>2, <1>3, RegisterStep, PTL
          DEF ProcessSpec, ImplementsRegister, Register!Spec

=============================================================================
