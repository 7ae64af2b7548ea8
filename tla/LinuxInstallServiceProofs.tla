---------------------- MODULE LinuxInstallServiceProofs ----------------------
(***************************************************************************)
(* Proofs about one install transaction, for any number of control         *)
(* services and any change of what was checked.  What a record and an      *)
(* answer say of the old target is proved for control services that run    *)
(* one at a time.                                                          *)
(***************************************************************************)
EXTENDS LinuxInstallService, TLAPS

-----------------------------------------------------------------------------
(* The inductive invariant.                                                *)

(* Where the helper has not renamed anything and will not again, ...       *)
Early == {"none", "authorizing", "registering", "locking", "abandoning",
          "journaling", "unwinding"}

Prepared == {"preparing", "reserving", "reading", "accepting", "acknowledging",
             "waiting", "cancelling"}

Undone == {"rollingBack", "cleaning"}

(* ... and where it has.                                                   *)
Swapped == {"pending", "attempting", "launching", "launched", "launchFailed",
            "completing"}

(* Who writes a record has a record to write.                              *)
CopiesAreRecords ==
    /\ helper.pc \notin {"none", "authorizing", "registering", "ended"} =>
          helper.rec \in Record
    /\ \A c \in Controllers :
          /\ control[c].pc # "idle" => control[c].rec \in Record
          /\ control[c].pc = "settle" =>
                control[c].rec.state \in {"recoveryRequired", "manualActionRequired"}

(* Where the target and the journal are while the helper lives, and after  *)
(* whom it works.                                                          *)
HelperFits ==
    /\ caller.pc = "idle" => helper.pc = "none"
    /\ helper.pc \in {"executing"} \cup Swapped => ~caller.alive
    /\ helper.pc \in Swapped => dir.target = "new"
    /\ helper.pc \in Early \cup Prepared \cup Undone => dir.target = "old"
    /\ helper.pc \in Early \cup Undone => ~dir.journal
    /\ helper.pc \in Prepared \cup {"executing"} => dir.journal
    /\ dir.target = "away" => dir.stage = "prepared"
    /\ \A c \in Controllers : control[c].pc = "swap" => helper.pc = "ended"

(* The one launch.                                                         *)
LaunchFits ==
    launches # 0 =>
        /\ launches = 1 /\ helper.pc \in {"launched", "completing", "ended"}
        /\ ~caller.alive /\ dir.target = "new"

(* A cancelled transaction is over: nothing can move the target any more.  *)
RolledBackForGood ==
    /\ dir.target = "old" /\ ~dir.journal /\ record.state = "rolledBack"
    /\ helper.pc \in {"cleaning", "ended"}
    /\ \A c \in Controllers : control[c].pc # "swap"

(* An answer to cancelReservation is on its way to the caller.             *)
CallerTold == \E i \in 1..Len(wire.caller) : wire.caller[i] = "rolledBack"

CancelFits ==
    helper.pc = "cleaning" \/ CallerTold \/ caller.pc = "cancelled" => RolledBackForGood

(* Whoever says that the new target is in place has seen it there.         *)
NewTargetSeen ==
    /\ record.state \in ActivatedStates => dir.target = "new"
    /\ \A c \in Controllers :
          /\ control[c].pc \in {"terminal", "tidyNew", "recovered", "consume"} =>
                dir.target = "new"
          /\ control[c].answer = "newTarget" => dir.target = "new"
          /\ control[c].pc = "inspect" =>
                control[c].rec.state \notin ActivatedStates \cup {"rolledBack"}

ServiceInv == TypeOK /\ CopiesAreRecords /\ HelperFits /\ LaunchFits /\ CancelFits
              /\ NewTargetSeen

-----------------------------------------------------------------------------
(* What the operators of the model do to the variables.                    *)

HelperType == [pc : HelperPcs, rec : Record \cup {NoRecord}, owes : BOOLEAN]

CallerType == [pc : CallerPcs, alive : BOOLEAN]

WireType == [helper : Seq(Frames), caller : Seq(Frames)]

ControlType == [pc : ControlPcs, rec : Record \cup {NoRecord}, journal : BOOLEAN,
                answer : Answers]

(* The helper goes to pc with the same copy of the record.                 *)
HelperTo(pc) == helper' \in HelperType /\ helper'.pc = pc /\ helper'.rec = helper.rec

CallerTo(pc) == caller' \in CallerType /\ caller'.pc = pc /\ caller'.alive = caller.alive

(* The helper is as it was or has been killed.                             *)
HelperMayEnd == helper' = helper \/ (helper.pc # "none" /\ HelperTo("ended"))

(* The other control services stay as they are.                            *)
ControlMoves(c) ==
    /\ control' \in [Controllers -> ControlType]
    /\ \A d \in Controllers \ {c} : control'[d] = control[d]

(* Control service c goes to pc with its copy of the record.               *)
ControlTo(c, pc) ==
    /\ ControlMoves(c)
    /\ control'[c].pc = pc /\ control'[c].rec = control[c].rec
    /\ control'[c].journal = control[c].journal /\ control'[c].answer = control[c].answer

(* It ends with an answer for the host.                                    *)
ControlAnswers(c, answer) ==
    ControlMoves(c) /\ control'[c].pc = "idle" /\ control'[c].answer = answer

(* The wire keeps its type, and the caller is not told of a rollback.      *)
WireStill == wire' \in WireType /\ (CallerTold' => CallerTold)

(* The target and the journal stay.                                        *)
DirStill ==
    /\ dir' \in Directory /\ dir'.target = dir.target /\ dir'.journal = dir.journal
    /\ dir.target = "away" /\ dir.stage = "prepared" => dir'.stage = "prepared"

LEMMA NoRecordState == NoRecord.state = "none" /\ "none" \notin States /\ NoRecord \notin Record
  BY DEF NoRecord, States, ActiveStates, TerminalStates, Record

LEMMA InStateRecord ==
    ASSUME NEW r \in Record, NEW s \in States
    PROVE  /\ InState(r, s) \in Record /\ InState(r, s).state = s
           /\ InState(r, s).journal = r.journal
  BY DEF InState, Record

(* Persist never replaces a rolled back record, nor any other terminal one.*)
LEMMA RolledBackStays ==
    ASSUME TypeOK, NEW r \in Record, Accepts(r), record.state = "rolledBack"
    PROVE  r.state = "rolledBack"
  <1>1. record # NoRecord
    BY DEF NoRecord
  <1>2. AllowedStateTransition("rolledBack", r.state)
    BY <1>1 DEF Accepts, ValidTransition
  <1>3. Successors("rolledBack") = {}
    BY DEF Successors
  <1> QED
    BY <1>2, <1>3 DEF AllowedStateTransition

LEMMA HelperGotoEffect ==
    ASSUME TypeOK, NEW pc \in HelperPcs, HelperGoto(pc)
    PROVE  HelperTo(pc)
  BY DEF TypeOK, HelperGoto, HelperTo, HelperType

LEMMA CallerGotoEffect ==
    ASSUME TypeOK, NEW pc \in CallerPcs, CallerGoto(pc)
    PROVE  CallerTo(pc)
  BY DEF TypeOK, CallerGoto, CallerTo, CallerType

LEMMA TerminateEffect ==
    ASSUME TypeOK, TerminateAndReap
    PROVE  HelperMayEnd /\ helper' \in HelperType /\ helper'.pc \in {"none", "ended"}
  <1>1. CASE helper.pc = "none"
    <2>1. helper' = helper
      BY <1>1 DEF TypeOK, TerminateAndReap
    <2> QED
      BY <1>1, <2>1 DEF TypeOK, HelperMayEnd, HelperType
  <1>2. CASE helper.pc # "none"
    <2>1. helper' = [helper EXCEPT !.pc = "ended"]
      BY <1>2 DEF TypeOK, TerminateAndReap
    <2> QED
      BY <1>2, <2>1 DEF TypeOK, HelperMayEnd, HelperTo, HelperType, HelperPcs
  <1> QED
    BY <1>1, <1>2

LEMMA SendToCallerEffect ==
    ASSUME TypeOK, NEW f \in Frames, SendToCaller(f)
    PROVE  /\ wire' \in WireType
           /\ f # "rolledBack" => WireStill
  <1> DEFINE w == Append(wire.caller, f)
  <1>1. wire' = [wire EXCEPT !.caller = w] /\ wire.caller \in Seq(Frames)
    BY DEF TypeOK, SendToCaller
  <1>2. /\ w \in Seq(Frames) /\ Len(w) = Len(wire.caller) + 1
        /\ \A i \in 1..Len(wire.caller) : w[i] = wire.caller[i]
        /\ w[Len(w)] = f
    BY <1>1
  <1>3. wire' \in WireType /\ wire'.caller = w
    BY <1>1, <1>2 DEF TypeOK, WireType
  <1>4. ASSUME f # "rolledBack", CallerTold' PROVE CallerTold
    <2>1. PICK i \in 1..Len(w) : w[i] = "rolledBack"
      BY <1>3, <1>4 DEF CallerTold
    <2>2. i \in 1..Len(wire.caller)
      BY <1>1, <1>2, <1>4, <2>1
    <2> QED
      BY <1>2, <2>1, <2>2 DEF CallerTold
  <1> QED
    BY <1>3, <1>4 DEF WireStill

LEMMA SendToHelperEffect ==
    ASSUME TypeOK, NEW f \in Frames, SendToHelper(f)
    PROVE  WireStill
  <1> DEFINE w == Append(wire.helper, f)
  <1>1. wire' = [wire EXCEPT !.helper = w] /\ w \in Seq(Frames)
    BY DEF TypeOK, SendToHelper
  <1> HIDE DEF w
  <1>2. wire' \in WireType /\ wire'.caller = wire.caller
    BY <1>1 DEF TypeOK, WireType
  <1> QED
    BY <1>2 DEF WireStill, CallerTold

(* A frame that is read was on the wire, and what is left was there too.   *)
LEMMA ReceiveEffect ==
    ASSUME TypeOK, wire.caller # << >>, wire' = [wire EXCEPT !.caller = Tail(@)]
    PROVE  WireStill /\ (Head(wire.caller) = "rolledBack" => CallerTold)
  <1> DEFINE w == Tail(wire.caller)
  <1>1. wire' = [wire EXCEPT !.caller = w] /\ wire.caller \in Seq(Frames)
    BY DEF TypeOK
  <1>2. /\ w \in Seq(Frames) /\ Len(wire.caller) \in Nat /\ Len(wire.caller) > 0
        /\ Len(w) = Len(wire.caller) - 1
        /\ \A i \in 1..Len(w) : w[i] = wire.caller[i + 1]
        /\ Head(wire.caller) = wire.caller[1]
    BY <1>1
  <1>3. wire' \in WireType /\ wire'.caller = w
    BY <1>1, <1>2 DEF TypeOK, WireType
  <1>4. ASSUME CallerTold' PROVE CallerTold
    <2>1. PICK i \in 1..Len(w) : w[i] = "rolledBack"
      BY <1>3, <1>4 DEF CallerTold
    <2>2. i + 1 \in 1..Len(wire.caller) /\ wire.caller[i + 1] = "rolledBack"
      BY <1>2, <2>1
    <2> QED
      BY <2>2 DEF CallerTold
  <1>5. 1 \in 1..Len(wire.caller)
    BY <1>2
  <1> QED
    BY <1>2, <1>3, <1>4, <1>5 DEF WireStill, CallerTold

LEMMA ReadEffect ==
    ASSUME TypeOK, wire.helper # << >>, wire' = [wire EXCEPT !.helper = Tail(@)]
    PROVE  WireStill
  <1> DEFINE w == Tail(wire.helper)
  <1>1. wire' = [wire EXCEPT !.helper = w] /\ w \in Seq(Frames)
    BY DEF TypeOK
  <1> HIDE DEF w
  <1>2. wire' \in WireType /\ wire'.caller = wire.caller
    BY <1>1 DEF TypeOK, WireType
  <1> QED
    BY <1>2 DEF WireStill, CallerTold

(* Persist by the helper: the record is written, or nothing is.            *)
LEMMA HelperPersistsEffect ==
    ASSUME TypeOK, NEW r \in Record, NEW next \in HelperPcs, NEW otherwise \in HelperPcs,
           HelperPersists(r, next, otherwise)
    PROVE  /\ helper' \in HelperType /\ helper'.rec = r /\ HelperOnly
           /\ record' \in Record \cup {NoRecord}
           /\ \/ Accepts(r) /\ record' = r /\ helper'.pc = next
              \/ record' = record /\ helper'.pc = otherwise
  <1> DEFINE n == [helper EXCEPT !.pc = next, !.rec = r]
             o == [helper EXCEPT !.pc = otherwise, !.rec = r]
  <1>1. n \in HelperType /\ n.pc = next /\ n.rec = r
    BY DEF TypeOK, HelperType
  <1>2. o \in HelperType /\ o.pc = otherwise /\ o.rec = r
    BY DEF TypeOK, HelperType
  <1>3. /\ HelperOnly
        /\ \/ Accepts(r) /\ record' = r /\ helper' = n
           \/ record' = record /\ helper' = o
    BY DEF HelperPersists
  <1> HIDE DEF n, o
  <1> QED
    BY <1>1, <1>2, <1>3 DEF TypeOK

LEMMA ControlGotoEffect ==
    ASSUME TypeOK, NEW c \in Controllers, NEW pc \in ControlPcs, ControlGoto(c, pc)
    PROVE  ControlTo(c, pc)
  BY DEF TypeOK, ControlGoto, ControlTo, ControlMoves, ControlType

LEMMA AnsweredEffect ==
    ASSUME TypeOK, NEW c \in Controllers, NEW answer \in Answers, Answered(c, answer)
    PROVE  ControlAnswers(c, answer)
  <1> DEFINE n == [NoControl EXCEPT !.answer = answer]
  <1>1. n \in ControlType /\ n.pc = "idle" /\ n.answer = answer
    BY DEF NoControl, ControlType, ControlPcs
  <1>2. control' = [control EXCEPT ![c] = n]
    BY DEF Answered
  <1> HIDE DEF n
  <1> QED
    BY <1>1, <1>2 DEF TypeOK, ControlAnswers, ControlMoves, ControlType

LEMMA ThrewEffect ==
    ASSUME TypeOK, NEW c \in Controllers, Threw(c)
    PROVE  ControlAnswers(c, "none")
  BY AnsweredEffect DEF Threw, Answers

LEMMA SettleEffect ==
    ASSUME TypeOK, NEW c \in Controllers, NEW s \in States, control[c].rec \in Record,
           Settle(c, s)
    PROVE  /\ ControlMoves(c)
           /\ control'[c].pc = "settle" /\ control'[c].rec = InState(control[c].rec, s)
           /\ control'[c].answer = control[c].answer
  <1> DEFINE n == [control EXCEPT ![c].rec.state = s]
  <1>1. n \in [Controllers -> ControlType] /\ n[c].rec = InState(control[c].rec, s)
        /\ n[c].answer = control[c].answer /\ \A d \in Controllers \ {c} : n[d] = control[d]
    BY InStateRecord DEF TypeOK, ControlType, InState
  <1>2. control' = [n EXCEPT ![c].pc = "settle"]
    BY DEF Settle
  <1> HIDE DEF n
  <1> QED
    BY <1>1, <1>2 DEF ControlMoves, ControlType, ControlPcs

LEMMA ControlPersistsEffect ==
    ASSUME TypeOK, NEW c \in Controllers, NEW r \in Record, NEW next \in ControlPcs,
           ControlPersists(c, r, next)
    PROVE  /\ record' \in Record \cup {NoRecord} /\ ControlMoves(c)
           /\ \/ /\ Accepts(r) /\ record' = r
                 /\ control'[c].pc = next /\ control'[c].rec = r
                 /\ control'[c].journal = control[c].journal
                 /\ control'[c].answer = control[c].answer
              \/ record' = record /\ ControlAnswers(c, "none")
  <1>1. CASE Accepts(r) /\ record' = r
             /\ control' = [control EXCEPT ![c].rec = r, ![c].pc = next]
    <2> DEFINE n == [control EXCEPT ![c].rec = r]
    <2>1. n \in [Controllers -> ControlType] /\ n[c].rec = r
          /\ n[c].answer = control[c].answer /\ n[c].journal = control[c].journal
          /\ \A d \in Controllers \ {c} : n[d] = control[d]
      BY DEF TypeOK, ControlType
    <2>2. control' = [n EXCEPT ![c].pc = next]
      BY <1>1
    <2> HIDE DEF n
    <2>3. ControlMoves(c)
      BY <2>1, <2>2 DEF ControlMoves, ControlType
    <2>4. control'[c].pc = next /\ control'[c].rec = r
          /\ control'[c].journal = control[c].journal
          /\ control'[c].answer = control[c].answer
      BY <2>1, <2>2 DEF ControlType
    <2> QED
      BY <1>1, <2>3, <2>4
  <1>2. CASE ~Accepts(r) /\ Threw(c) /\ UNCHANGED record
    BY <1>2, ThrewEffect DEF ControlAnswers, TypeOK
  <1> QED
    BY <1>1, <1>2 DEF ControlPersists

(* A step of the swap keeps the new target, and moves the old one away     *)
(* only while its payload is prepared.                                     *)
LEMMA SwapStepEffect ==
    ASSUME NEW d \in Directory, SwapChecked(d), d.target = "away" => d.stage = "prepared"
    PROVE  /\ SwapStep(d) \in Directory
           /\ d.target = "new" => SwapStep(d).target = "new"
           /\ d.target # "new" => SwapStep(d).journal = d.journal
           /\ SwapStep(d).target = "away" => SwapStep(d).stage = "prepared"
  <1>1. CASE d.stage = "payload"
    BY <1>1 DEF SwapStep, Directory
  <1>2. CASE d.stage = "prepared" /\ d.target = "old"
    BY <1>2 DEF SwapStep, Directory
  <1>3. CASE d.stage = "prepared" /\ d.target = "away"
    <2> DEFINE n == [d EXCEPT !.target = "new", !.stage = "none"]
    <2>1. SwapStep(d) = n
      BY <1>3 DEF SwapStep
    <2>2. n \in Directory /\ n.target = "new" /\ n.journal = d.journal
      BY DEF Directory
    <2> HIDE DEF n
    <2> QED
      BY <1>3, <2>1, <2>2
  <1>4. CASE d.stage # "payload" /\ d.target = "new"
    <2> DEFINE n == [d EXCEPT !.journal = FALSE, !.lock = FALSE]
    <2>1. SwapStep(d) = n
      BY <1>4 DEF SwapStep
    <2>2. n \in Directory /\ n.target = d.target
      BY DEF Directory
    <2> HIDE DEF n
    <2> QED
      BY <1>4, <2>1, <2>2
  <1>5. d.target \in {"old", "away", "new"} /\ d.stage \in {"payload", "prepared", "none"}
    BY DEF Directory
  <1> QED
    BY <1>1, <1>2, <1>3, <1>4, <1>5 DEF SwapChecked

-----------------------------------------------------------------------------
(* The steps of the host.                                                  *)

CallerMoves ==
    /\ UNCHANGED <<record, dir, control, defect, tampers, launches, expired>>
    /\ caller' \in CallerType /\ helper' \in HelperType /\ WireStill
    /\ caller'.alive => caller.alive
    /\ caller'.pc = "cancelled" => caller.pc = "cancelled" \/ CallerTold
    /\ \/ caller.pc = "idle" /\ caller'.pc = "reserving" /\ HelperTo("authorizing")
       \/ HelperMayEnd /\ (caller'.pc = "idle" => caller.pc = "idle" /\ helper' = helper)

LEMMA CallerEffects ==
    ASSUME TypeOK, CallerNext
    PROVE  CallerMoves
  <1>0. /\ UNCHANGED helper => helper' \in HelperType /\ HelperMayEnd
        /\ UNCHANGED wire => WireStill
        /\ \A pc \in CallerPcs : CallerTo(pc) => caller' \in CallerType /\ caller'.pc = pc
                                                 /\ caller'.alive = caller.alive
        /\ \A pc \in HelperPcs : HelperTo(pc) => helper' \in HelperType
    BY DEF TypeOK, HelperType, HelperMayEnd, WireStill, WireType, CallerTold,
           CallerTo, HelperTo
  <1>p. /\ {"reserving", "reserved", "committing", "cancelling", "destroying", "committed",
            "cancelled", "failed"} \subseteq CallerPcs
        /\ "authorizing" \in HelperPcs /\ "ended" \in HelperPcs
        /\ "commitAfterExit" \in Frames /\ "cancelReservation" \in Frames
    BY DEF CallerPcs, HelperPcs, Frames
  <1>1. CASE RejectRequest
    BY <1>0, <1>1, <1>p, CallerGotoEffect
    DEF RejectRequest, SameShared, CallerMoves
  <1>2. CASE LaunchHelper
    BY <1>0, <1>2, <1>p, CallerGotoEffect, HelperGotoEffect
    DEF LaunchHelper, SameShared, CallerMoves
  <1>3. CASE ReceiveReservation
    BY <1>0, <1>3, <1>p, CallerGotoEffect, ReceiveEffect
    DEF ReceiveReservation, SameShared, CallerMoves
  <1>4. CASE LaunchFails
    BY <1>0, <1>4, <1>p, CallerGotoEffect, TerminateEffect
    DEF LaunchFails, SameShared, CallerMoves
  <1>5. CASE CommitAfterExit
    BY <1>0, <1>5, <1>p, CallerGotoEffect, SendToHelperEffect
    DEF CommitAfterExit, SendCommand, SameShared, CallerMoves
  <1>6. CASE CancelReservation
    BY <1>0, <1>6, <1>p, CallerGotoEffect, SendToHelperEffect
    DEF CancelReservation, SendCommand, SameShared, CallerMoves
  <1>7. CASE ReceiveAcknowledgement
    BY <1>0, <1>7, <1>p, CallerGotoEffect, ReceiveEffect
    DEF ReceiveAcknowledgement, SameShared, CallerMoves
  <1>8. CASE ReceiveCancelled
    BY <1>0, <1>8, <1>p, CallerGotoEffect, ReceiveEffect, TerminateEffect
    DEF ReceiveCancelled, SameShared, CallerMoves
  <1>9. CASE CommandFails
    BY <1>0, <1>9, <1>p, CallerGotoEffect, SendToHelperEffect
    DEF CommandFails, SameShared, CallerMoves
  <1>10. CASE DestroySession
    BY <1>0, <1>10, <1>p, CallerGotoEffect, TerminateEffect
    DEF DestroySession, SameShared, CallerMoves
  <1>11. CASE CallerExits
    <2>1. caller' \in CallerType /\ caller'.pc = caller.pc /\ ~caller'.alive
      BY <1>11 DEF CallerExits, TypeOK, CallerType
    <2> QED
      BY <1>0, <1>11, <2>1 DEF CallerExits, SameShared, CallerMoves
  <1> QED
    BY <1>1, <1>2, <1>3, <1>4, <1>5, <1>6, <1>7, <1>8, <1>9, <1>10, <1>11
    DEF CallerNext

LEMMA CallerKeepsService ==
    ASSUME ServiceInv, CallerMoves
    PROVE  ServiceInv'
  <1> USE DEF ServiceInv
  <1>1. TypeOK'
    BY DEF TypeOK, CallerMoves, CallerType, HelperType, WireStill, WireType
  <1>2. CopiesAreRecords'
    BY DEF CopiesAreRecords, CallerMoves, HelperMayEnd, HelperTo
  <1>3. HelperFits'
    BY DEF HelperFits, CallerMoves, HelperMayEnd, HelperTo, CallerType, TypeOK,
           Early, Prepared, Undone, Swapped
  <1>4. LaunchFits'
    BY DEF LaunchFits, HelperFits, CallerMoves, HelperMayEnd, HelperTo,
           CallerType, TypeOK
  <1>5. CancelFits'
    <2>1. CASE caller.pc = "idle"
      BY <2>1 DEF CancelFits, RolledBackForGood, HelperFits, CallerMoves,
             HelperMayEnd, HelperTo, WireStill
    <2>2. CASE caller.pc # "idle"
      BY <2>2 DEF CancelFits, RolledBackForGood, CallerMoves, HelperMayEnd,
             HelperTo, WireStill
    <2> QED
      BY <2>1, <2>2
  <1>6. NewTargetSeen'
    BY DEF NewTargetSeen, CallerMoves
  <1> QED
    BY <1>1, <1>2, <1>3, <1>4, <1>5, <1>6

-----------------------------------------------------------------------------
(* The steps of the helper.                                                *)

(* It goes on without writing the record or moving the target.             *)
HelperWalks ==
    /\ HelperOnly /\ UNCHANGED <<record, launches>>
    /\ DirStill /\ WireStill /\ helper' \in HelperType
    /\ helper.pc # "none" /\ helper'.rec = helper.rec
    /\ \/ helper'.pc = "ended"
       \/ helper.pc = "authorizing" /\ helper'.pc = "registering"
       \/ helper.pc = "locking" /\ helper'.pc = "journaling"
       \/ helper.pc = "journaling" /\ helper'.pc = "unwinding"
       \/ helper.pc \in Prepared \ {"preparing"} /\ helper'.pc \in Prepared \ {"preparing"}
       \/ helper.pc = "waiting" /\ helper'.pc = "executing" /\ ~caller.alive

LEMMA HelperWalksEffects ==
    ASSUME ServiceInv,
           \/ RefuseRequest \/ RestagePayload \/ AcquireTargetLock \/ Abandon \/ Unwind
           \/ WriteReservation \/ ReadCommand \/ ReadFails \/ Acknowledge \/ WaitForExit
           \/ CleanupCompleted \/ HelperDies
    PROVE  HelperWalks
  <1> USE DEF ServiceInv
  <1>0. /\ UNCHANGED wire => WireStill
        /\ UNCHANGED dir => DirStill
        /\ \A pc \in HelperPcs : HelperTo(pc) => /\ helper' \in HelperType
                                                 /\ helper'.pc = pc
                                                 /\ helper'.rec = helper.rec
    BY DEF TypeOK, WireStill, WireType, CallerTold, HelperTo, DirStill
  <1>p. {"ended", "registering", "journaling", "unwinding", "reading", "cancelling",
         "accepting", "waiting", "executing"} \subseteq HelperPcs
    BY DEF HelperPcs
  <1>1. CASE RefuseRequest
    BY <1>0, <1>p, <1>1, HelperGotoEffect DEF RefuseRequest, HelperWalks
  <1>2. CASE RestagePayload
    <2>1. DirStill
      <3> DEFINE d == [dir EXCEPT !.stage = "payload", !.control = TRUE]
      <3>1. d \in Directory /\ d.target = dir.target /\ d.journal = dir.journal
        BY DEF TypeOK, Directory
      <3>2. dir' = d /\ dir.target = "old"
        BY <1>2 DEF RestagePayload, HelperFits, Early
      <3> HIDE DEF d
      <3> QED
        BY <3>1, <3>2 DEF DirStill
    <2> QED
      BY <1>0, <1>p, <1>2, <2>1, HelperGotoEffect
      DEF RestagePayload, HelperWalks
  <1>3. CASE AcquireTargetLock
    <2>1. DirStill
      BY <1>3 DEF AcquireTargetLock, DirStill, TypeOK, Directory
    <2> QED
      BY <1>0, <1>p, <1>3, <2>1, HelperGotoEffect
      DEF AcquireTargetLock, HelperWalks
  <1>4. CASE Abandon
    <2>1. DirStill
      <3> DEFINE d == [dir EXCEPT !.stage = "none", !.control = FALSE]
      <3>1. d \in Directory /\ d.target = dir.target /\ d.journal = dir.journal
        BY DEF TypeOK, Directory
      <3>2. dir' = d /\ dir.target = "old"
        BY <1>4 DEF Abandon, HelperFits, Early
      <3> HIDE DEF d
      <3> QED
        BY <3>1, <3>2 DEF DirStill
    <2> QED
      BY <1>0, <1>p, <1>4, <2>1, HelperGotoEffect DEF Abandon, HelperWalks
  <1>5. CASE Unwind
    <2>1. DirStill
      <3> DEFINE s == IF dir.stage = "payload" THEN "none" ELSE dir.stage
                 d == [dir EXCEPT !.stage = s]
                 e == [d EXCEPT !.control = FALSE, !.lock = FALSE]
      <3>0. s \in {"payload", "prepared", "none"}
        BY DEF TypeOK, Directory
      <3>1. d \in Directory /\ d.target = dir.target /\ d.journal = dir.journal
        BY <3>0 DEF TypeOK, Directory
      <3>2. dir' = e /\ dir.target = "old"
        BY <1>5 DEF Unwind, HelperFits, Early
      <3> HIDE DEF d
      <3>3. e \in Directory /\ e.target = dir.target /\ e.journal = dir.journal
        BY <3>1 DEF Directory
      <3> HIDE DEF e
      <3> QED
        BY <3>2, <3>3 DEF DirStill
    <2> QED
      BY <1>0, <1>p, <1>5, <2>1, HelperGotoEffect DEF Unwind, HelperWalks
  <1>6. CASE WriteReservation
    <2>1. WireStill
      BY <1>0, <1>6, SendToCallerEffect DEF WriteReservation, Frames
    <2> QED
      BY <1>0, <1>p, <1>6, <2>1, HelperGotoEffect
      DEF WriteReservation, HelperWalks, Prepared
  <1>7. CASE ReadCommand
    <2>1. WireStill
      BY <1>7, ReadEffect DEF ReadCommand
    <2>2. PICK pc \in {"accepting", "cancelling"}, o \in BOOLEAN :
             helper' = [helper EXCEPT !.pc = pc, !.owes = o]
      BY <1>7 DEF ReadCommand
    <2>3. helper' \in HelperType /\ helper'.pc = pc /\ helper'.rec = helper.rec
      <3> DEFINE h == [helper EXCEPT !.pc = pc]
      <3>1. h \in HelperType /\ h.pc = pc /\ h.rec = helper.rec
        BY <1>p DEF TypeOK, HelperType
      <3>2. helper' = [h EXCEPT !.owes = o]
        BY <2>2
      <3> HIDE DEF h
      <3> QED
        BY <3>1, <3>2 DEF HelperType
    <2> QED
      BY <1>0, <1>7, <2>1, <2>3 DEF ReadCommand, HelperWalks, Prepared
  <1>8. CASE ReadFails
    BY <1>0, <1>p, <1>8, HelperGotoEffect DEF ReadFails, HelperWalks, Prepared
  <1>9. CASE Acknowledge
    <2>1. WireStill
      BY <1>0, <1>9, SendToCallerEffect DEF Acknowledge, Frames
    <2> QED
      BY <1>0, <1>p, <1>9, <2>1, HelperGotoEffect
      DEF Acknowledge, HelperWalks, Prepared
  <1>10. CASE WaitForExit
    BY <1>0, <1>p, <1>10, HelperGotoEffect
    DEF WaitForExit, HelperWalks, Prepared
  <1>11. CASE CleanupCompleted
    <2>1. DirStill
      BY <1>11 DEF CleanupCompleted, DirStill, TypeOK, Directory
    <2> QED
      BY <1>0, <1>p, <1>11, <2>1, HelperGotoEffect
      DEF CleanupCompleted, HelperWalks
  <1>12. CASE HelperDies
    BY <1>0, <1>p, <1>12, HelperGotoEffect
    DEF HelperDies, HelperWalks, OwnerLives
  <1> QED
    BY <1>1, <1>2, <1>3, <1>4, <1>5, <1>6, <1>7, <1>8, <1>9, <1>10, <1>11, <1>12

LEMMA HelperWalksKeepsService ==
    ASSUME ServiceInv, HelperWalks
    PROVE  ServiceInv'
  <1> USE DEF ServiceInv, HelperWalks, HelperOnly
  <1>1. TypeOK'
    BY DEF TypeOK, DirStill, HelperType, WireStill, WireType
  <1>2. CopiesAreRecords'
    BY DEF CopiesAreRecords, Prepared
  <1>3. HelperFits'
    BY DEF HelperFits, DirStill, Early, Prepared, Undone, Swapped
  <1>4. LaunchFits'
    BY DEF LaunchFits, DirStill, Prepared
  <1>5. CancelFits'
    BY DEF CancelFits, RolledBackForGood, DirStill, WireStill, Prepared
  <1>6. NewTargetSeen'
    BY DEF NewTargetSeen, DirStill
  <1> QED
    BY <1>1, <1>2, <1>3, <1>4, <1>5, <1>6

(* It writes the journal, or takes it away again.                          *)
HelperJournals(from, to, journal) ==
    /\ HelperOnly /\ UNCHANGED <<record, launches, wire>>
    /\ helper.pc = from /\ HelperTo(to)
    /\ dir' \in Directory /\ dir'.target = dir.target /\ dir'.stage = dir.stage
    /\ dir'.journal = journal

LEMMA HelperJournalsEffects ==
    ASSUME ServiceInv, PrepareDurableJournal \/ CancelPrepared
    PROVE  \/ HelperWalks
           \/ HelperJournals("journaling", "preparing", TRUE)
           \/ HelperJournals("cancelling", "rollingBack", FALSE)
  <1> USE DEF ServiceInv
  <1>0. /\ UNCHANGED wire => WireStill
        /\ UNCHANGED dir => DirStill
        /\ \A pc \in HelperPcs : HelperTo(pc) => /\ helper' \in HelperType
                                                 /\ helper'.pc = pc
                                                 /\ helper'.rec = helper.rec
    BY DEF TypeOK, WireStill, WireType, CallerTold, HelperTo, DirStill
  <1>p. {"preparing", "rollingBack", "unwinding", "ended"} \subseteq HelperPcs
    BY DEF HelperPcs
  <1>1. CASE PrepareDurableJournal
    <2>1. CASE dir' = [dir EXCEPT !.journal = TRUE] /\ HelperGoto("preparing")
      <3>1. /\ dir' \in Directory /\ dir'.target = dir.target /\ dir'.stage = dir.stage
            /\ dir'.journal = TRUE
        BY <2>1 DEF TypeOK, Directory
      <3> QED
        BY <1>p, <1>1, <2>1, <3>1, HelperGotoEffect
        DEF PrepareDurableJournal, HelperJournals
    <2>2. CASE HelperGoto("unwinding") /\ UNCHANGED dir
      BY <1>0, <1>p, <1>1, <2>2, HelperGotoEffect
      DEF PrepareDurableJournal, HelperWalks
    <2> QED
      BY <1>1, <2>1, <2>2 DEF PrepareDurableJournal
  <1>2. CASE CancelPrepared
    <2>1. CASE dir' = [dir EXCEPT !.journal = FALSE, !.lock = FALSE]
               /\ HelperGoto("rollingBack")
      <3> DEFINE d == [dir EXCEPT !.journal = FALSE, !.lock = FALSE]
      <3>1. /\ d \in Directory /\ d.target = dir.target /\ d.stage = dir.stage
            /\ d.journal = FALSE
        BY DEF TypeOK, Directory
      <3>2. dir' = d
        BY <2>1
      <3> HIDE DEF d
      <3> QED
        BY <1>p, <1>2, <2>1, <3>1, <3>2, HelperGotoEffect
        DEF CancelPrepared, HelperJournals
    <2>2. CASE HelperGoto("ended") /\ UNCHANGED dir
      BY <1>0, <1>p, <1>2, <2>2, HelperGotoEffect
      DEF CancelPrepared, HelperWalks
    <2> QED
      BY <1>2, <2>1, <2>2 DEF CancelPrepared
  <1> QED
    BY <1>1, <1>2

LEMMA HelperJournalsKeepsService ==
    ASSUME ServiceInv,
           \/ HelperJournals("journaling", "preparing", TRUE)
           \/ HelperJournals("cancelling", "rollingBack", FALSE)
    PROVE  ServiceInv'
  <1> USE DEF ServiceInv, HelperJournals, HelperOnly, HelperTo
  <1>1. TypeOK'
    BY DEF TypeOK, HelperType
  <1>2. CopiesAreRecords'
    BY DEF CopiesAreRecords
  <1>3. HelperFits'
    BY DEF HelperFits, Early, Prepared, Undone, Swapped
  <1>4. LaunchFits'
    BY DEF LaunchFits
  <1>5. CancelFits'
    BY DEF CancelFits, RolledBackForGood, CallerTold
  <1>6. NewTargetSeen'
    BY DEF NewTargetSeen
  <1> QED
    BY <1>1, <1>2, <1>3, <1>4, <1>5, <1>6

(* It tries to write the record.                                           *)
HelperWrites ==
    /\ HelperOnly /\ UNCHANGED <<wire, dir, launches>>
    /\ helper' \in HelperType /\ helper'.rec \in Record
    /\ record' \in Record \cup {NoRecord}
    /\ record' = record \/ (Accepts(helper'.rec) /\ record' = helper'.rec)
    /\ record'.state \in ActivatedStates =>
          record.state \in ActivatedStates \/ helper.pc \in Swapped
    /\ \/ helper.pc \notin Early \cup {"cleaning", "completing"} /\ helper'.pc = "ended"
       \/ helper.pc = "registering" /\ helper'.pc \in {"locking", "unwinding"}
       \/ helper.pc = "locking" /\ helper'.pc = "abandoning"
       \/ helper.pc \in Prepared /\ helper'.pc \in Prepared
       \/ /\ helper.pc \in Swapped \ {"completing"} /\ helper'.pc \in Swapped
          /\ helper.pc = "launched" => helper'.pc = "completing"
       \/ helper.pc = "rollingBack" /\ helper'.pc = "cleaning" /\ record'.state = "rolledBack"
    /\ helper.pc = "registering" => helper'.rec.journal = NoJournal
    /\ helper.pc = "preparing" =>
          /\ helper'.rec.journal = Digest /\ helper'.rec.state = "prepared"
          /\ helper'.pc = "ended" \/ (Accepts(helper'.rec) /\ record' = helper'.rec)
    /\ helper.pc \notin {"registering", "preparing"} =>
          helper'.rec.journal = helper.rec.journal
    /\ record'.state = "rolledBack" =>
          record.state = "rolledBack" \/ helper.pc \in {"locking", "rollingBack"}

LEMMA HelperWritesEffects ==
    ASSUME ServiceInv,
           \/ RegisterPreparing \/ TargetLockFails \/ RegisterPrepared \/ MarkCommitAccepted
           \/ ExecuteFails \/ RegisterLaunchPending \/ RegisterLaunchAttempting
           \/ RegisterLaunch \/ RegisterRolledBack
    PROVE  HelperWrites
  <1> USE DEF ServiceInv
  <1>s. {"preparing", "prepared", "rolledBack", "commitAccepted", "recoveryRequired",
         "launchPending", "launchAttempting", "launched", "launchFailed"} \subseteq States
    BY DEF States, ActiveStates, TerminalStates
  <1>p. {"locking", "unwinding", "abandoning", "reserving", "ended", "acknowledging",
         "cancelling", "attempting", "launching", "completing", "cleaning"}
           \subseteq HelperPcs
    BY DEF HelperPcs
  <1>1. ASSUME RegisterPreparing \/ RegisterPrepared PROVE HelperWrites
    <2> DEFINE r == [state |-> "preparing", binding |-> Binding, journal |-> NoJournal]
               q == [state |-> "prepared", binding |-> Binding, journal |-> Digest]
    <2>1. /\ r \in Record /\ r.state = "preparing" /\ r.journal = NoJournal
          /\ q \in Record /\ q.state = "prepared" /\ q.journal = Digest
      BY <1>s, ServiceAssumption DEF Record
    <2>2. CASE RegisterPreparing
      <3>1. /\ HelperPersists(r, "locking", "unwinding") /\ helper.pc = "registering"
            /\ UNCHANGED <<wire, dir, launches>>
        BY <2>2 DEF RegisterPreparing
      <3> HIDE DEF r
      <3> QED
        BY <1>p, <2>1, <3>1, HelperPersistsEffect
        DEF HelperWrites, ActivatedStates
    <2>3. CASE RegisterPrepared
      <3>1. /\ HelperPersists(q, "reserving", "ended") /\ helper.pc = "preparing"
            /\ UNCHANGED <<wire, dir, launches>>
        BY <2>3 DEF RegisterPrepared
      <3> HIDE DEF q
      <3> QED
        BY <1>p, <2>1, <3>1, HelperPersistsEffect
        DEF HelperWrites, ActivatedStates, Prepared, Early
    <2> QED
      BY <1>1, <2>2, <2>3
  <1>2. ASSUME helper.rec \in Record, NEW s \in States, NEW next \in HelperPcs,
               NEW otherwise \in HelperPcs, HelperPersistsState(s, next, otherwise)
        PROVE  /\ helper' \in HelperType /\ helper'.rec \in Record /\ HelperOnly
               /\ helper'.rec.journal = helper.rec.journal
               /\ record' \in Record \cup {NoRecord}
               /\ \/ /\ Accepts(helper'.rec) /\ record' = helper'.rec
                     /\ record'.state = s /\ helper'.pc = next
                  \/ record' = record /\ helper'.pc = otherwise
    <2> DEFINE r == InState(helper.rec, s)
    <2>1. r \in Record /\ r.state = s /\ r.journal = helper.rec.journal
      BY <1>2, InStateRecord
    <2>2. HelperPersists(r, next, otherwise)
      BY <1>2 DEF HelperPersistsState
    <2> HIDE DEF r
    <2> QED
      BY <1>2, <2>1, <2>2, HelperPersistsEffect
  <1>3. CASE TargetLockFails
    <2>1. helper.pc = "locking" /\ helper.rec \in Record
          /\ HelperPersistsState("rolledBack", "abandoning", "abandoning")
          /\ UNCHANGED <<wire, dir, launches>>
      BY <1>3 DEF TargetLockFails, CopiesAreRecords
    <2> QED
      BY <1>2, <1>s, <1>p, <2>1 DEF HelperWrites, ActivatedStates
  <1>4. CASE MarkCommitAccepted
    <2>1. helper.pc = "accepting" /\ helper.rec \in Record
          /\ HelperPersistsState("commitAccepted", "acknowledging", "cancelling")
          /\ UNCHANGED <<wire, dir, launches>>
      BY <1>4 DEF MarkCommitAccepted, CopiesAreRecords
    <2> QED
      BY <1>2, <1>s, <1>p, <2>1 DEF HelperWrites, ActivatedStates, Prepared
  <1>5. CASE ExecuteFails
    <2>1. helper.pc = "executing" /\ helper.rec \in Record
          /\ HelperPersistsState("recoveryRequired", "ended", "ended")
          /\ UNCHANGED <<wire, dir, launches>>
      BY <1>5 DEF ExecuteFails, CopiesAreRecords
    <2> QED
      BY <1>2, <1>s, <1>p, <2>1 DEF HelperWrites, ActivatedStates, Early
  <1>6. CASE RegisterLaunchPending
    <2>1. helper.pc = "pending" /\ helper.rec \in Record
          /\ \/ HelperPersistsState("recoveryRequired", "ended", "ended")
             \/ HelperPersistsState("launchPending", "attempting", "ended")
          /\ UNCHANGED <<wire, dir, launches>>
      BY <1>6 DEF RegisterLaunchPending, CopiesAreRecords
    <2>2. CASE HelperPersistsState("recoveryRequired", "ended", "ended")
      BY <1>2, <1>s, <1>p, <2>1, <2>2 DEF HelperWrites, ActivatedStates, Early,
             Swapped
    <2>3. CASE HelperPersistsState("launchPending", "attempting", "ended")
      BY <1>2, <1>s, <1>p, <2>1, <2>3 DEF HelperWrites, Early, Swapped
    <2> QED
      BY <2>1, <2>2, <2>3
  <1>7. CASE RegisterLaunchAttempting
    <2>1. helper.pc = "attempting" /\ helper.rec \in Record
          /\ HelperPersistsState("launchAttempting", "launching", "ended")
          /\ UNCHANGED <<wire, dir, launches>>
      BY <1>7 DEF RegisterLaunchAttempting, CopiesAreRecords
    <2> QED
      BY <1>2, <1>s, <1>p, <2>1 DEF HelperWrites, Swapped, Early
  <1>8. CASE RegisterLaunch
    <2>1. helper.pc \in {"launched", "launchFailed"} /\ helper.rec \in Record
          /\ HelperPersistsState(helper.pc, "completing", "ended")
          /\ UNCHANGED <<wire, dir, launches>>
      BY <1>8 DEF RegisterLaunch, CopiesAreRecords
    <2> QED
      BY <1>2, <1>s, <1>p, <2>1 DEF HelperWrites, Swapped, Early
  <1>9. CASE RegisterRolledBack
    <2>1. helper.pc = "rollingBack" /\ helper.rec \in Record
          /\ HelperPersistsState("rolledBack", "cleaning", "ended")
          /\ UNCHANGED <<wire, dir, launches>>
      BY <1>9 DEF RegisterRolledBack, CopiesAreRecords
    <2> QED
      BY <1>2, <1>s, <1>p, <2>1 DEF HelperWrites, ActivatedStates, Early
  <1> QED
    BY <1>1, <1>3, <1>4, <1>5, <1>6, <1>7, <1>8, <1>9

LEMMA HelperWritesKeepsService ==
    ASSUME ServiceInv, HelperWrites
    PROVE  ServiceInv'
  <1> USE DEF ServiceInv, HelperWrites, HelperOnly
  <1>0. record.state = "rolledBack" => record'.state = "rolledBack"
    BY RolledBackStays
  <1>1. TypeOK'
    BY DEF TypeOK, HelperType
  <1>2. CopiesAreRecords'
    BY DEF CopiesAreRecords
  <1>3. HelperFits'
    BY DEF HelperFits, Early, Prepared, Undone, Swapped
  <1>4. LaunchFits'
    BY DEF LaunchFits, HelperFits, Early, Prepared, Undone, Swapped
  <1>5. CancelFits'
    <2>1. CASE helper.pc = "rollingBack"
      BY <1>0, <2>1 DEF CancelFits, RolledBackForGood, CallerTold, HelperFits,
             Early, Prepared, Undone, Swapped
    <2>2. CASE helper.pc # "rollingBack"
      BY <1>0, <2>2 DEF CancelFits, RolledBackForGood, CallerTold, Early,
             Prepared, Undone, Swapped
    <2> QED
      BY <2>1, <2>2
  <1>6. NewTargetSeen'
    BY DEF NewTargetSeen, HelperFits
  <1> QED
    BY <1>1, <1>2, <1>3, <1>4, <1>5, <1>6

(* A step of the swap in the helper.                                       *)
LEMMA ExecuteKeepsService ==
    ASSUME ServiceInv, Execute
    PROVE  ServiceInv'
  <1> USE DEF ServiceInv
  <1>1. /\ HelperOnly /\ UNCHANGED <<wire, record, launches>>
        /\ helper.pc = "executing" /\ SwapChecked(dir) /\ dir' = SwapStep(dir)
        /\ HelperTo(IF dir.target = "new" THEN "pending" ELSE "executing")
    BY HelperGotoEffect DEF Execute, HelperPcs
  <1>2. /\ dir' \in Directory
        /\ dir.target = "new" => dir'.target = "new"
        /\ dir.target # "new" => dir'.journal
        /\ dir'.target = "away" => dir'.stage = "prepared"
    BY <1>1, SwapStepEffect DEF TypeOK, HelperFits
  <1> USE DEF HelperOnly, HelperTo
  <1>3. TypeOK'
    BY <1>1, <1>2 DEF TypeOK, HelperType
  <1>4. CopiesAreRecords'
    BY <1>1, <1>2 DEF CopiesAreRecords
  <1>5. HelperFits'
    BY <1>1, <1>2 DEF HelperFits, Early, Prepared, Undone, Swapped
  <1>6. LaunchFits'
    BY <1>1, <1>2 DEF LaunchFits
  <1>7. CancelFits'
    BY <1>1, <1>2 DEF CancelFits, RolledBackForGood, CallerTold
  <1>8. NewTargetSeen'
    BY <1>1, <1>2 DEF NewTargetSeen
  <1> QED
    BY <1>3, <1>4, <1>5, <1>6, <1>7, <1>8

LEMMA RelaunchKeepsService ==
    ASSUME ServiceInv, Relaunch
    PROVE  ServiceInv'
  <1> USE DEF ServiceInv
  <1>1. /\ HelperOnly /\ UNCHANGED <<wire, record, dir>> /\ helper.pc = "launching"
        /\ \/ HelperTo("launched") /\ launches' = launches + 1
           \/ HelperTo("launchFailed") /\ launches' = launches
    BY HelperGotoEffect DEF Relaunch, HelperPcs
  <1> USE DEF HelperOnly, HelperTo
  <1>2. launches = 0
    BY <1>1 DEF LaunchFits
  <1>3. TypeOK'
    BY <1>1 DEF TypeOK, HelperType
  <1>4. CopiesAreRecords'
    BY <1>1 DEF CopiesAreRecords
  <1>5. HelperFits'
    BY <1>1 DEF HelperFits, Early, Prepared, Undone, Swapped
  <1>6. LaunchFits'
    BY <1>1, <1>2 DEF LaunchFits, HelperFits, Swapped
  <1>7. CancelFits'
    BY <1>1 DEF CancelFits, RolledBackForGood, CallerTold
  <1>8. NewTargetSeen'
    BY <1>1 DEF NewTargetSeen
  <1> QED
    BY <1>3, <1>4, <1>5, <1>6, <1>7, <1>8

LEMMA CleanupCancelledKeepsService ==
    ASSUME ServiceInv, CleanupCancelled
    PROVE  ServiceInv'
  <1> USE DEF ServiceInv
  <1>1. /\ HelperOnly /\ UNCHANGED <<record, launches>> /\ helper.pc = "cleaning"
        /\ HelperTo("ended") /\ wire' \in WireType
    BY HelperGotoEffect, SendToCallerEffect
    DEF CleanupCancelled, HelperPcs, Frames, TypeOK, WireType
  <1>2. DirStill
    <2> DEFINE d == [dir EXCEPT !.stage = "none", !.control = FALSE]
    <2>1. d \in Directory /\ d.target = dir.target /\ d.journal = dir.journal
      BY DEF TypeOK, Directory
    <2>2. (dir' = d \/ dir' = dir) /\ dir.target = "old"
      BY <1>1 DEF CleanupCancelled, HelperFits, Undone
    <2> HIDE DEF d
    <2> QED
      BY <2>1, <2>2 DEF DirStill, TypeOK
  <1> USE DEF HelperOnly, HelperTo, DirStill
  <1>3. TypeOK'
    BY <1>1, <1>2 DEF TypeOK, HelperType, WireType
  <1>4. CopiesAreRecords'
    BY <1>1, <1>2 DEF CopiesAreRecords
  <1>5. HelperFits'
    BY <1>1, <1>2 DEF HelperFits, Early, Prepared, Undone, Swapped
  <1>6. LaunchFits'
    BY <1>1, <1>2 DEF LaunchFits
  <1>7. CancelFits'
    BY <1>1, <1>2 DEF CancelFits, RolledBackForGood
  <1>8. NewTargetSeen'
    BY <1>1, <1>2 DEF NewTargetSeen
  <1> QED
    BY <1>3, <1>4, <1>5, <1>6, <1>7, <1>8

LEMMA HelperKeepsService ==
    ASSUME ServiceInv, HelperNext \/ HelperDies
    PROVE  ServiceInv'
  BY HelperWalksEffects, HelperWalksKeepsService, HelperJournalsEffects,
     HelperJournalsKeepsService, HelperWritesEffects, HelperWritesKeepsService,
     ExecuteKeepsService, RelaunchKeepsService, CleanupCancelledKeepsService
  DEF HelperNext

-----------------------------------------------------------------------------
(* The steps of a control service.                                         *)

(* What ServiceInv says of control service c where it has arrived.         *)
ArrivesFit(c) ==
    /\ control'[c].pc # "idle" => control'[c].rec \in Record
    /\ control'[c].pc = "settle" =>
          control'[c].rec.state \in {"recoveryRequired", "manualActionRequired"}
    /\ control'[c].pc \in {"terminal", "tidyNew", "recovered", "consume"} =>
          dir.target = "new"
    /\ control'[c].answer = "newTarget" => dir.target = "new"
    /\ control'[c].pc = "inspect" =>
          control'[c].rec.state \notin ActivatedStates \cup {"rolledBack"}

(* It goes on, and may write the record, with the target as it is.         *)
ControlWalks(c) ==
    /\ ControlOnly /\ ControlMoves(c) /\ ArrivesFit(c) /\ DirStill
    /\ record' \in Record \cup {NoRecord}
    /\ record' = record \/ (record' \in Record /\ Accepts(record'))
    /\ record'.state \in ActivatedStates =>
          record.state \in ActivatedStates \/ dir.target = "new"
    /\ control'[c].pc = "swap" => helper.pc = "ended" /\ dir.journal

(* c ends without an answer.                                               *)
LEMMA ThrewWalks ==
    ASSUME ServiceInv, NEW c \in Controllers, Threw(c), ControlOnly, UNCHANGED record, DirStill
    PROVE  ControlWalks(c)
  BY ThrewEffect DEF ServiceInv, ControlWalks, ControlAnswers, ArrivesFit,
         TypeOK

LEMMA ControlDirStill ==
    ASSUME TypeOK
    PROVE  /\ UNCHANGED dir => DirStill
           /\ \A kept \in BOOLEAN : dir' = [dir EXCEPT !.control = @ /\ kept] => DirStill
           /\ dir' = [dir EXCEPT !.control = FALSE] => DirStill
           /\ dir' = [dir EXCEPT !.lock = FALSE] => DirStill
  BY DEF TypeOK, Directory, DirStill

LEMMA BeginRecoveryWalks ==
    ASSUME ServiceInv, NEW c \in Controllers, BeginRecovery(c)
    PROVE  ControlWalks(c)
  <1> USE DEF ServiceInv
  <1>0. record \in Record /\ ControlOnly /\ UNCHANGED <<record, dir>> /\ DirStill
    BY ControlDirStill DEF BeginRecovery, TypeOK
  <1> DEFINE m == InState(record, "manualActionRequired")
  <1>1. m \in Record /\ m.state = "manualActionRequired"
    BY <1>0, InStateRecord DEF States, TerminalStates
  <1>2. PICK r \in Record, pc \in ControlPcs :
           /\ control' = [control EXCEPT ![c] = [NoControl EXCEPT !.rec = r, !.pc = pc]]
           /\ pc \in {"terminal", "tidyOld", "inspect", "settle"}
           /\ pc = "terminal" => record.state \in ActivatedStates
           /\ pc = "settle" => r.state = "manualActionRequired"
           /\ pc = "inspect" => r.state \notin ActivatedStates \cup {"rolledBack"}
    <2>1. CASE record.state \in ActivatedStates
      BY <1>0, <1>1, <2>1 DEF BeginRecovery, ControlPcs
    <2>2. CASE record.state = "rolledBack"
      BY <1>0, <1>1, <2>2 DEF BeginRecovery, ControlPcs, ActivatedStates
    <2>3. CASE record.state \notin ActivatedStates \cup {"rolledBack"} /\ dir.control
      BY <1>0, <1>1, <2>3 DEF BeginRecovery, ControlPcs
    <2>4. CASE record.state \notin ActivatedStates \cup {"rolledBack"} /\ ~dir.control
      BY <1>0, <1>1, <2>4 DEF BeginRecovery, ControlPcs
    <2> QED
      BY <2>1, <2>2, <2>3, <2>4
  <1> DEFINE n == [NoControl EXCEPT !.rec = r, !.pc = pc]
  <1>3. n \in ControlType /\ n.pc = pc /\ n.rec = r /\ n.answer = "none"
    BY DEF NoControl, ControlType, Answers
  <1>4. control' = [control EXCEPT ![c] = n]
    BY <1>2
  <1> HIDE DEF n
  <1>5. ControlMoves(c) /\ control'[c] = n
    BY <1>3, <1>4 DEF TypeOK, ControlMoves, ControlType
  <1>6. ArrivesFit(c)
    BY <1>2, <1>3, <1>5 DEF ArrivesFit, NewTargetSeen
  <1> QED
    BY <1>0, <1>2, <1>3, <1>5, <1>6 DEF ControlWalks

LEMMA QueryWalks ==
    ASSUME ServiceInv, NEW c \in Controllers, QueryTransaction(c)
    PROVE  ControlWalks(c)
  <1> USE DEF ServiceInv
  <1> DEFINE a == QueryAnswer(record.state)
  <1>1. a \in Answers /\ (a = "newTarget" => record.state \in ActivatedStates)
    BY DEF QueryAnswer, Answers
  <1>2. Answered(c, a) /\ ControlOnly /\ UNCHANGED <<record, dir>> /\ DirStill
    BY ControlDirStill DEF QueryTransaction
  <1> HIDE DEF a
  <1>3. ControlAnswers(c, a)
    BY <1>1, <1>2, AnsweredEffect
  <1> QED
    BY <1>1, <1>2, <1>3 DEF ControlWalks, ControlAnswers, ArrivesFit,
           NewTargetSeen, TypeOK

LEMMA ConsumeLaunchWalks ==
    ASSUME ServiceInv, NEW c \in Controllers, ConsumeLaunch(c)
    PROVE  ControlWalks(c)
  <1> USE DEF ServiceInv
  <1>0. /\ control[c].pc = "terminal" /\ control[c].rec \in Record /\ dir.target = "new"
        /\ ControlOnly /\ DirStill
    BY ControlDirStill DEF ConsumeLaunch, CopiesAreRecords, NewTargetSeen
  <1> DEFINE r == InState(control[c].rec, "launchFailed")
  <1>1. r \in Record
    BY <1>0, InStateRecord DEF States, TerminalStates
  <1>2. CASE ControlPersists(c, r, "tidyNew")
    <2> HIDE DEF r
    <2> QED
      BY <1>0, <1>1, <1>2, ControlPersistsEffect
      DEF ControlPcs, ControlWalks, ControlAnswers, ArrivesFit
  <1>3. CASE ControlGoto(c, "tidyNew") /\ UNCHANGED record
    BY <1>0, <1>3, ControlGotoEffect DEF ControlPcs, ControlTo, ControlWalks,
           ArrivesFit, TypeOK
  <1> QED
    BY <1>2, <1>3 DEF ConsumeLaunch

LEMMA TidyWalks ==
    ASSUME ServiceInv, NEW c \in Controllers, TidyNewTarget(c) \/ TidyOldTarget(c)
    PROVE  ControlWalks(c)
  <1> USE DEF ServiceInv
  <1>1. CASE TidyNewTarget(c)
    <2>1. dir.target = "new" /\ ControlOnly /\ UNCHANGED record
      BY <1>1 DEF TidyNewTarget, NewTargetSeen
    <2>2. CASE Threw(c) /\ UNCHANGED dir
      BY <2>1, <2>2, ThrewWalks, ControlDirStill
    <2>3. CASE dir' = [dir EXCEPT !.control = FALSE] /\ Answered(c, "newTarget")
      BY <2>1, <2>3, AnsweredEffect, ControlDirStill
      DEF ControlWalks, ControlAnswers, ArrivesFit, Answers, TypeOK
    <2> QED
      BY <1>1, <2>2, <2>3 DEF TidyNewTarget
  <1>2. CASE TidyOldTarget(c)
    <2> DEFINE s == IF dir.stage = "payload" THEN "none" ELSE dir.stage
               e == [dir EXCEPT !.control = FALSE]
               d == [e EXCEPT !.stage = s]
    <2>1. ControlOnly /\ UNCHANGED record
          /\ \/ Threw(c) /\ UNCHANGED dir
             \/ dir' = d /\ Answered(c, "oldTarget")
      BY <1>2 DEF TidyOldTarget
    <2>2. CASE Threw(c) /\ UNCHANGED dir
      BY <2>1, <2>2, ThrewWalks, ControlDirStill
    <2>3. CASE dir' = d /\ Answered(c, "oldTarget")
      <3>1. s \in {"payload", "prepared", "none"} /\ (dir.stage = "prepared" => s = "prepared")
        BY DEF TypeOK, Directory
      <3>2. /\ e \in Directory /\ e.target = dir.target /\ e.journal = dir.journal
            /\ e.stage = dir.stage
        BY DEF TypeOK, Directory
      <3> HIDE DEF e, s
      <3>3. d \in Directory /\ d.target = dir.target /\ d.journal = dir.journal /\ d.stage = s
        BY <3>1, <3>2 DEF Directory
      <3> HIDE DEF d
      <3>4. DirStill
        BY <2>3, <3>1, <3>3 DEF DirStill
      <3> QED
        BY <2>1, <2>3, <3>4, AnsweredEffect
        DEF ControlWalks, ControlAnswers, ArrivesFit, Answers, TypeOK
    <2> QED
      BY <2>1, <2>2, <2>3
  <1> QED
    BY <1>1, <1>2

LEMMA InspectWalks ==
    ASSUME ServiceInv, NEW c \in Controllers, InspectJournal(c)
    PROVE  ControlWalks(c)
  <1> USE DEF ServiceInv
  <1>0. /\ control[c].pc = "inspect" /\ control[c].rec \in Record /\ ControlOnly /\ DirStill
        /\ control[c].rec.state \notin ActivatedStates
    BY ControlDirStill DEF InspectJournal, CopiesAreRecords, NewTargetSeen
  <1> DEFINE r == [control[c].rec EXCEPT !.journal = Digest]
  <1>1. r \in Record /\ r.state = control[c].rec.state
    BY <1>0, ServiceAssumption DEF Record
  <1>2. ASSUME NEW q \in Record, NEW j \in BOOLEAN, q.state \notin ActivatedStates,
               control' = [control EXCEPT ![c].rec = q, ![c].journal = j, ![c].pc = "recover"],
               record' = record \/ (Accepts(q) /\ record' = q)
        PROVE  ControlWalks(c)
    <2> DEFINE n == [control EXCEPT ![c].rec = q]
               k == [n EXCEPT ![c].journal = j]
    <2>1. n \in [Controllers -> ControlType] /\ n[c].rec = q
          /\ n[c].answer = control[c].answer /\ \A d \in Controllers \ {c} : n[d] = control[d]
      BY DEF TypeOK, ControlType
    <2> HIDE DEF n
    <2>2. k \in [Controllers -> ControlType] /\ k[c].rec = q
          /\ k[c].answer = control[c].answer /\ \A d \in Controllers \ {c} : k[d] = control[d]
      BY <2>1 DEF ControlType
    <2>3. control' = [k EXCEPT ![c].pc = "recover"]
      BY <1>2 DEF n
    <2> HIDE DEF k
    <2>4. ControlMoves(c) /\ control'[c].pc = "recover" /\ control'[c].rec = q
          /\ control'[c].answer = control[c].answer
      BY <2>2, <2>3 DEF ControlMoves, ControlType, ControlPcs
    <2> QED
      BY <1>0, <1>2, <2>4 DEF ControlWalks, ArrivesFit, NewTargetSeen, TypeOK
  <1>3. CASE ~Accepts(r) /\ Threw(c) /\ UNCHANGED record
    BY <1>0, <1>3, ThrewWalks
  <1>4. CASE Accepts(r) /\ record' = r
             /\ control' = [control EXCEPT ![c].rec = r, ![c].journal = TRUE,
                                           ![c].pc = "recover"]
    <2> HIDE DEF r
    <2> QED
      BY <1>0, <1>1, <1>2, <1>4
  <1>5. CASE /\ control' = [control EXCEPT ![c].journal = dir.journal, ![c].pc = "recover"]
             /\ UNCHANGED record
    <2>1. control = [control EXCEPT ![c].rec = control[c].rec]
      BY DEF TypeOK
    <2>2. dir.journal \in BOOLEAN
      BY DEF TypeOK, Directory
    <2> QED
      BY <1>0, <1>2, <1>5, <2>1, <2>2
  <1> QED
    BY <1>3, <1>4, <1>5 DEF InspectJournal

LEMMA SettleWalks ==
    ASSUME ServiceInv, NEW c \in Controllers, control[c].pc # "idle",
           NEW s \in {"recoveryRequired", "manualActionRequired"}, Settle(c, s),
           ControlOnly, UNCHANGED record, DirStill
    PROVE  ControlWalks(c)
  <1> USE DEF ServiceInv
  <1>1. control[c].rec \in Record /\ s \in States
    BY DEF CopiesAreRecords, States, ActiveStates, TerminalStates
  <1>2. /\ ControlMoves(c) /\ control'[c].pc = "settle"
        /\ control'[c].rec = InState(control[c].rec, s)
        /\ control'[c].answer = control[c].answer
    BY <1>1, SettleEffect
  <1> QED
    BY <1>1, <1>2, InStateRecord DEF ControlWalks, ArrivesFit, NewTargetSeen,
           TypeOK

(* c goes on with its copy of the record.                                  *)
LEMMA GotoWalks ==
    ASSUME ServiceInv, NEW c \in Controllers, control[c].pc # "idle",
           NEW pc \in ControlPcs \ {"settle", "inspect"}, ControlGoto(c, pc),
           pc \in {"terminal", "tidyNew", "recovered", "consume"} => dir.target = "new",
           pc = "swap" => helper.pc = "ended" /\ dir.journal,
           ControlOnly, UNCHANGED record, DirStill
    PROVE  ControlWalks(c)
  BY ControlGotoEffect DEF ServiceInv, ControlTo, ControlWalks, ArrivesFit,
         CopiesAreRecords, NewTargetSeen, TypeOK

LEMMA RecoverWalks ==
    ASSUME ServiceInv, NEW c \in Controllers, Recover(c)
    PROVE  ControlWalks(c)
  <1> USE DEF ServiceInv
  <1>0. control[c].pc # "idle" /\ ControlOnly /\ UNCHANGED record
    BY DEF Recover
  <1>1. CASE Settle(c, "recoveryRequired") /\ UNCHANGED dir
    BY <1>0, <1>1, SettleWalks, ControlDirStill
  <1>2. CASE /\ dir.lock /\ ~LockIsHeld(c) /\ dir.journal
             /\ ControlGoto(c, "swap") /\ UNCHANGED dir
    <2>1. helper.pc = "ended"
      BY <1>2 DEF LockIsHeld, OwnerLives, HelperFits, Early
    <2> QED
      BY <1>0, <1>2, <2>1, GotoWalks, ControlDirStill DEF ControlPcs
  <1>3. CASE /\ dir' = [dir EXCEPT !.lock = FALSE]
             /\ Settle(c, "manualActionRequired") \/ ControlGoto(c, "topology")
    BY <1>0, <1>3, SettleWalks, GotoWalks, ControlDirStill DEF ControlPcs
  <1> QED
    BY <1>1, <1>2, <1>3 DEF Recover

LEMMA RegisterRecoveredWalks ==
    ASSUME ServiceInv, NEW c \in Controllers, RegisterRecovered(c)
    PROVE  ControlWalks(c)
  <1> USE DEF ServiceInv
  <1>0. /\ control[c].pc = "recovered" /\ control[c].rec \in Record /\ dir.target = "new"
        /\ ControlOnly /\ DirStill
    BY ControlDirStill DEF RegisterRecovered, CopiesAreRecords, NewTargetSeen
  <1> DEFINE r == InState(control[c].rec, "launchPending")
  <1>1. r \in Record
    BY <1>0, InStateRecord DEF States, ActiveStates
  <1>2. CASE ControlPersists(c, r, "consume")
    <2> HIDE DEF r
    <2> QED
      BY <1>0, <1>1, <1>2, ControlPersistsEffect
      DEF ControlPcs, ControlWalks, ControlAnswers, ArrivesFit
  <1>3. CASE Threw(c) /\ UNCHANGED record
    BY <1>0, <1>3, ThrewWalks
  <1> QED
    BY <1>2, <1>3 DEF RegisterRecovered

(* c writes r and ends with an answer, or ends without.                    *)
LEMMA LastWriteWalks ==
    ASSUME ServiceInv, NEW c \in Controllers, NEW r \in Record, NEW answer \in Answers,
           ControlOnly, DirStill,
           r.state \in ActivatedStates \/ answer = "newTarget" => dir.target = "new",
           \/ Accepts(r) /\ record' = r /\ Answered(c, answer)
           \/ Threw(c) /\ UNCHANGED record
    PROVE  ControlWalks(c)
  <1>1. CASE Threw(c) /\ UNCHANGED record
    BY <1>1, ThrewWalks
  <1>2. CASE Accepts(r) /\ record' = r /\ Answered(c, answer)
    BY <1>2, AnsweredEffect DEF ServiceInv, ControlWalks, ControlAnswers,
           ArrivesFit
  <1> QED
    BY <1>1, <1>2

LEMMA EndingWalks ==
    ASSUME ServiceInv, NEW c \in Controllers,
           RegisterConsumed(c) \/ ControlRollsBack(c) \/ SettleRecord(c)
    PROVE  ControlWalks(c)
  <1> USE DEF ServiceInv
  <1>1. control[c].rec \in Record /\ ControlOnly /\ DirStill
    BY ControlDirStill DEF RegisterConsumed, ControlRollsBack, SettleRecord,
           CopiesAreRecords
  <1>2. CASE RegisterConsumed(c)
    <2> DEFINE r == InState(control[c].rec, "launchFailed")
    <2>1. r \in Record /\ dir.target = "new" /\ "newTarget" \in Answers
      BY <1>1, <1>2, InStateRecord DEF States, TerminalStates,
             RegisterConsumed, NewTargetSeen, Answers
    <2>2. \/ Accepts(r) /\ record' = r /\ Answered(c, "newTarget")
          \/ Threw(c) /\ UNCHANGED record
      BY <1>2 DEF RegisterConsumed
    <2> HIDE DEF r
    <2> QED
      BY <1>1, <2>1, <2>2, LastWriteWalks
  <1>3. CASE ControlRollsBack(c)
    <2> DEFINE r == InState(control[c].rec, "rolledBack")
    <2>1. r \in Record /\ r.state \notin ActivatedStates /\ "oldTarget" \in Answers
      BY <1>1, InStateRecord DEF States, TerminalStates, Answers,
             ActivatedStates
    <2>2. \/ Accepts(r) /\ record' = r /\ Answered(c, "oldTarget")
          \/ Threw(c) /\ UNCHANGED record
      BY <1>3 DEF ControlRollsBack
    <2> HIDE DEF r
    <2> QED
      BY <1>1, <2>1, <2>2, LastWriteWalks
  <1>4. CASE SettleRecord(c)
    <2> DEFINE r == control[c].rec
    <2>1. r.state \in {"recoveryRequired", "manualActionRequired"}
      BY <1>4 DEF SettleRecord, CopiesAreRecords
    <2>2. r.state \in Answers /\ r.state \notin ActivatedStates /\ r.state # "newTarget"
      BY <2>1 DEF Answers, ActivatedStates
    <2>3. \/ Accepts(r) /\ record' = r /\ Answered(c, r.state)
          \/ Threw(c) /\ UNCHANGED record
      BY <1>4 DEF SettleRecord
    <2> HIDE DEF r
    <2> QED
      BY <1>1, <2>2, <2>3, LastWriteWalks DEF r
  <1> QED
    BY <1>2, <1>3, <1>4

LEMMA TopologyWalks ==
    ASSUME ServiceInv, NEW c \in Controllers, ExamineTopology(c)
    PROVE  ControlWalks(c)
  <1>1. control[c].pc # "idle" /\ ControlOnly /\ UNCHANGED <<record, dir>> /\ DirStill
    BY ControlDirStill DEF ExamineTopology, ServiceInv
  <1>2. CASE dir.target = "new" /\ ControlGoto(c, "recovered")
    BY <1>1, <1>2, GotoWalks DEF ControlPcs
  <1>3. CASE ControlGoto(c, "remove") \/ ControlGoto(c, "rollBack")
    BY <1>1, <1>3, GotoWalks DEF ControlPcs
  <1>4. CASE Settle(c, "manualActionRequired")
    BY <1>1, <1>4, SettleWalks
  <1> QED
    BY <1>2, <1>3, <1>4 DEF ExamineTopology

LEMMA RemoveStageWalks ==
    ASSUME ServiceInv, NEW c \in Controllers, RemoveStage(c)
    PROVE  ControlWalks(c)
  <1> USE DEF ServiceInv
  <1>1. control[c].pc # "idle" /\ ControlOnly /\ UNCHANGED record
    BY DEF RemoveStage
  <1>2. CASE /\ dir.stage = "payload" /\ dir' = [dir EXCEPT !.stage = "none"]
             /\ ControlGoto(c, "rollBack")
    <2>1. DirStill
      BY <1>2 DEF DirStill, TypeOK, Directory
    <2> QED
      BY <1>1, <1>2, <2>1, GotoWalks DEF ControlPcs
  <1>3. CASE Threw(c) /\ UNCHANGED dir
    BY <1>1, <1>3, ThrewWalks, ControlDirStill
  <1> QED
    BY <1>2, <1>3 DEF RemoveStage

LEMMA ControlWalksEffects ==
    ASSUME ServiceInv, NEW c \in Controllers, ControlNext(c) \/ ControlDies(c)
    PROVE  ControlWalks(c) \/ RecoverSwap(c)
  <1>1. CASE ControlDies(c)
    BY <1>1, ThrewWalks, ControlDirStill DEF ControlDies, ServiceInv
  <1>2. CASE ControlNext(c)
    BY <1>2, BeginRecoveryWalks, QueryWalks, ConsumeLaunchWalks, TidyWalks,
       InspectWalks, RecoverWalks, RegisterRecoveredWalks, EndingWalks,
       TopologyWalks, RemoveStageWalks
    DEF ControlNext
  <1> QED
    BY <1>1, <1>2

LEMMA ControlWalksKeepsService ==
    ASSUME ServiceInv, NEW c \in Controllers, ControlWalks(c)
    PROVE  ServiceInv'
  <1> USE DEF ServiceInv, ControlWalks, ControlOnly
  <1>0. record.state = "rolledBack" => record'.state = "rolledBack"
    BY RolledBackStays
  <1>1. TypeOK'
    BY DEF TypeOK, DirStill, ControlMoves, ControlType
  <1>2. CopiesAreRecords'
    BY DEF CopiesAreRecords, ControlMoves, ArrivesFit
  <1>3. HelperFits'
    BY DEF HelperFits, DirStill, ControlMoves
  <1>4. LaunchFits'
    BY DEF LaunchFits, DirStill
  <1>5. CancelFits'
    BY <1>0 DEF CancelFits, RolledBackForGood, CallerTold, DirStill,
           ControlMoves
  <1>6. NewTargetSeen'
    BY DEF NewTargetSeen, DirStill, ControlMoves, ArrivesFit
  <1> QED
    BY <1>1, <1>2, <1>3, <1>4, <1>5, <1>6

(* A step of the swap in a control service, which leaves a target that was *)
(* new as it is and otherwise stays at work.                               *)
SwapWalks(c) ==
    /\ ControlOnly /\ UNCHANGED record /\ ControlMoves(c)
    /\ dir.target # "new" => control' = control
    /\ dir.target = "new" => control'[c].pc \in {"recovered", "settle"}
    /\ control'[c].rec.journal = control[c].rec.journal
    /\ control'[c].answer = control[c].answer
    /\ ArrivesFit(c) \/ control' = control
    /\ dir' \in Directory
    /\ dir.target = "new" => dir'.target = "new"
    /\ dir'.target = "away" => dir'.stage = "prepared"
    /\ dir.target # "new" => dir'.journal = dir.journal

LEMMA RecoverSwapChecked ==
    ASSUME ServiceInv, NEW c \in Controllers, RecoverSwap(c), SwapChecked(dir)
    PROVE  SwapWalks(c)
  <1> USE DEF ServiceInv
  <1>0. /\ control[c].pc = "swap" /\ control[c].rec \in Record /\ ControlOnly
        /\ UNCHANGED record /\ dir' = SwapStep(dir)
        /\ IF dir.target # "new" THEN UNCHANGED control
           ELSE ControlGoto(c, "recovered") \/ Settle(c, "manualActionRequired")
    BY DEF RecoverSwap, CopiesAreRecords
  <1>1. CASE dir.target # "new"
    BY <1>0, <1>1, SwapStepEffect DEF SwapWalks, ControlMoves, TypeOK,
           ControlType, HelperFits
  <1>2. CASE dir.target = "new"
    <2>1. /\ ControlMoves(c) /\ control'[c].pc \in {"recovered", "settle"}
          /\ control'[c].answer = control[c].answer /\ control'[c].rec \in Record
          /\ control'[c].rec.journal = control[c].rec.journal
          /\ control'[c].pc = "settle" => control'[c].rec.state = "manualActionRequired"
      BY <1>0, <1>2, ControlGotoEffect, SettleEffect, InStateRecord
      DEF ControlTo, ControlPcs, States, TerminalStates
    <2>2. ArrivesFit(c)
      BY <1>2, <2>1 DEF ArrivesFit
    <2>3. dir' \in Directory /\ dir'.target = "new"
      BY <1>0, <1>2, SwapStepEffect DEF TypeOK, HelperFits
    <2> QED
      BY <1>0, <1>2, <2>1, <2>2, <2>3 DEF SwapWalks
  <1> QED
    BY <1>1, <1>2

LEMMA RecoverSwapEffects ==
    ASSUME ServiceInv, NEW c \in Controllers, RecoverSwap(c)
    PROVE  ControlWalks(c) \/ (SwapWalks(c) /\ control[c].pc = "swap")
  <1>1. CASE Settle(c, "manualActionRequired") /\ UNCHANGED dir
    BY <1>1, SettleWalks, ControlDirStill DEF RecoverSwap, ServiceInv
  <1>2. CASE SwapChecked(dir)
    BY <1>2, RecoverSwapChecked DEF RecoverSwap
  <1> QED
    BY <1>1, <1>2 DEF RecoverSwap

LEMMA SwapWalksKeepsService ==
    ASSUME ServiceInv, NEW c \in Controllers, SwapWalks(c), control[c].pc = "swap"
    PROVE  ServiceInv'
  <1> USE DEF ServiceInv, SwapWalks, ControlOnly
  <1>0. helper.pc = "ended"
    BY DEF HelperFits
  <1>1. TypeOK'
    BY DEF TypeOK, ControlMoves, ControlType
  <1>2. CopiesAreRecords'
    BY DEF CopiesAreRecords, ControlMoves, ArrivesFit
  <1>3. HelperFits'
    BY <1>0 DEF HelperFits, Early, Prepared, Undone, Swapped
  <1>4. LaunchFits'
    BY DEF LaunchFits
  <1>5. CancelFits'
    BY DEF CancelFits, RolledBackForGood, CallerTold
  <1>6. NewTargetSeen'
    BY DEF NewTargetSeen, ControlMoves, ArrivesFit
  <1> QED
    BY <1>1, <1>2, <1>3, <1>4, <1>5, <1>6

-----------------------------------------------------------------------------
(* The theorems for any control services.                                  *)

LEMMA InitServiceInv == Init => ServiceInv
  <1> SUFFICES ASSUME Init PROVE ServiceInv
    OBVIOUS
  <1> USE DEF Init, NoControl, NoRecord
  <1>0. << >> \in Seq(Frames)
    OBVIOUS
  <1>1. TypeOK
    <2>1. control \in [Controllers -> ControlType]
      BY DEF ControlType, ControlPcs, Answers
    <2>2. dir \in Directory /\ caller \in CallerType /\ helper \in HelperType
          /\ wire \in WireType
      BY <1>0 DEF Directory, CallerType, CallerPcs, HelperType, HelperPcs,
             WireType
    <2> QED
      BY <2>1, <2>2 DEF TypeOK, ControlType, CallerType, HelperType, WireType
  <1>2. CopiesAreRecords /\ HelperFits
    BY DEF CopiesAreRecords, HelperFits, Early, Prepared, Undone, Swapped
  <1>3. LaunchFits /\ CancelFits
    BY DEF LaunchFits, CancelFits, CallerTold
  <1>4. NewTargetSeen
    BY DEF NewTargetSeen, ActivatedStates
  <1> QED
    BY <1>1, <1>2, <1>3, <1>4 DEF ServiceInv

LEMMA ServiceStep == ServiceInv /\ [Next]_vars => ServiceInv'
  <1> SUFFICES ASSUME ServiceInv, [Next]_vars PROVE ServiceInv'
    OBVIOUS
  <1>1. CASE CallerNext
    BY <1>1, CallerEffects, CallerKeepsService DEF ServiceInv
  <1>2. CASE HelperNext \/ HelperDies
    BY <1>2, HelperKeepsService
  <1>3. CASE Expire \/ UNCHANGED vars
    <2>1. /\ UNCHANGED <<caller, helper, wire, record, dir, control, defect, tampers, launches>>
          /\ expired' \in BOOLEAN
      BY <1>3 DEF Expire, SameShared, vars, ServiceInv, TypeOK
    <2> QED
      BY <2>1 DEF ServiceInv, TypeOK, CopiesAreRecords, HelperFits, LaunchFits,
             CancelFits, CallerTold, RolledBackForGood, NewTargetSeen
  <1>4. CASE Tamper
    BY <1>4 DEF Tamper, ServiceInv, TypeOK, CopiesAreRecords, HelperFits,
           LaunchFits, CancelFits, CallerTold, RolledBackForGood, NewTargetSeen
  <1>5. ASSUME NEW c \in Controllers, ControlNext(c) \/ ControlDies(c) PROVE ServiceInv'
    BY <1>5, ControlWalksEffects, ControlWalksKeepsService, RecoverSwapEffects,
       SwapWalksKeepsService
  <1> QED
    BY <1>1, <1>2, <1>3, <1>4, <1>5 DEF Next

(* The invariant holds in every reachable state, whatever dies, expires or *)
(* is changed.                                                             *)
THEOREM ServiceInvariance == Spec => []ServiceInv
  BY InitServiceInv, ServiceStep, PTL DEF Spec

(* Every variable keeps its type.                                          *)
THEOREM TypeCorrect == Spec => []TypeOK
  BY ServiceInvariance, PTL DEF ServiceInv

(* Relaunch starts the new application at most once, after the caller's    *)
(* exit and with the new target in place.                                  *)
THEOREM LaunchesOnceAfterExit == Spec => []LaunchedOnceAfterExit
  <1>1. ServiceInv => LaunchedOnceAfterExit
    BY DEF ServiceInv, TypeOK, LaunchFits, LaunchedOnceAfterExit
  <1> QED
    BY <1>1, ServiceInvariance, PTL

(* Once cancelReservation has succeeded, no recovery finds a journal to    *)
(* roll forward, however many control services run.                        *)
THEOREM CancelsStayOld == Spec => []CancelledStaysOld
  <1>1. ServiceInv => CancelledStaysOld
    BY DEF ServiceInv, CancelFits, RolledBackForGood, CancelledStaysOld
  <1> QED
    BY <1>1, ServiceInvariance, PTL

-----------------------------------------------------------------------------
(* What is added while recoveries of the transaction do not overlap: any   *)
(* number of control services come and go, die and start again, and        *)
(* answer queries meanwhile, but two never recover at the same moment.     *)
OneRecovers ==
    \A c, d \in Controllers : control[c].pc # "idle" /\ control[d].pc # "idle" => c = d

Digested == record # NoRecord /\ record.journal # NoJournal

(* The digest is in the record only when there has been a journal.         *)
DigestFits ==
    /\ helper.pc \in {"none", "authorizing", "registering"} =>
          record = NoRecord /\ \A c \in Controllers : control[c].pc = "idle"
    /\ Digested => helper.pc \notin Early
    /\ helper.pc = "locking" => helper.rec.journal = NoJournal
    /\ helper.pc \in (Prepared \ {"preparing"}) \cup Undone \cup Swapped \cup {"executing"} =>
          Digested /\ helper.rec.journal # NoJournal
    /\ dir.target = "away" => dir.journal
    /\ \A c \in Controllers :
          control[c].pc # "idle" /\ control[c].rec.journal # NoJournal => Digested

(* Where a control service works on from having found no journal.          *)
WithoutJournal(c) ==
    \/ control[c].pc \in {"topology", "remove", "rollBack"}
    \/ control[c].pc = "recover" /\ ~control[c].journal

(* It decides by a target that stays, or its write will be refused.        *)
RollBackFits ==
    \A c \in Controllers :
        /\ control[c].pc = "swap" => dir.journal
        /\ WithoutJournal(c) /\ control[c].rec.journal # NoJournal => ~dir.journal
        /\ control[c].pc \in {"remove", "rollBack"} =>
              dir.target = "old" \/ (control[c].rec.journal = NoJournal /\ Digested)

(* Once the record says rolled back, no process will swap.                 *)
OldTargetStays ==
    /\ record.state = "rolledBack" =>
          /\ dir.target = "old"
          /\ helper.pc \in {"locking", "abandoning", "journaling", "unwinding",
                            "preparing", "rollingBack", "cleaning", "ended"}
          /\ \A c \in Controllers : control[c].pc # "swap"
          /\ \/ \A c \in Controllers : control[c].pc \notin {"inspect", "recover"}
             \/ ~dir.journal /\ helper.pc \in {"abandoning", "cleaning", "ended"}
    /\ \A c \in Controllers :
          control[c].pc = "tidyOld" \/ control[c].answer = "oldTarget" =>
              record.state = "rolledBack"

SerialInv == ServiceInv /\ DigestFits /\ RollBackFits /\ OldTargetStays

(* Persist never takes the digest back.                                    *)
LEMMA DigestStays ==
    ASSUME NEW r \in Record, Accepts(r), Digested
    PROVE  r.journal = record.journal
  BY DEF Accepts, Digested, ValidTransition

LEMMA NoRecordIsNotDigested ==
    ASSUME TypeOK
    PROVE  /\ record.state # "none" <=> record # NoRecord
           /\ record' \in Record => record' # NoRecord
  BY NoRecordState DEF TypeOK, Record

LEMMA CallerKeepsSerial ==
    ASSUME SerialInv, CallerMoves
    PROVE  DigestFits' /\ RollBackFits' /\ OldTargetStays'
  <1> USE DEF SerialInv
  <1>1. \/ helper' = helper
        \/ helper'.pc = "ended" /\ helper'.rec = helper.rec
        \/ helper.pc = "none" /\ helper'.pc = "authorizing"
    BY DEF CallerMoves, HelperMayEnd, HelperTo, ServiceInv, HelperFits
  <1>2. UNCHANGED <<record, dir, control>>
    BY DEF CallerMoves
  <1>3. DigestFits'
    BY <1>1, <1>2 DEF DigestFits, Digested, Early, Prepared, Undone, Swapped
  <1>4. RollBackFits'
    BY <1>2 DEF RollBackFits, WithoutJournal, Digested
  <1>5. OldTargetStays'
    BY <1>1, <1>2 DEF OldTargetStays
  <1> QED
    BY <1>3, <1>4, <1>5

LEMMA HelperWalksKeepsSerial ==
    ASSUME SerialInv, HelperWalks
    PROVE  DigestFits' /\ RollBackFits' /\ OldTargetStays'
  <1> USE DEF SerialInv, HelperWalks, HelperOnly, DirStill
  <1>1. DigestFits'
    BY DEF DigestFits, Digested, Early, Prepared, Undone, Swapped
  <1>2. RollBackFits'
    BY DEF RollBackFits, WithoutJournal, Digested
  <1>3. OldTargetStays'
    BY DEF OldTargetStays, Prepared
  <1> QED
    BY <1>1, <1>2, <1>3

LEMMA HelperJournalsKeepsSerial ==
    ASSUME SerialInv,
           \/ HelperJournals("journaling", "preparing", TRUE)
           \/ HelperJournals("cancelling", "rollingBack", FALSE)
    PROVE  DigestFits' /\ RollBackFits' /\ OldTargetStays'
  <1> USE DEF SerialInv, HelperJournals, HelperOnly, HelperTo
  <1>0. dir.target = "old" /\ \A c \in Controllers : control[c].pc # "swap"
    BY DEF ServiceInv, HelperFits, Early, Prepared
  <1>1. DigestFits'
    BY <1>0 DEF DigestFits, Digested, Early, Prepared, Undone, Swapped
  <1>2. RollBackFits'
    BY <1>0 DEF RollBackFits, WithoutJournal, Digested, DigestFits, Early
  <1>3. OldTargetStays'
    BY <1>0 DEF OldTargetStays
  <1> QED
    BY <1>1, <1>2, <1>3

LEMMA HelperWritesKeepsSerial ==
    ASSUME SerialInv, HelperWrites
    PROVE  DigestFits' /\ RollBackFits' /\ OldTargetStays'
  <1> USE DEF SerialInv, HelperWrites, HelperOnly
  <1>0. /\ Digested => Digested' /\ (record' = record \/ record'.journal = record.journal)
        /\ record.state = "rolledBack" => record'.state = "rolledBack"
        /\ record' # record => record' \in Record /\ record' # NoRecord
        /\ Digest # NoJournal
    BY DigestStays, RolledBackStays, NoRecordIsNotDigested, ServiceAssumption,
       JournalAssumption
    DEF ServiceInv, Digested
  <1>1. DigestFits'
    <2>1. CASE helper.pc \in {"registering", "locking"}
      BY <1>0, <2>1 DEF DigestFits, Digested, Early, Prepared, Undone, Swapped
    <2>2. CASE helper.pc = "preparing"
      BY <1>0, <2>2, NoRecordState DEF DigestFits, Digested, Early, Prepared,
             Undone, Swapped
    <2>3. CASE helper.pc \notin {"registering", "locking", "preparing"}
      BY <1>0, <2>3 DEF DigestFits, Digested, Early, Prepared, Undone, Swapped
    <2> QED
      BY <2>1, <2>2, <2>3
  <1>2. RollBackFits'
    BY <1>0 DEF RollBackFits, WithoutJournal
  <1>3. OldTargetStays'
    <2>1. CASE record.state = "rolledBack"
      <3>1. helper.pc # "preparing" \/ helper'.pc = "ended"
        BY <2>1, RolledBackStays DEF ServiceInv
      <3> QED
        BY <1>0, <2>1, <3>1 DEF OldTargetStays, Early, Prepared, Swapped
    <2>2. CASE record.state # "rolledBack"
      <3>1. record'.state = "rolledBack" =>
              /\ helper.pc \in {"locking", "rollingBack"}
              /\ helper'.pc \in {"abandoning", "cleaning", "ended"}
              /\ dir.target = "old" /\ ~dir.journal
              /\ \A c \in Controllers : control[c].pc # "swap"
        BY <2>2 DEF ServiceInv, HelperFits, Early, Prepared, Undone, Swapped
      <3> QED
        BY <2>2, <3>1 DEF OldTargetStays
    <2> QED
      BY <2>1, <2>2
  <1> QED
    BY <1>1, <1>2, <1>3

LEMMA ExecuteKeepsSerial ==
    ASSUME SerialInv, Execute
    PROVE  DigestFits' /\ RollBackFits' /\ OldTargetStays'
  <1> USE DEF SerialInv
  <1>1. /\ HelperOnly /\ UNCHANGED <<wire, record, launches>>
        /\ helper.pc = "executing" /\ SwapChecked(dir) /\ dir' = SwapStep(dir)
        /\ HelperTo(IF dir.target = "new" THEN "pending" ELSE "executing")
    BY HelperGotoEffect DEF Execute, HelperPcs, ServiceInv
  <1>2. /\ dir' \in Directory /\ dir.journal
        /\ dir.target = "new" => dir'.target = "new"
        /\ dir.target # "new" => dir'.journal
        /\ \A c \in Controllers : control[c].pc # "swap"
    BY <1>1, SwapStepEffect DEF ServiceInv, TypeOK, HelperFits
  <1> USE DEF HelperOnly, HelperTo
  <1>3. DigestFits'
    BY <1>1, <1>2 DEF DigestFits, Digested, Early, Prepared, Undone, Swapped
  <1>4. RollBackFits'
    BY <1>1, <1>2 DEF RollBackFits, WithoutJournal, Digested, DigestFits
  <1>5. OldTargetStays'
    BY <1>1, <1>2 DEF OldTargetStays
  <1> QED
    BY <1>3, <1>4, <1>5

LEMMA LastStepsKeepSerial ==
    ASSUME SerialInv, Relaunch \/ CleanupCancelled
    PROVE  DigestFits' /\ RollBackFits' /\ OldTargetStays'
  <1> USE DEF SerialInv
  <1>1. /\ HelperOnly /\ UNCHANGED record
        /\ \/ helper.pc = "launching" /\ (HelperTo("launched") \/ HelperTo("launchFailed"))
           \/ helper.pc = "cleaning" /\ HelperTo("ended")
    BY HelperGotoEffect DEF Relaunch, CleanupCancelled, HelperPcs, ServiceInv
  <1>2. dir'.target = dir.target /\ dir'.journal = dir.journal
    <2> DEFINE d == [dir EXCEPT !.stage = "none", !.control = FALSE]
    <2>1. d.target = dir.target /\ d.journal = dir.journal
      BY DEF ServiceInv, TypeOK, Directory
    <2>2. dir' = d \/ dir' = dir
      BY DEF Relaunch, CleanupCancelled
    <2> HIDE DEF d
    <2> QED
      BY <2>1, <2>2
  <1> USE DEF HelperOnly, HelperTo
  <1>3. DigestFits'
    BY <1>1, <1>2 DEF DigestFits, Digested, Early, Prepared, Undone, Swapped
  <1>4. RollBackFits'
    BY <1>1, <1>2 DEF RollBackFits, WithoutJournal, Digested
  <1>5. OldTargetStays'
    BY <1>1, <1>2 DEF OldTargetStays
  <1> QED
    BY <1>3, <1>4, <1>5

LEMMA HelperKeepsSerial ==
    ASSUME SerialInv, HelperNext \/ HelperDies
    PROVE  DigestFits' /\ RollBackFits' /\ OldTargetStays'
  BY HelperWalksEffects, HelperWalksKeepsSerial, HelperJournalsEffects,
     HelperJournalsKeepsSerial, HelperWritesEffects, HelperWritesKeepsSerial,
     ExecuteKeepsSerial, LastStepsKeepSerial
  DEF HelperNext, SerialInv

-----------------------------------------------------------------------------
(* What a step of control service c leaves besides ControlWalks.           *)
SerialWalks(c) ==
    /\ helper.pc \notin {"none", "authorizing", "registering"}
    /\ Digested => Digested'
    /\ Digested' => Digested \/ dir.journal
    /\ control'[c].pc # "idle" /\ control'[c].rec.journal # NoJournal => Digested'
    /\ WithoutJournal(c)' /\ control'[c].rec.journal # NoJournal => ~dir.journal
    /\ control'[c].pc \in {"remove", "rollBack"} =>
          dir.target = "old" \/ (control'[c].rec.journal = NoJournal /\ Digested')
    /\ control'[c].pc = "tidyOld" \/ control'[c].answer = "oldTarget" =>
          record'.state = "rolledBack"
    /\ record'.state = "rolledBack" =>
          \/ /\ record.state = "rolledBack"
             /\ control'[c].pc \in {"inspect", "recover", "swap"} =>
                  control[c].pc \in {"inspect", "recover"}
          \/ /\ dir.target = "old" /\ control'[c].pc = "idle"
             /\ helper.pc \in {"locking", "abandoning", "journaling", "unwinding",
                               "preparing", "rollingBack", "cleaning", "ended"}

LEMMA ControlWalksKeepsSerial ==
    ASSUME SerialInv, NEW c \in Controllers, ControlWalks(c), SerialWalks(c),
           \A d \in Controllers : d # c => control[d].pc = "idle"
    PROVE  DigestFits' /\ RollBackFits' /\ OldTargetStays'
  <1> USE DEF SerialInv, ControlWalks, ControlOnly, DirStill, SerialWalks
  <1>0. /\ \A d \in Controllers :
              d = c \/ (control'[d] = control[d] /\ control[d].pc = "idle")
        /\ record.state = "rolledBack" => record'.state = "rolledBack"
    BY RolledBackStays DEF ControlMoves, ServiceInv
  <1>j. dir.journal => helper.pc \notin Early
    BY DEF ServiceInv, HelperFits
  <1>1. DigestFits'
    BY <1>0, <1>j DEF DigestFits, Early
  <1>2. RollBackFits'
    BY <1>0 DEF RollBackFits, WithoutJournal
  <1>3. OldTargetStays'
    BY <1>0 DEF OldTargetStays
  <1> QED
    BY <1>1, <1>2, <1>3

LEMMA SwapWalksKeepsSerial ==
    ASSUME SerialInv, NEW c \in Controllers, SwapWalks(c), control[c].pc = "swap",
           \A d \in Controllers : d # c => control[d].pc = "idle"
    PROVE  DigestFits' /\ RollBackFits' /\ OldTargetStays'
  <1> USE DEF SerialInv, SwapWalks, ControlOnly
  <1>0. /\ \A d \in Controllers :
              d = c \/ (control'[d] = control[d] /\ control[d].pc = "idle")
        /\ record.state # "rolledBack" /\ dir.journal /\ helper.pc = "ended"
        /\ \A d \in Controllers : control[d].answer # "oldTarget"
    BY DEF ControlMoves, OldTargetStays, RollBackFits, ServiceInv, HelperFits
  <1>1. DigestFits'
    BY <1>0 DEF DigestFits, Digested, Early, Prepared, Undone, Swapped
  <1>2. RollBackFits'
    BY <1>0 DEF RollBackFits, WithoutJournal, Digested
  <1>3. OldTargetStays'
    BY <1>0 DEF OldTargetStays
  <1> QED
    BY <1>1, <1>2, <1>3

(* A query is no recovery: it may be answered beside one.                  *)
LEMMA QueryKeepsSerial ==
    ASSUME SerialInv, NEW c \in Controllers, QueryTransaction(c)
    PROVE  DigestFits' /\ RollBackFits' /\ OldTargetStays'
  <1> USE DEF SerialInv
  <1> DEFINE a == QueryAnswer(record.state)
  <1>1. a \in Answers /\ (a = "oldTarget" => record.state = "rolledBack")
    BY DEF QueryAnswer, Answers
  <1>2. Answered(c, a) /\ control[c].pc = "idle" /\ UNCHANGED <<record, dir, helper>>
    BY DEF QueryTransaction, ControlOnly
  <1> HIDE DEF a
  <1>3. ControlAnswers(c, a)
    BY <1>1, <1>2, AnsweredEffect DEF ServiceInv
  <1>4. \A d \in Controllers :
           \/ control'[d] = control[d]
           \/ /\ control[d].pc = "idle" /\ control'[d].pc = "idle"
              /\ control'[d].answer = "oldTarget" => record.state = "rolledBack"
    BY <1>1, <1>2, <1>3 DEF ControlAnswers, ControlMoves
  <1>5. DigestFits'
    BY <1>2, <1>4 DEF DigestFits, Digested
  <1>6. RollBackFits'
    BY <1>2, <1>4 DEF RollBackFits, WithoutJournal, Digested
  <1>7. OldTargetStays'
    BY <1>2, <1>4 DEF OldTargetStays
  <1> QED
    BY <1>5, <1>6, <1>7

(* c ends without a write, and with the old target only as an answer to a  *)
(* record that says so.                                                    *)
LEMMA EndsSerial ==
    ASSUME SerialInv, NEW c \in Controllers, NEW answer \in Answers, Answered(c, answer),
           helper.pc \notin {"none", "authorizing", "registering"}, UNCHANGED record,
           answer = "oldTarget" => record.state = "rolledBack"
    PROVE  SerialWalks(c)
  <1>1. ControlAnswers(c, answer)
    BY AnsweredEffect DEF SerialInv, ServiceInv
  <1> QED
    BY <1>1 DEF ControlAnswers, SerialWalks, Digested, WithoutJournal

LEMMA ThrewSerial ==
    ASSUME SerialInv, NEW c \in Controllers, Threw(c), UNCHANGED record,
           helper.pc \notin {"none", "authorizing", "registering"}
    PROVE  SerialWalks(c)
  BY EndsSerial DEF Threw, Answers

(* c goes on from where it works, without a write.                         *)
LEMMA GoesOnSerial ==
    ASSUME SerialInv, NEW c \in Controllers, NEW pc \in ControlPcs, control[c].pc # "idle",
           control'[c].pc = pc, control'[c].rec.journal = control[c].rec.journal,
           control'[c].answer = control[c].answer, UNCHANGED record,
           pc \notin {"tidyOld", "inspect", "recover"},
           pc = "swap" => control[c].pc = "recover",
           pc = "topology" => ~dir.journal,
           pc \in {"remove", "rollBack"} =>
              /\ WithoutJournal(c)
              /\ dir.target = "old" \/ (control[c].rec.journal = NoJournal /\ Digested)
    PROVE  SerialWalks(c)
  <1>1. helper.pc \notin {"none", "authorizing", "registering"}
    BY DEF SerialInv, DigestFits
  <1> QED
    BY <1>1 DEF SerialInv, DigestFits, RollBackFits, OldTargetStays,
           SerialWalks, Digested, WithoutJournal

(* c writes r, which has the digest of its copy, and goes to pc or ends.   *)
LEMMA WritesSerial ==
    ASSUME SerialInv, NEW c \in Controllers, NEW r \in Record, control[c].pc # "idle",
           r.journal = control[c].rec.journal, Accepts(r), record' = r,
           control'[c].pc \in {"idle", "tidyNew", "consume"},
           control'[c].pc # "idle" => control'[c].rec = r,
           control'[c].pc = "idle" /\ r.state # "rolledBack" => control'[c].answer # "oldTarget",
           control'[c].pc # "idle" =>
              r.state # "rolledBack" /\ control'[c].answer = control[c].answer,
           r.state = "rolledBack" => control[c].pc = "rollBack"
    PROVE  SerialWalks(c)
  <1> USE DEF SerialInv
  <1>1. helper.pc \notin {"none", "authorizing", "registering"}
    BY DEF DigestFits
  <1>2. /\ Digested => Digested'
        /\ Digested' => r.journal # NoJournal
        /\ r.journal # NoJournal => Digested'
        /\ record.state = "rolledBack" => r.state = "rolledBack"
    BY DigestStays, RolledBackStays, NoRecordState DEF Digested, ServiceInv
  <1>3. Digested' => Digested
    BY <1>2 DEF DigestFits
  <1>4. CASE r.state # "rolledBack"
    BY <1>1, <1>2, <1>3, <1>4 DEF SerialWalks, WithoutJournal, OldTargetStays
  <1>5. CASE r.state = "rolledBack"
    <2>1. control[c].pc = "rollBack" /\ control'[c].pc = "idle"
      BY <1>5
    <2>2. dir.target = "old"
      <3>1. CASE control[c].rec.journal = NoJournal /\ Digested
        BY <3>1, DigestStays DEF Digested
      <3> QED
        BY <2>1, <3>1 DEF RollBackFits
    <2>3. helper.pc \in {"locking", "abandoning", "journaling", "unwinding", "preparing",
                         "rollingBack", "cleaning", "ended"}
      <3>1. CASE r.journal = NoJournal
        <4>1. ~Digested
          BY <3>1, DigestStays DEF Digested
        <4> QED
          BY <1>1, <4>1 DEF DigestFits, ServiceInv, TypeOK, HelperPcs,
                 Prepared, Undone, Swapped
      <3>2. CASE r.journal # NoJournal
        <4>1. ~dir.journal
          BY <2>1, <3>2 DEF RollBackFits, WithoutJournal
        <4>2. helper.pc \notin Prepared \cup {"executing"} \cup Swapped
          BY <2>2, <4>1 DEF ServiceInv, HelperFits
        <4> QED
          BY <1>1, <4>2 DEF ServiceInv, TypeOK, HelperPcs, Prepared, Swapped
      <3> QED
        BY <3>1, <3>2
    <2> QED
      BY <1>1, <1>2, <1>3, <1>5, <2>1, <2>2, <2>3
      DEF SerialWalks, WithoutJournal
  <1> QED
    BY <1>4, <1>5

LEMMA BeginRecoverySerial ==
    ASSUME SerialInv, NEW c \in Controllers, BeginRecovery(c)
    PROVE  SerialWalks(c)
  <1> USE DEF SerialInv
  <1>0. record \in Record /\ record # NoRecord /\ UNCHANGED record
    BY DEF BeginRecovery, ServiceInv, TypeOK
  <1> DEFINE m == InState(record, "manualActionRequired")
  <1>1. m \in Record /\ m.journal = record.journal
    BY <1>0, InStateRecord DEF States, TerminalStates
  <1>2. PICK r \in Record, pc \in {"terminal", "tidyOld", "inspect", "settle"} :
           /\ control' = [control EXCEPT ![c] = [NoControl EXCEPT !.rec = r, !.pc = pc]]
           /\ r.journal = record.journal
           /\ pc = "tidyOld" => record.state = "rolledBack"
           /\ pc = "inspect" => record.state # "rolledBack"
    <2>1. CASE record.state \in ActivatedStates
      BY <1>0, <1>1, <2>1 DEF BeginRecovery
    <2>2. CASE record.state = "rolledBack"
      BY <1>0, <1>1, <2>2 DEF BeginRecovery, ActivatedStates
    <2>3. CASE record.state \notin ActivatedStates \cup {"rolledBack"} /\ dir.control
      BY <1>0, <1>1, <2>3 DEF BeginRecovery
    <2>4. CASE record.state \notin ActivatedStates \cup {"rolledBack"} /\ ~dir.control
      BY <1>0, <1>1, <2>4 DEF BeginRecovery
    <2> QED
      BY <2>1, <2>2, <2>3, <2>4
  <1> DEFINE n == [NoControl EXCEPT !.rec = r, !.pc = pc]
  <1>3. n.pc = pc /\ n.rec = r /\ n.answer = "none"
    BY DEF NoControl
  <1>4. control' = [control EXCEPT ![c] = n]
    BY <1>2
  <1> HIDE DEF n
  <1>5. control'[c] = n
    BY <1>3, <1>4 DEF ServiceInv, TypeOK
  <1>6. helper.pc \notin {"none", "authorizing", "registering"}
    BY <1>0 DEF DigestFits
  <1> QED
    BY <1>0, <1>2, <1>3, <1>5, <1>6 DEF SerialWalks, Digested, WithoutJournal

LEMMA QuerySerial ==
    ASSUME SerialInv, NEW c \in Controllers, QueryTransaction(c)
    PROVE  SerialWalks(c)
  <1> DEFINE a == QueryAnswer(record.state)
  <1>1. a \in Answers /\ (a = "oldTarget" => record.state = "rolledBack")
    BY DEF QueryAnswer, Answers
  <1>2. /\ Answered(c, a) /\ UNCHANGED record
        /\ helper.pc \notin {"none", "authorizing", "registering"}
    BY DEF QueryTransaction, SerialInv, DigestFits
  <1> HIDE DEF a
  <1> QED
    BY <1>1, <1>2, EndsSerial

LEMMA PersistsSerial ==
    ASSUME SerialInv, NEW c \in Controllers, control[c].pc # "idle",
           NEW s \in States \ {"rolledBack"}, NEW pc \in {"tidyNew", "consume"},
           ControlPersists(c, InState(control[c].rec, s), pc)
    PROVE  SerialWalks(c)
  <1> DEFINE r == InState(control[c].rec, s)
  <1>1. /\ helper.pc \notin {"none", "authorizing", "registering"}
        /\ r \in Record /\ r.journal = control[c].rec.journal /\ r.state = s
    BY InStateRecord DEF SerialInv, DigestFits, ServiceInv, CopiesAreRecords
  <1>2. ControlPersists(c, r, pc) /\ pc \in ControlPcs
    BY DEF ControlPcs
  <1> HIDE DEF r
  <1>3. CASE Threw(c) /\ UNCHANGED record
    BY <1>1, <1>3, ThrewSerial
  <1>4. CASE Accepts(r) /\ record' = r
             /\ control' = [control EXCEPT ![c].rec = r, ![c].pc = pc]
    <2>1. control'[c].pc = pc /\ control'[c].rec = r /\ control'[c].answer = control[c].answer
      BY <1>4 DEF SerialInv, ServiceInv, TypeOK
    <2> QED
      BY <1>1, <1>4, <2>1, WritesSerial
  <1> QED
    BY <1>2, <1>3, <1>4 DEF ControlPersists

LEMMA LaunchSerial ==
    ASSUME SerialInv, NEW c \in Controllers, ConsumeLaunch(c) \/ RegisterRecovered(c)
    PROVE  SerialWalks(c)
  <1>1. control[c].pc # "idle" /\ {"launchFailed", "launchPending"} \subseteq States \ {"rolledBack"}
    BY DEF ConsumeLaunch, RegisterRecovered, States, ActiveStates,
           TerminalStates
  <1>2. CASE \/ ControlPersists(c, InState(control[c].rec, "launchFailed"), "tidyNew")
             \/ ControlPersists(c, InState(control[c].rec, "launchPending"), "consume")
    BY <1>1, <1>2, PersistsSerial
  <1>3. CASE ControlGoto(c, "tidyNew") /\ UNCHANGED record
    <2>1. ControlTo(c, "tidyNew")
      BY <1>3, ControlGotoEffect DEF SerialInv, ServiceInv, ControlPcs
    <2> QED
      BY <1>1, <1>3, <2>1, GoesOnSerial DEF ControlTo, ControlPcs
  <1>4. CASE Threw(c) /\ UNCHANGED record
    BY <1>1, <1>4, ThrewSerial DEF SerialInv, DigestFits
  <1> QED
    BY <1>2, <1>3, <1>4 DEF ConsumeLaunch, RegisterRecovered

LEMMA TidySerial ==
    ASSUME SerialInv, NEW c \in Controllers, TidyNewTarget(c) \/ TidyOldTarget(c)
    PROVE  SerialWalks(c)
  <1>1. /\ UNCHANGED record /\ helper.pc \notin {"none", "authorizing", "registering"}
        /\ \/ Threw(c) \/ Answered(c, "newTarget")
           \/ Answered(c, "oldTarget") /\ control[c].pc = "tidyOld"
    BY DEF TidyNewTarget, TidyOldTarget, SerialInv, DigestFits
  <1>2. CASE Threw(c)
    BY <1>1, <1>2, ThrewSerial
  <1>3. CASE Answered(c, "newTarget")
    BY <1>1, <1>3, EndsSerial DEF Answers
  <1>4. CASE Answered(c, "oldTarget") /\ control[c].pc = "tidyOld"
    BY <1>1, <1>4, EndsSerial DEF Answers, SerialInv, OldTargetStays
  <1> QED
    BY <1>1, <1>2, <1>3, <1>4

LEMMA InspectSerial ==
    ASSUME SerialInv, NEW c \in Controllers, InspectJournal(c)
    PROVE  SerialWalks(c)
  <1> USE DEF SerialInv
  <1>0. /\ control[c].pc = "inspect" /\ control[c].rec \in Record
        /\ control[c].rec.state # "rolledBack"
        /\ helper.pc \notin {"none", "authorizing", "registering"}
    BY DEF InspectJournal, ServiceInv, CopiesAreRecords, NewTargetSeen,
           DigestFits
  <1> DEFINE r == [control[c].rec EXCEPT !.journal = Digest]
  <1>1. r \in Record /\ r.state = control[c].rec.state /\ r.journal = Digest
        /\ Digest # NoJournal
    BY <1>0, ServiceAssumption, JournalAssumption DEF Record
  <1>2. CASE ~Accepts(r) /\ Threw(c) /\ UNCHANGED record
    BY <1>0, <1>2, ThrewSerial
  <1>3. CASE /\ dir.journal /\ Accepts(r) /\ record' = r
             /\ control' = [control EXCEPT ![c].rec = r, ![c].journal = TRUE,
                                           ![c].pc = "recover"]
    <2> HIDE DEF r
    <2>1. /\ control'[c].pc = "recover" /\ control'[c].rec = r /\ control'[c].journal = TRUE
          /\ control'[c].answer = control[c].answer
      BY <1>3 DEF ServiceInv, TypeOK
    <2>2. Digested' /\ record.state # "rolledBack" /\ record'.state # "rolledBack"
      BY <1>0, <1>1, <1>3, RolledBackStays, NoRecordState
      DEF Digested, ServiceInv
    <2> QED
      BY <1>0, <1>3, <2>1, <2>2 DEF SerialWalks, WithoutJournal, OldTargetStays
  <1>4. CASE /\ ~(dir.journal /\ control[c].rec.journal = NoJournal)
             /\ control' = [control EXCEPT ![c].journal = dir.journal, ![c].pc = "recover"]
             /\ UNCHANGED record
    <2>1. /\ control'[c].pc = "recover" /\ control'[c].rec = control[c].rec
          /\ control'[c].journal = dir.journal /\ control'[c].answer = control[c].answer
      BY <1>4 DEF ServiceInv, TypeOK
    <2> QED
      BY <1>0, <1>4, <2>1 DEF SerialWalks, WithoutJournal, OldTargetStays,
             DigestFits, Digested
  <1> QED
    BY <1>2, <1>3, <1>4 DEF InspectJournal

LEMMA GotoSerial ==
    ASSUME SerialInv, NEW c \in Controllers, control[c].pc # "idle",
           NEW pc \in {"swap", "topology", "recovered", "remove", "rollBack"},
           ControlGoto(c, pc), UNCHANGED record,
           pc = "swap" => control[c].pc = "recover",
           pc = "topology" => ~dir.journal,
           pc \in {"remove", "rollBack"} =>
              /\ WithoutJournal(c)
              /\ dir.target = "old" \/ (control[c].rec.journal = NoJournal /\ Digested)
    PROVE  SerialWalks(c)
  <1>1. ControlTo(c, pc) /\ pc \in ControlPcs
    BY ControlGotoEffect DEF SerialInv, ServiceInv, ControlPcs
  <1> QED
    BY <1>1, GoesOnSerial DEF ControlTo

LEMMA SettleSerial ==
    ASSUME SerialInv, NEW c \in Controllers, control[c].pc # "idle",
           NEW s \in {"recoveryRequired", "manualActionRequired"}, Settle(c, s), UNCHANGED record
    PROVE  SerialWalks(c)
  <1>1. control[c].rec \in Record /\ s \in States /\ "settle" \in ControlPcs
    BY DEF SerialInv, ServiceInv, CopiesAreRecords, States, ActiveStates,
           TerminalStates, ControlPcs
  <1>2. /\ control'[c].pc = "settle" /\ control'[c].rec = InState(control[c].rec, s)
        /\ control'[c].answer = control[c].answer
    BY <1>1, SettleEffect DEF SerialInv, ServiceInv
  <1>3. control'[c].rec.journal = control[c].rec.journal
    BY <1>1, <1>2, InStateRecord
  <1> QED
    BY <1>1, <1>2, <1>3, GoesOnSerial

LEMMA RecoverSerial ==
    ASSUME SerialInv, NEW c \in Controllers, Recover(c)
    PROVE  SerialWalks(c)
  <1>0. control[c].pc = "recover" /\ UNCHANGED record
    BY DEF Recover
  <1>1. CASE Settle(c, "recoveryRequired") \/ Settle(c, "manualActionRequired")
    BY <1>0, <1>1, SettleSerial
  <1>2. CASE ControlGoto(c, "swap") \/ (ControlGoto(c, "topology") /\ ~dir.journal)
    BY <1>0, <1>2, GotoSerial
  <1> QED
    BY <1>1, <1>2 DEF Recover

LEMMA TopologySerial ==
    ASSUME SerialInv, NEW c \in Controllers, ExamineTopology(c)
    PROVE  SerialWalks(c)
  <1>0. control[c].pc = "topology" /\ UNCHANGED record /\ WithoutJournal(c)
    BY DEF ExamineTopology, WithoutJournal
  <1>1. CASE Settle(c, "manualActionRequired")
    BY <1>0, <1>1, SettleSerial
  <1>2. CASE ControlGoto(c, "recovered")
    BY <1>0, <1>2, GotoSerial
  <1>3. CASE dir.target = "old" /\ (ControlGoto(c, "remove") \/ ControlGoto(c, "rollBack"))
    BY <1>0, <1>3, GotoSerial
  <1> QED
    BY <1>1, <1>2, <1>3 DEF ExamineTopology, TargetIsOld

LEMMA RemoveStageSerial ==
    ASSUME SerialInv, NEW c \in Controllers, RemoveStage(c)
    PROVE  SerialWalks(c)
  <1>0. control[c].pc = "remove" /\ UNCHANGED record /\ WithoutJournal(c)
    BY DEF RemoveStage, WithoutJournal
  <1>1. CASE Threw(c)
    BY <1>0, <1>1, ThrewSerial DEF SerialInv, DigestFits
  <1>2. CASE ControlGoto(c, "rollBack")
    BY <1>0, <1>2, GotoSerial DEF SerialInv, RollBackFits
  <1> QED
    BY <1>1, <1>2 DEF RemoveStage

LEMMA EndingSerial ==
    ASSUME SerialInv, NEW c \in Controllers,
           RegisterConsumed(c) \/ ControlRollsBack(c) \/ SettleRecord(c)
    PROVE  SerialWalks(c)
  <1> USE DEF SerialInv
  <1>1. /\ control[c].pc # "idle" /\ control[c].rec \in Record
        /\ {"launchFailed", "rolledBack"} \subseteq States
        /\ helper.pc \notin {"none", "authorizing", "registering"}
    BY DEF RegisterConsumed, ControlRollsBack, SettleRecord, ServiceInv,
           CopiesAreRecords, DigestFits, States, TerminalStates
  <1>2. ASSUME NEW r \in Record, NEW a \in Answers, r.journal = control[c].rec.journal,
               \/ Accepts(r) /\ record' = r /\ Answered(c, a)
               \/ Threw(c) /\ UNCHANGED record,
               r.state = "rolledBack" <=> control[c].pc = "rollBack",
               a = "oldTarget" => r.state = "rolledBack"
        PROVE  SerialWalks(c)
    <2>1. CASE Threw(c) /\ UNCHANGED record
      BY <1>1, <2>1, ThrewSerial
    <2>2. CASE Accepts(r) /\ record' = r /\ Answered(c, a)
      <3>1. control'[c].pc = "idle" /\ control'[c].answer = a
        BY <2>2, AnsweredEffect DEF ServiceInv, ControlAnswers
      <3> QED
        BY <1>1, <1>2, <2>2, <3>1, WritesSerial
    <2> QED
      BY <1>2, <2>1, <2>2
  <1>3. CASE RegisterConsumed(c)
    <2> DEFINE r == InState(control[c].rec, "launchFailed")
    <2>1. r \in Record /\ r.journal = control[c].rec.journal /\ r.state = "launchFailed"
      BY <1>1, InStateRecord
    <2>2. /\ control[c].pc = "consume"
          /\ \/ Accepts(r) /\ record' = r /\ Answered(c, "newTarget")
             \/ Threw(c) /\ UNCHANGED record
      BY <1>3 DEF RegisterConsumed
    <2> HIDE DEF r
    <2> QED
      BY <1>2, <2>1, <2>2 DEF Answers
  <1>4. CASE ControlRollsBack(c)
    <2> DEFINE r == InState(control[c].rec, "rolledBack")
    <2>1. r \in Record /\ r.journal = control[c].rec.journal /\ r.state = "rolledBack"
      BY <1>1, InStateRecord
    <2>2. /\ control[c].pc = "rollBack"
          /\ \/ Accepts(r) /\ record' = r /\ Answered(c, "oldTarget")
             \/ Threw(c) /\ UNCHANGED record
      BY <1>4 DEF ControlRollsBack
    <2> HIDE DEF r
    <2> QED
      BY <1>2, <2>1, <2>2 DEF Answers
  <1>5. CASE SettleRecord(c)
    <2>1. /\ control[c].pc = "settle"
          /\ control[c].rec.state \in {"recoveryRequired", "manualActionRequired"}
          /\ \/ /\ Accepts(control[c].rec) /\ record' = control[c].rec
                /\ Answered(c, control[c].rec.state)
             \/ Threw(c) /\ UNCHANGED record
      BY <1>5 DEF SettleRecord, ServiceInv, CopiesAreRecords
    <2> QED
      BY <1>1, <1>2, <2>1 DEF Answers
  <1> QED
    BY <1>3, <1>4, <1>5

LEMMA SerialWalksEffects ==
    ASSUME SerialInv, NEW c \in Controllers, ControlNext(c) \/ ControlDies(c)
    PROVE  SerialWalks(c) \/ RecoverSwap(c)
  <1>1. CASE ControlDies(c)
    BY <1>1, ThrewSerial DEF ControlDies, SerialInv, DigestFits
  <1>2. CASE ControlNext(c)
    BY <1>2, BeginRecoverySerial, QuerySerial, LaunchSerial, TidySerial,
       InspectSerial, RecoverSerial, TopologySerial, RemoveStageSerial,
       EndingSerial
    DEF ControlNext
  <1> QED
    BY <1>1, <1>2

(* A step of the swap that finds the trees changed ends the swap.          *)
LEMMA RecoverSwapSerial ==
    ASSUME SerialInv, NEW c \in Controllers, RecoverSwap(c)
    PROVE  (ControlWalks(c) /\ SerialWalks(c)) \/ SwapWalks(c)
  <1>1. CASE Settle(c, "manualActionRequired") /\ UNCHANGED dir
    <2>1. ControlWalks(c)
      BY <1>1, SettleWalks, ControlDirStill
      DEF SerialInv, ServiceInv, RecoverSwap
    <2>2. SerialWalks(c)
      BY <1>1, SettleSerial DEF RecoverSwap
    <2> QED
      BY <2>1, <2>2
  <1>2. CASE SwapChecked(dir)
    BY <1>2, RecoverSwapChecked DEF SerialInv
  <1> QED
    BY <1>1, <1>2 DEF RecoverSwap

-----------------------------------------------------------------------------
(* The theorems for recoveries that do not overlap.                        *)

LEMMA InitSerialInv == Init => SerialInv
  <1> SUFFICES ASSUME Init PROVE SerialInv
    OBVIOUS
  <1> USE DEF Init, NoControl
  <1>1. ServiceInv
    BY InitServiceInv
  <1>2. ~Digested
    BY DEF Digested
  <1>3. DigestFits
    BY <1>2 DEF DigestFits, Prepared, Undone, Swapped
  <1>4. RollBackFits
    BY DEF RollBackFits, WithoutJournal
  <1>5. OldTargetStays
    BY DEF OldTargetStays, NoRecord
  <1> QED
    BY <1>1, <1>3, <1>4, <1>5 DEF SerialInv

LEMMA BeginRecoveryStarts ==
    ASSUME TypeOK, NEW c \in Controllers, BeginRecovery(c)
    PROVE  control'[c].pc # "idle"
  BY DEF TypeOK, BeginRecovery, NoControl

LEMMA SerialStep ==
    SerialInv /\ OneRecovers /\ OneRecovers' /\ [Next]_vars => SerialInv'
  <1> SUFFICES ASSUME SerialInv, OneRecovers, OneRecovers', [Next]_vars PROVE SerialInv'
    OBVIOUS
  <1>0. ServiceInv'
    BY ServiceStep DEF SerialInv
  <1>1. CASE CallerNext
    BY <1>0, <1>1, CallerEffects, CallerKeepsSerial DEF SerialInv, ServiceInv
  <1>2. CASE HelperNext \/ HelperDies
    BY <1>0, <1>2, HelperKeepsSerial DEF SerialInv
  <1>3. CASE Expire \/ Tamper \/ UNCHANGED vars
    <2>1. UNCHANGED <<helper, record, dir, control>>
      BY <1>3 DEF Expire, Tamper, SameShared, vars
    <2> QED
      BY <1>0, <2>1 DEF SerialInv, DigestFits, RollBackFits, OldTargetStays,
             Digested, WithoutJournal
  <1>4. ASSUME NEW c \in Controllers, ControlNext(c) \/ ControlDies(c) PROVE SerialInv'
    <2>1. CASE QueryTransaction(c)
      BY <1>0, <2>1, QueryKeepsSerial DEF SerialInv
    <2>2. CASE RecoverSwap(c)
      <3>1. \A d \in Controllers : d # c => control[d].pc = "idle"
        BY <2>2 DEF RecoverSwap, OneRecovers
      <3> QED
        BY <1>0, <2>2, <3>1, RecoverSwapSerial, ControlWalksKeepsSerial,
           SwapWalksKeepsSerial
        DEF SerialInv, RecoverSwap
    <2>3. CASE ~QueryTransaction(c) /\ ~RecoverSwap(c)
      <3>1. ControlWalks(c) /\ SerialWalks(c)
        BY <1>4, <2>3, ControlWalksEffects, SerialWalksEffects DEF SerialInv
      <3>2. control[c].pc # "idle" \/ BeginRecovery(c)
        BY <1>4, <2>3 DEF ControlNext, ControlDies, ConsumeLaunch, TidyNewTarget,
               TidyOldTarget, InspectJournal, Recover, RegisterRecovered,
               RegisterConsumed, ExamineTopology, RemoveStage, ControlRollsBack,
               SettleRecord
      <3>3. BeginRecovery(c) => control'[c].pc # "idle"
        BY BeginRecoveryStarts DEF SerialInv, ServiceInv
      <3>4. \A d \in Controllers : d # c => control[d].pc = "idle"
        BY <3>1, <3>2, <3>3 DEF OneRecovers, ControlWalks, ControlMoves
      <3> QED
        BY <1>0, <3>1, <3>4, ControlWalksKeepsSerial DEF SerialInv
    <2> QED
      BY <2>1, <2>2, <2>3
  <1> QED
    BY <1>1, <1>2, <1>3, <1>4 DEF Next

(* The stronger invariant, for any number of control services whose        *)
(* recoveries do not overlap.                                              *)
THEOREM SerialInvariance == Spec /\ []OneRecovers => []SerialInv
  <1>1. SerialInv /\ OneRecovers /\ OneRecovers' /\ [Next]_vars => SerialInv'
    BY SerialStep
  <1> QED
    BY <1>1, InitSerialInv, PTL DEF Spec

(* A record that says the swap is over is right about the target, whoever  *)
(* wrote it and whatever died in between, unless two recoveries overlap.   *)
THEOREM RecordsTellTarget == Spec /\ []OneRecovers => []RecordTellsTarget
  <1>1. SerialInv => RecordTellsTarget
    BY DEF SerialInv, ServiceInv, NewTargetSeen, OldTargetStays,
           RecordTellsTarget
  <1> QED
    BY <1>1, SerialInvariance, PTL

(* What queryTransaction and recoverPendingInstall told any host stays     *)
(* true of the target, unless two recoveries overlap.                      *)
THEOREM AnswersStayTrue == Spec /\ []OneRecovers => []AnswersHold
  <1>1. SerialInv => AnswersHold
    BY DEF SerialInv, ServiceInv, NewTargetSeen, OldTargetStays, AnswersHold
  <1> QED
    BY <1>1, SerialInvariance, PTL

=============================================================================
