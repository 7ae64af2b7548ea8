--------------------- MODULE LinuxArchiveRestageProofs ---------------------
(***************************************************************************)
(* Proofs about the Linux restage, for any set of attempts and any number  *)
(* of deaths and faults.  That the remains are named and the restaged tree *)
(* is whole needs a hypothesis on the behaviour, ReconcilerAlone: while an *)
(* attempt cleans up after a dead one no third one is on its way.          *)
(***************************************************************************)
EXTENDS LinuxArchiveRestage, TLAPS

(* "none" names no attempt; deaths and faults are counted.                 *)
Counted == "none" \notin Attempts /\ MaxDeaths \in Nat /\ MaxFaults \in Nat

(* At most two processes restage the transaction.                          *)
TwoAttempts == \A a, b, c \in Attempts : a = b \/ b = c \/ a = c

-----------------------------------------------------------------------------
(* The inductive invariant.                                                *)

(* The attempt has not written a record yet.                               *)
Early == {"idle", "clearing", "reading"}

Reconciling == {"removingPayload", "tearingPayload", "removingControl",
                "tearingControl", "droppingRecord"}

Cleaning == {"cleaningPayload", "cleaningControl", "cleaningRecord"}

(* The attempt is over and does nothing any more.                          *)
Over == {"failed", "manual", "dead"}

(* The checks passed so far: all of them, those up to the extraction, the  *)
(* digest.                                                                 *)
Sealed == {"recordingSeal", "retaining", "restaged", "journaled", "armed"}

Unpacked == Sealed \cup {"recordingFirst", "extractingRest", "unmarkingPayload",
                         "unmarkingControl", "sealing"}

Copied == Unpacked \cup {"recordingCopy", "extracting"}

(* The attempt has a payload, a control directory.                         *)
HasControl == Copied \cup {"openingControl", "markingControl",
                           "recordingControl", "copying"}

HasPayload == HasControl \cup {"openingPayload", "markingPayload",
                               "recordingPayload", "makingControl"}

(* The attempt has published a record and has nothing to clean up for.     *)
Building == (HasPayload \ {"armed"}) \cup {"makingPayload"}

(* A live attempt that knows of a record it published.                     *)
Holder(p) == OwnerProcessIsLive(p) /\ "record" \in proc[p].made

(* Whoever a record or its temporary file names is past reading.           *)
WritersArePast ==
    \A r \in {next, record} :
        r # NoRecord => proc[r.by].pc \notin Early \cup Reconciling

(* Who cleans up after another keeps the record until both directories are *)
(* gone.                                                                   *)
RecordKept ==
    \A p \in Attempts : proc[p].pc \in Reconciling =>
        /\ record # NoRecord
        /\ proc[p].pc \notin {"removingPayload", "tearingPayload"} =>
              payload = Absent
        /\ proc[p].pc = "droppingRecord" => control = Absent

(* One live attempt at most has published the record, and it is there.     *)
OneHolder ==
    /\ \A p \in Attempts : Holder(p) => record # NoRecord
    /\ \A p, q \in Attempts : Holder(p) /\ Holder(q) => p = q

(* The record is published first and what was made is known.               *)
MadeFits ==
    \A p \in Attempts :
        /\ proc[p].pc \in Early \cup Reconciling \cup {"recording", "armed"} =>
              proc[p].made = {}
        /\ proc[p].pc \in Building => "record" \in proc[p].made
        /\ proc[p].made # {} => "record" \in proc[p].made

(* The directories an attempt works in are its own.                        *)
TreesFit ==
    \A p \in Attempts :
        /\ proc[p].pc \in HasPayload => payload.by = p
        /\ proc[p].pc = "openingPayload" => payload.stage = "made"
        /\ proc[p].pc \in Sealed \cup {"unmarkingControl", "sealing"} =>
              payload.stage = "bare"
        /\ proc[p].pc \in HasControl => control.by = p
        /\ proc[p].pc = "openingControl" => control.stage = "made"
        /\ proc[p].pc \in Sealed => control.stage = "sealed"

(* Without a journal and a stray directory, the holder of the record knows *)
(* of every directory there is ...                                         *)
HolderKnows ==
    journal = "none" /\ ~stray =>
        \A p \in Attempts : Holder(p) =>
            /\ payload # Absent =>
                  \/ "payload" \in proc[p].made
                  \/ proc[p].pc \in {"openingPayload", "markingPayload"}
            /\ control # Absent =>
                  \/ "control" \in proc[p].made
                  \/ proc[p].pc \in {"openingControl", "markingControl"}

(* ... and without a record there is none.                                 *)
NamedByRecord ==
    journal = "none" /\ ~stray /\ record = NoRecord =>
        payload = Absent /\ control = Absent

(* Beside an attempt whose trees a journal owns another has made nothing.  *)
ArmedAlone ==
    \A p, q \in Attempts : proc[p].pc = "armed" /\ q # p =>
        /\ proc[q].pc \notin HasPayload
        /\ OwnerProcessIsLive(q) => proc[q].made \subseteq {"record"}

ChecksPassed ==
    \A p \in Attempts :
        /\ proc[p].pc \notin Over \cup Cleaning \cup {"idle"} =>
              defect \notin {"request", "sourceOwner"}
        /\ proc[p].pc \in Copied => defect # "digest"
        /\ proc[p].pc \in Unpacked => defect \notin {"path", "entry"}
        /\ proc[p].pc \in Sealed =>
              defect \notin {"executable", "inventory", "seal"}
        /\ proc[p].pc \in {"journaled", "armed"} => journal = p

RestageInv ==
    /\ TypeOK /\ WritersArePast /\ RecordKept /\ OneHolder /\ MadeFits
    /\ TreesFit /\ HolderKnows /\ NamedByRecord /\ ArmedAlone /\ ChecksPassed

(* What the code does not ensure by itself: while an attempt cleans up     *)
(* after another, no third one is on its way.                              *)
ReconcilerAlone ==
    \A p \in Attempts : proc[p].pc \in Reconciling =>
        \A q \in Attempts \ {p} : proc[q].pc \in Over \cup {"idle"}

-----------------------------------------------------------------------------
Process == [pc : Pcs, old : Records, mine : Records, temp : Temps,
            made : SUBSET {"payload", "control", "record"}]

Processes == [Attempts -> [pc : Pcs, old : Records, mine : Records, temp : Temps,
                           made : SUBSET {"payload", "control", "record"}]]

(* Attempt p goes to one of pcs and knows of made; no other attempt moves. *)
Steps(p, pcs, made) ==
    /\ proc' \in Processes
    /\ proc'[p].pc \in pcs /\ proc'[p].made = made
    /\ \A q \in Attempts \ {p} : proc'[q] = proc[q]

(* What every step of p has in common: it moves p alone, p is not over,    *)
(* and p changes a directory of another only to clean up after it.         *)
MayChange(p, dir) == dir.by \in {p, "none"} \/ proc[p].pc \in Reconciling

Turn(p) ==
    /\ proc[p].pc \notin Over /\ proc'[p] # proc[p] /\ proc'[p].pc # "idle"
    /\ \A q \in Attempts \ {p} : proc'[q] = proc[q]
    /\ proc'[p].pc \in Reconciling /\ proc[p].pc \notin Reconciling =>
          /\ proc[p].pc = "reading"
          /\ record # NoRecord /\ ~OwnerProcessIsLive(record.by)
    /\ payload' # payload => MayChange(p, payload)
    /\ control' # control => MayChange(p, control)

LEMMA OneMoves ==
    ASSUME TypeOK, NEW p \in Attempts, NEW r \in Process,
           proc' = [proc EXCEPT ![p] = r]
    PROVE  Steps(p, {r.pc}, r.made)
  BY DEF TypeOK, Steps, Processes, Process

LEMMA GotoSteps ==
    ASSUME TypeOK, NEW p \in Attempts, NEW pc \in Pcs, Goto(p, pc)
    PROVE  Steps(p, {pc}, proc[p].made)
  BY DEF TypeOK, Goto, Steps, Processes

LEMMA LeaveSteps ==
    ASSUME TypeOK, NEW p \in Attempts, NEW pc \in Pcs, Leave(p, pc)
    PROVE  Steps(p, {pc}, {})
<1> DEFINE r == [Fresh EXCEPT !.pc = pc]
<1>1. r \in Process /\ r.pc = pc /\ r.made = {}
  BY DEF Fresh, Process, Records, Temps
<1>2. proc' = [proc EXCEPT ![p] = r]
  BY DEF Leave
<1> HIDE DEF r
<1> QED BY <1>1, <1>2, OneMoves

LEMMA ThrowSteps ==
    ASSUME TypeOK, NEW p \in Attempts, Throw(p)
    PROVE  Steps(p, {"cleaningPayload"}, proc[p].made)
<1> DEFINE r == [proc[p] EXCEPT !.pc = "cleaningPayload", !.temp = "todo"]
<1>1. proc[p] \in Process
  BY DEF TypeOK, Process
<1>2. "cleaningPayload" \in Pcs /\ "todo" \in Temps
  BY DEF Pcs, Temps
<1>3. r \in Process /\ r.pc = "cleaningPayload" /\ r.made = proc[p].made
  BY <1>1, <1>2 DEF Process
<1>4. proc' = [proc EXCEPT ![p] = r]
  BY DEF TypeOK, Throw
<1> HIDE DEF r
<1> QED BY <1>3, <1>4, OneMoves

(* An attempt that gives up what it made starts to clean up.               *)
LEMMA DropSteps ==
    ASSUME TypeOK, NEW p \in Attempts,
           proc' = [proc EXCEPT ![p].pc = "cleaningPayload", ![p].made = {}]
    PROVE  Steps(p, {"cleaningPayload"}, {})
<1> DEFINE r == [proc[p] EXCEPT !.pc = "cleaningPayload", !.made = {}]
<1>1. proc[p] \in Process
  BY DEF TypeOK, Process
<1>2. "cleaningPayload" \in Pcs
  BY DEF Pcs
<1>3. r \in Process /\ r.pc = "cleaningPayload" /\ r.made = {}
  BY <1>1, <1>2 DEF Process
<1>4. proc' = [proc EXCEPT ![p] = r]
  BY DEF TypeOK
<1> HIDE DEF r
<1> QED BY <1>3, <1>4, OneMoves

LEMMA RecordNamed ==
    ASSUME TypeOK
    PROVE  /\ next # NoRecord => next.by \in Attempts
           /\ record # NoRecord => record.by \in Attempts
  BY DEF TypeOK, Records

(* What has a name was made by an attempt.                                 *)
LEMMA DirFields ==
    ASSUME Counted, NEW dir \in Dirs
    PROVE  /\ dir # Absent => dir \in [by : Attempts, stage : Stages]
           /\ dir = Absent <=> dir.by = "none"
           /\ dir.by \in Attempts <=> dir # Absent
           /\ dir.stage \in Stages <=> dir # Absent
  BY DEF Counted, Dirs, Absent, Stages

LEMMA DirAtStage ==
    ASSUME Counted, NEW p \in Attempts, NEW stage \in Stages
    PROVE  /\ [by |-> p, stage |-> stage] \in Dirs
           /\ [by |-> p, stage |-> stage] # Absent
           /\ \A dir \in Dirs : dir.by = p =>
                 [dir EXCEPT !.stage = stage] = [by |-> p, stage |-> stage]
  BY DEF Counted, Dirs, Absent, Stages

LEMMA TornDir ==
    ASSUME Counted, NEW dir \in Dirs, dir # Absent
    PROVE  Torn(dir) \in Dirs /\ Torn(dir).by = dir.by
  BY DirFields DEF Dirs, Torn, Stages

LEMMA StagedIn ==
    ASSUME Counted, TypeOK, NEW p \in Attempts, NEW stage \in Stages
    PROVE  /\ InPayload(p, stage) => payload' = [by |-> p, stage |-> stage]
           /\ InControl(p, stage) => control' = [by |-> p, stage |-> stage]
  BY DirAtStage DEF InPayload, InControl, TypeOK

LEMMA StagedDirs ==
    ASSUME Counted, TypeOK, NEW p \in Attempts, NEW stage \in Stages
    PROVE  /\ InPayload(p, stage) => payload' \in Dirs
           /\ InControl(p, stage) => control' \in Dirs
  BY StagedIn, DirAtStage

LEMMA RecordOfType ==
    ASSUME TypeOK, NEW p \in Attempts
    PROVE  RecordOf(p) \in Records
<1>1. \A name, dir : dir \in Dirs => Known(p, name, dir) \in Dirs
  BY DEF Known, Unlinked, Dirs, Stages
<1> QED BY <1>1 DEF RecordOf, Records, TypeOK

LEMMA KnowsSteps ==
    ASSUME TypeOK, NEW p \in Attempts, NEW pc \in Pcs,
           NEW made \in SUBSET {"payload", "control", "record"},
           proc' = [proc EXCEPT ![p].pc = pc, ![p].made = made]
    PROVE  Steps(p, {pc}, made)
  BY DEF TypeOK, Steps, Processes

(* CreateRecoverableDirectoryAt, one of its three steps.                   *)
LEMMA FollowValues ==
    /\ Follow("makingPayload") = "openingPayload"
    /\ Follow("openingPayload") = "markingPayload"
    /\ Follow("markingPayload") = "recordingPayload"
    /\ Follow("makingControl") = "openingControl"
    /\ Follow("openingControl") = "markingControl"
    /\ Follow("markingControl") = "recordingControl"
  BY DEF Follow

LEMMA PublishSteps ==
    ASSUME TypeOK, NEW p \in Attempts, NEW pc \in Pcs,
           proc' = [proc EXCEPT ![p].pc = pc, ![p].temp = "todo",
                      ![p].mine = next, ![p].made = @ \cup {"record"}]
    PROVE  Steps(p, {pc}, proc[p].made \cup {"record"})
<1> DEFINE made == proc[p].made \cup {"record"}
           r == [proc[p] EXCEPT !.pc = pc, !.temp = "todo", !.mine = next,
                                !.made = made]
<1>1. proc[p] \in Process
  BY DEF TypeOK, Process
<1>2. made \in SUBSET {"payload", "control", "record"}
  BY <1>1 DEF Process
<1>3. proc' = [proc EXCEPT ![p].pc = pc, ![p].temp = "todo", ![p].mine = next,
                           ![p].made = made]
  OBVIOUS
<1> HIDE DEF made
<1>4. next \in Records /\ "todo" \in Temps
  BY DEF TypeOK, Temps
<1>5. r \in Process /\ r.pc = pc /\ r.made = made
  BY <1>1, <1>2, <1>4 DEF Process
<1>6. proc' = [proc EXCEPT ![p] = r]
  BY <1>3 DEF TypeOK
<1> HIDE DEF r
<1>7. Steps(p, {pc}, made)
  BY <1>5, <1>6, OneMoves
<1> QED BY <1>7 DEF made

(* Each action preserves the invariant and is a turn of its attempt: where *)
(* the attempt was, what the action does, what it leaves alone, then the   *)
(* parts one by one.                                                       *)
LEMMA BeginStep ==
    ASSUME Counted, RestageInv, ReconcilerAlone, NEW p \in Attempts,
           Begin(p)
    PROVE  RestageInv' /\ Turn(p)
<1> USE DEF RestageInv, Counted, Steps, Holder, OwnerProcessIsLive,
      Early, Reconciling, Cleaning, Over, Sealed, Unpacked, Copied,
      HasControl, HasPayload, Building
<1>1. proc[p].pc = "idle"
  BY DEF Begin, At
<1>2. \/ /\ Steps(p, {"clearing"}, proc[p].made)
         /\ defect \notin {"request", "sourceOwner"}
      \/ Steps(p, {"failed"}, proc[p].made)
  BY <1>1, GotoSteps DEF Begin, At, Pcs, Working, Persists, RequestAccepted,
       SourceOwned
<1>3. UNCHANGED <<defect, next, record, payload, control, journal, stray,
      deaths, faults>>
  BY DEF Begin, tree
<1>4. WritersArePast'
  BY <1>1, <1>2, <1>3, RecordNamed DEF WritersArePast, TypeOK
<1>5. RecordKept'
  BY <1>1, <1>2, <1>3 DEF RecordKept
<1>6. OneHolder'
  BY <1>1, <1>2, <1>3 DEF OneHolder, MadeFits
<1>7. MadeFits'
  BY <1>1, <1>2, <1>3 DEF MadeFits
<1>8. TreesFit'
  BY <1>1, <1>2, <1>3 DEF TreesFit
<1>9. HolderKnows'
  BY <1>1, <1>2, <1>3 DEF HolderKnows, MadeFits
<1>10. NamedByRecord'
  BY <1>1, <1>2, <1>3 DEF NamedByRecord
<1>11. ArmedAlone'
  BY <1>1, <1>2, <1>3 DEF ArmedAlone, MadeFits
<1>12. ChecksPassed'
  BY <1>1, <1>2, <1>3 DEF ChecksPassed
<1>13. TypeOK'
  BY <1>1, <1>2, <1>3 DEF TypeOK, Processes
<1>14. Turn(p)
  BY <1>1, <1>2, <1>3 DEF Turn, MayChange
<1> QED BY <1>4, <1>5, <1>6, <1>7, <1>8, <1>9, <1>10, <1>11, <1>12, <1>13,
       <1>14

LEMMA ClearTemporaryStep ==
    ASSUME Counted, RestageInv, ReconcilerAlone, NEW p \in Attempts,
           ClearTemporary(p)
    PROVE  RestageInv' /\ Turn(p)
<1> USE DEF RestageInv, Counted, Steps, Holder, OwnerProcessIsLive,
      Early, Reconciling, Cleaning, Over, Sealed, Unpacked, Copied,
      HasControl, HasPayload, Building
<1>1. proc[p].pc = "clearing"
  BY DEF ClearTemporary, At
<1>2. /\ Steps(p, {"reading"}, proc[p].made)
      /\ next' = NoRecord
  BY <1>1, GotoSteps DEF ClearTemporary, At, Pcs, Working, Persists
<1>3. UNCHANGED <<defect, record, payload, control, journal, stray, deaths,
      faults>>
  BY DEF ClearTemporary, tree
<1>4. WritersArePast'
  BY <1>1, <1>2, <1>3, RecordNamed DEF WritersArePast, TypeOK
<1>5. RecordKept'
  BY <1>1, <1>2, <1>3 DEF RecordKept
<1>6. OneHolder'
  BY <1>1, <1>2, <1>3 DEF OneHolder
<1>7. MadeFits'
  BY <1>1, <1>2, <1>3 DEF MadeFits
<1>8. TreesFit'
  BY <1>1, <1>2, <1>3 DEF TreesFit
<1>9. HolderKnows'
  BY <1>1, <1>2, <1>3 DEF HolderKnows
<1>10. NamedByRecord'
  BY <1>1, <1>2, <1>3 DEF NamedByRecord
<1>11. ArmedAlone'
  BY <1>1, <1>2, <1>3 DEF ArmedAlone
<1>12. ChecksPassed'
  BY <1>1, <1>2, <1>3 DEF ChecksPassed
<1>13. TypeOK'
  BY <1>1, <1>2, <1>3 DEF TypeOK, Processes, Records
<1>14. Turn(p)
  BY <1>1, <1>2, <1>3 DEF Turn, MayChange
<1> QED BY <1>4, <1>5, <1>6, <1>7, <1>8, <1>9, <1>10, <1>11, <1>12, <1>13,
       <1>14

LEMMA ReadRecordStep ==
    ASSUME Counted, RestageInv, ReconcilerAlone, NEW p \in Attempts,
           ReadRecord(p)
    PROVE  RestageInv' /\ Turn(p)
<1> USE DEF RestageInv, Counted, Steps, Holder, OwnerProcessIsLive,
      Early, Reconciling, Cleaning, Over, Sealed, Unpacked, Copied,
      HasControl, HasPayload, Building
<1>1. proc[p].pc = "reading"
  BY DEF ReadRecord, At
<1>2. \/ Steps(p, {"recording"}, proc[p].made)
      \/ /\ record # NoRecord
         /\ ~OwnerProcessIsLive(record.by)
         /\ Steps(p, {"removingPayload"}, proc[p].made)
      \/ Steps(p, {"failed"}, proc[p].made)
  BY <1>1, GotoSteps DEF ReadRecord, At, Pcs, Working, Persists, TypeOK,
       Processes, MayReconcile
<1>3. UNCHANGED <<defect, next, record, payload, control, journal, stray,
      deaths, faults>>
  BY DEF ReadRecord, tree
<1>4. WritersArePast'
  BY <1>1, <1>2, <1>3, RecordNamed DEF WritersArePast, TypeOK
<1>5. RecordKept'
  BY <1>1, <1>2, <1>3 DEF RecordKept
<1>6. OneHolder'
  BY <1>1, <1>2, <1>3 DEF OneHolder
<1>7. MadeFits'
  BY <1>1, <1>2, <1>3 DEF MadeFits
<1>8. TreesFit'
  BY <1>1, <1>2, <1>3 DEF TreesFit
<1>9. HolderKnows'
  BY <1>1, <1>2, <1>3 DEF HolderKnows
<1>10. NamedByRecord'
  BY <1>1, <1>2, <1>3 DEF NamedByRecord
<1>11. ArmedAlone'
  BY <1>1, <1>2, <1>3 DEF ArmedAlone
<1>12. ChecksPassed'
  BY <1>1, <1>2, <1>3 DEF ChecksPassed
<1>13. TypeOK'
  BY <1>1, <1>2, <1>3 DEF TypeOK, Processes
<1>14. Turn(p)
  BY <1>1, <1>2, <1>3 DEF Turn, MayChange
<1> QED BY <1>4, <1>5, <1>6, <1>7, <1>8, <1>9, <1>10, <1>11, <1>12, <1>13,
       <1>14

(* ReconcileRecoveryRecord: nobody else is there to be disturbed, and the  *)
(* record goes last.                                                       *)
LEMMA RemoveRecordedPayloadStep ==
    ASSUME Counted, RestageInv, ReconcilerAlone, NEW p \in Attempts,
           RemoveRecordedPayload(p)
    PROVE  RestageInv' /\ Turn(p)
<1> USE DEF RestageInv, Counted, Steps, Holder, OwnerProcessIsLive,
      Early, Reconciling, Cleaning, Over, Sealed, Unpacked, Copied,
      HasControl, HasPayload, Building
<1>1. proc[p].pc = "removingPayload"
  BY DEF RemoveRecordedPayload, At
<1>2. \/ /\ Steps(p, {"removingControl"}, proc[p].made)
         /\ payload' = Absent
      \/ /\ Steps(p, {"tearingPayload"}, proc[p].made)
         /\ payload # Absent
         /\ payload' = Torn(payload)
      \/ /\ Steps(p, {"manual"}, proc[p].made)
         /\ payload' = payload
  BY <1>1, GotoSteps, LeaveSteps DEF RemoveRecordedPayload, At, Pcs, Working,
       Persists, MadeFits
<1>3. UNCHANGED <<defect, next, record, control, journal, stray, deaths,
      faults>>
  BY DEF RemoveRecordedPayload
<1>4. WritersArePast'
  BY <1>1, <1>2, <1>3, RecordNamed DEF WritersArePast, TypeOK
<1>5. RecordKept'
  BY <1>1, <1>2, <1>3 DEF RecordKept, ReconcilerAlone
<1>6. OneHolder'
  BY <1>1, <1>2, <1>3 DEF OneHolder
<1>7. MadeFits'
  BY <1>1, <1>2, <1>3 DEF MadeFits
<1>8. TreesFit'
  BY <1>1, <1>2, <1>3 DEF TreesFit, ReconcilerAlone
<1>9. HolderKnows'
  BY <1>1, <1>2, <1>3 DEF HolderKnows
<1>10. NamedByRecord'
  BY <1>1, <1>2, <1>3 DEF NamedByRecord
<1>11. ArmedAlone'
  BY <1>1, <1>2, <1>3 DEF ArmedAlone
<1>12. ChecksPassed'
  BY <1>1, <1>2, <1>3 DEF ChecksPassed
<1>13. TypeOK'
  BY <1>1, <1>2, <1>3, TornDir DEF TypeOK, Processes, Dirs
<1>14. Turn(p)
  BY <1>1, <1>2, <1>3 DEF Turn, MayChange, TypeOK
<1> QED BY <1>4, <1>5, <1>6, <1>7, <1>8, <1>9, <1>10, <1>11, <1>12, <1>13,
       <1>14

LEMMA RemoveRecordedControlStep ==
    ASSUME Counted, RestageInv, ReconcilerAlone, NEW p \in Attempts,
           RemoveRecordedControl(p)
    PROVE  RestageInv' /\ Turn(p)
<1> USE DEF RestageInv, Counted, Steps, Holder, OwnerProcessIsLive,
      Early, Reconciling, Cleaning, Over, Sealed, Unpacked, Copied,
      HasControl, HasPayload, Building
<1>1. proc[p].pc = "removingControl"
  BY DEF RemoveRecordedControl, At
<1>2. \/ /\ Steps(p, {"droppingRecord"}, proc[p].made)
         /\ control' = Absent
      \/ /\ Steps(p, {"tearingControl"}, proc[p].made)
         /\ control # Absent
         /\ control' = Torn(control)
      \/ /\ Steps(p, {"manual"}, proc[p].made)
         /\ control' = control
  BY <1>1, GotoSteps, LeaveSteps DEF RemoveRecordedControl, At, Pcs, Working,
       Persists, MadeFits
<1>3. UNCHANGED <<defect, next, record, payload, journal, stray, deaths,
      faults>>
  BY DEF RemoveRecordedControl
<1>4. WritersArePast'
  BY <1>1, <1>2, <1>3, RecordNamed DEF WritersArePast, TypeOK
<1>5. RecordKept'
  BY <1>1, <1>2, <1>3 DEF RecordKept, ReconcilerAlone
<1>6. OneHolder'
  BY <1>1, <1>2, <1>3 DEF OneHolder
<1>7. MadeFits'
  BY <1>1, <1>2, <1>3 DEF MadeFits
<1>8. TreesFit'
  BY <1>1, <1>2, <1>3 DEF TreesFit, ReconcilerAlone
<1>9. HolderKnows'
  BY <1>1, <1>2, <1>3 DEF HolderKnows
<1>10. NamedByRecord'
  BY <1>1, <1>2, <1>3 DEF NamedByRecord
<1>11. ArmedAlone'
  BY <1>1, <1>2, <1>3 DEF ArmedAlone
<1>12. ChecksPassed'
  BY <1>1, <1>2, <1>3 DEF ChecksPassed
<1>13. TypeOK'
  BY <1>1, <1>2, <1>3, TornDir DEF TypeOK, Processes, Dirs
<1>14. Turn(p)
  BY <1>1, <1>2, <1>3 DEF Turn, MayChange, TypeOK
<1> QED BY <1>4, <1>5, <1>6, <1>7, <1>8, <1>9, <1>10, <1>11, <1>12, <1>13,
       <1>14

LEMMA FinishRemovalStep ==
    ASSUME Counted, RestageInv, ReconcilerAlone, NEW p \in Attempts,
           FinishRemoval(p)
    PROVE  RestageInv' /\ Turn(p)
<1> USE DEF RestageInv, Counted, Steps, Holder, OwnerProcessIsLive,
      Early, Reconciling, Cleaning, Over, Sealed, Unpacked, Copied,
      HasControl, HasPayload, Building
<1>1. proc[p].pc \in {"tearingPayload", "tearingControl"}
  BY DEF FinishRemoval, At
<1>2. \/ /\ proc[p].pc = "tearingPayload"
         /\ Steps(p, {"removingControl"}, proc[p].made)
         /\ payload' = Absent
         /\ control' = control
      \/ /\ proc[p].pc = "tearingControl"
         /\ Steps(p, {"droppingRecord"}, proc[p].made)
         /\ control' = Absent
         /\ payload' = payload
      \/ /\ Steps(p, {"manual"}, proc[p].made)
         /\ control' = control
         /\ payload' = payload
  BY <1>1, GotoSteps, LeaveSteps DEF FinishRemoval, At, Pcs, Working,
       Persists, tree, MadeFits
<1>3. UNCHANGED <<defect, next, record, journal, stray, deaths, faults>>
  BY DEF FinishRemoval, tree
<1>4. WritersArePast'
  BY <1>1, <1>2, <1>3, RecordNamed DEF WritersArePast, TypeOK
<1>5. RecordKept'
  BY <1>1, <1>2, <1>3 DEF RecordKept, ReconcilerAlone
<1>6. OneHolder'
  BY <1>1, <1>2, <1>3 DEF OneHolder
<1>7. MadeFits'
  BY <1>1, <1>2, <1>3 DEF MadeFits
<1>8. TreesFit'
  BY <1>1, <1>2, <1>3 DEF TreesFit, ReconcilerAlone
<1>9. HolderKnows'
  BY <1>1, <1>2, <1>3 DEF HolderKnows, OneHolder, MadeFits
<1>10. NamedByRecord'
  BY <1>1, <1>2, <1>3 DEF NamedByRecord, OneHolder, MadeFits
<1>11. ArmedAlone'
  BY <1>1, <1>2, <1>3 DEF ArmedAlone
<1>12. ChecksPassed'
  BY <1>1, <1>2, <1>3 DEF ChecksPassed
<1>13. TypeOK'
  BY <1>1, <1>2, <1>3 DEF TypeOK, Processes, Dirs
<1>14. Turn(p)
  BY <1>1, <1>2, <1>3 DEF Turn, MayChange, TypeOK
<1> QED BY <1>4, <1>5, <1>6, <1>7, <1>8, <1>9, <1>10, <1>11, <1>12, <1>13,
       <1>14

LEMMA DropRecordStep ==
    ASSUME Counted, RestageInv, ReconcilerAlone, NEW p \in Attempts,
           DropRecord(p)
    PROVE  RestageInv' /\ Turn(p)
<1> USE DEF RestageInv, Counted, Steps, Holder, OwnerProcessIsLive,
      Early, Reconciling, Cleaning, Over, Sealed, Unpacked, Copied,
      HasControl, HasPayload, Building
<1>1. proc[p].pc = "droppingRecord"
  BY DEF DropRecord, At
<1>2. \/ /\ Steps(p, {"recording"}, proc[p].made)
         /\ record' = NoRecord
      \/ /\ Steps(p, {"failed"}, proc[p].made)
         /\ record' = record
  BY <1>1, LeaveSteps DEF DropRecord, At, Pcs, Working, Persists, MadeFits
<1>3. UNCHANGED <<defect, next, payload, control, journal, stray, deaths,
      faults>>
  BY DEF DropRecord, tree
<1>4. WritersArePast'
  BY <1>1, <1>2, <1>3, RecordNamed DEF WritersArePast, TypeOK
<1>5. RecordKept'
  BY <1>1, <1>2, <1>3 DEF RecordKept, ReconcilerAlone
<1>6. OneHolder'
  BY <1>1, <1>2, <1>3 DEF OneHolder, ReconcilerAlone, MadeFits
<1>7. MadeFits'
  BY <1>1, <1>2, <1>3 DEF MadeFits
<1>8. TreesFit'
  BY <1>1, <1>2, <1>3 DEF TreesFit
<1>9. HolderKnows'
  BY <1>1, <1>2, <1>3 DEF HolderKnows, OneHolder, MadeFits
<1>10. NamedByRecord'
  BY <1>1, <1>2, <1>3 DEF NamedByRecord, OneHolder, MadeFits, RecordKept
<1>11. ArmedAlone'
  BY <1>1, <1>2, <1>3 DEF ArmedAlone
<1>12. ChecksPassed'
  BY <1>1, <1>2, <1>3 DEF ChecksPassed
<1>13. TypeOK'
  BY <1>1, <1>2, <1>3 DEF TypeOK, Processes, Records
<1>14. Turn(p)
  BY <1>1, <1>2, <1>3 DEF Turn, MayChange
<1> QED BY <1>4, <1>5, <1>6, <1>7, <1>8, <1>9, <1>10, <1>11, <1>12, <1>13,
       <1>14

(* PersistRecoveryRecord.  Another may clear or publish the temporary file *)
(* in between; what counts is that the first publication needs a free name *)
(* (OneHolder).                                                            *)
LEMMA ClearForPersistStep ==
    ASSUME Counted, RestageInv, ReconcilerAlone, NEW p \in Attempts,
           ClearForPersist(p)
    PROVE  RestageInv' /\ Turn(p)
<1> USE DEF RestageInv, Counted, Steps, Holder, OwnerProcessIsLive,
      Early, Reconciling, Cleaning, Over, Sealed, Unpacked, Copied,
      HasControl, HasPayload, Building
<1>1. proc[p].pc \in {"recording", "recordingPayload", "recordingControl",
        "recordingCopy", "recordingFirst", "recordingSeal"}
  BY DEF ClearForPersist, At, Persists
<1>2. /\ Steps(p, {proc[p].pc}, proc[p].made)
      /\ next' = NoRecord
  BY <1>1 DEF ClearForPersist, At, Persists, TypeOK, Processes, Temps
<1>3. UNCHANGED <<defect, record, payload, control, journal, stray, deaths,
      faults>>
  BY DEF ClearForPersist, tree
<1>4. WritersArePast'
  BY <1>1, <1>2, <1>3, RecordNamed DEF WritersArePast, TypeOK
<1>5. RecordKept'
  BY <1>1, <1>2, <1>3 DEF RecordKept
<1>6. OneHolder'
  BY <1>1, <1>2, <1>3 DEF OneHolder
<1>7. MadeFits'
  BY <1>1, <1>2, <1>3 DEF MadeFits
<1>8. TreesFit'
  BY <1>1, <1>2, <1>3 DEF TreesFit
<1>9. HolderKnows'
  BY <1>1, <1>2, <1>3 DEF HolderKnows
<1>10. NamedByRecord'
  BY <1>1, <1>2, <1>3 DEF NamedByRecord
<1>11. ArmedAlone'
  BY <1>1, <1>2, <1>3 DEF ArmedAlone
<1>12. ChecksPassed'
  BY <1>1, <1>2, <1>3 DEF ChecksPassed
<1>13. TypeOK'
  BY <1>1, <1>2, <1>3 DEF TypeOK, Processes, Records
<1>14. Turn(p)
  BY <1>1, <1>2, <1>3 DEF Turn, MayChange, ClearForPersist, TypeOK, Processes
<1> QED BY <1>4, <1>5, <1>6, <1>7, <1>8, <1>9, <1>10, <1>11, <1>12, <1>13,
       <1>14

LEMMA LinkTemporaryStep ==
    ASSUME Counted, RestageInv, ReconcilerAlone, NEW p \in Attempts,
           LinkTemporary(p)
    PROVE  RestageInv' /\ Turn(p)
<1> USE DEF RestageInv, Counted, Steps, Holder, OwnerProcessIsLive,
      Early, Reconciling, Cleaning, Over, Sealed, Unpacked, Copied,
      HasControl, HasPayload, Building
<1>1. proc[p].pc \in {"recording", "recordingPayload", "recordingControl",
        "recordingCopy", "recordingFirst", "recordingSeal"}
  BY DEF LinkTemporary, At, Persists
<1>2. \/ /\ Steps(p, {proc[p].pc}, proc[p].made)
         /\ next' = RecordOf(p)
      \/ /\ Steps(p, {"cleaningPayload"}, proc[p].made)
         /\ next' = next
  BY <1>1, ThrowSteps DEF LinkTemporary, At, Persists, TypeOK, Processes,
       Temps
<1>3. UNCHANGED <<defect, record, payload, control, journal, stray, deaths,
      faults>>
  BY DEF LinkTemporary, tree
<1>4. WritersArePast'
  BY <1>1, <1>2, <1>3, RecordNamed DEF WritersArePast, TypeOK, RecordOf
<1>5. RecordKept'
  BY <1>1, <1>2, <1>3 DEF RecordKept
<1>6. OneHolder'
  BY <1>1, <1>2, <1>3 DEF OneHolder
<1>7. MadeFits'
  BY <1>1, <1>2, <1>3 DEF MadeFits
<1>8. TreesFit'
  BY <1>1, <1>2, <1>3 DEF TreesFit
<1>9. HolderKnows'
  BY <1>1, <1>2, <1>3 DEF HolderKnows
<1>10. NamedByRecord'
  BY <1>1, <1>2, <1>3 DEF NamedByRecord
<1>11. ArmedAlone'
  BY <1>1, <1>2, <1>3 DEF ArmedAlone
<1>12. ChecksPassed'
  BY <1>1, <1>2, <1>3 DEF ChecksPassed
<1>13. TypeOK'
  BY <1>1, <1>2, <1>3, RecordOfType DEF TypeOK, Processes
<1>14. Turn(p)
  <2>1. proc'[p] # proc[p]
    <3>1. \/ proc' = [proc EXCEPT ![p].temp = "linked"]
          \/ Steps(p, {"cleaningPayload"}, proc[p].made)
      BY ThrowSteps DEF LinkTemporary
    <3>2. proc[p].temp = "cleared"
      BY DEF LinkTemporary
    <3>3. CASE proc' = [proc EXCEPT ![p].temp = "linked"]
      <4>1. proc'[p].temp = "linked"
        BY <3>3 DEF TypeOK
      <4> QED BY <3>2, <4>1
    <3>4. CASE Steps(p, {"cleaningPayload"}, proc[p].made)
      BY <1>1, <3>4
    <3> QED BY <3>1, <3>3, <3>4
  <2> QED BY <1>1, <1>2, <1>3, <2>1 DEF Turn, MayChange
<1> QED BY <1>4, <1>5, <1>6, <1>7, <1>8, <1>9, <1>10, <1>11, <1>12, <1>13,
       <1>14

LEMMA PublishStep ==
    ASSUME Counted, RestageInv, ReconcilerAlone, NEW p \in Attempts,
           Publish(p)
    PROVE  RestageInv' /\ Turn(p)
<1> USE DEF RestageInv, Counted, Steps, Holder, OwnerProcessIsLive,
      Early, Reconciling, Cleaning, Over, Sealed, Unpacked, Copied,
      HasControl, HasPayload, Building
<1>1. proc[p].pc \in {"recording", "recordingPayload", "recordingControl",
        "recordingCopy", "recordingFirst", "recordingSeal"}
  BY DEF Publish, At, Persists
<1>2. /\ next' = NoRecord
      /\ \/ /\ proc[p].pc = "recording"
            /\ next # NoRecord
            /\ record = NoRecord
            /\ record' = next
            /\ Steps(p, {"makingPayload"}, proc[p].made \cup {"record"})
         \/ /\ proc[p].pc = "recordingPayload"
            /\ next # NoRecord
            /\ record' = next
            /\ Steps(p, {"makingControl"}, proc[p].made \cup {"record"})
         \/ /\ proc[p].pc = "recordingControl"
            /\ next # NoRecord
            /\ record' = next
            /\ Steps(p, {"copying"}, proc[p].made \cup {"record"})
         \/ /\ proc[p].pc = "recordingCopy"
            /\ next # NoRecord
            /\ record' = next
            /\ Steps(p, {"extracting"}, proc[p].made \cup {"record"})
         \/ /\ proc[p].pc = "recordingFirst"
            /\ next # NoRecord
            /\ record' = next
            /\ Steps(p, {"extractingRest"}, proc[p].made \cup {"record"})
         \/ /\ proc[p].pc = "recordingSeal"
            /\ next # NoRecord
            /\ record' = next
            /\ Steps(p, {"retaining"}, proc[p].made \cup {"record"})
         \/ /\ Steps(p, {"cleaningPayload"}, proc[p].made)
            /\ record' = record
  <2>1. AfterPersist(p) \in Pcs
    BY DEF AfterPersist, Pcs, Working
  <2>2. \/ /\ next # NoRecord /\ record' = next
           /\ proc[p].pc = "recording" => record = NoRecord
           /\ Steps(p, {AfterPersist(p)}, proc[p].made \cup {"record"})
        \/ Steps(p, {"cleaningPayload"}, proc[p].made) /\ record' = record
    BY <2>1, PublishSteps, ThrowSteps DEF Publish, At
  <2>3. /\ proc[p].pc = "recording" => AfterPersist(p) = "makingPayload"
        /\ proc[p].pc = "recordingPayload" => AfterPersist(p) = "makingControl"
        /\ proc[p].pc = "recordingControl" => AfterPersist(p) = "copying"
        /\ proc[p].pc = "recordingCopy" => AfterPersist(p) = "extracting"
        /\ proc[p].pc = "recordingFirst" => AfterPersist(p) = "extractingRest"
        /\ proc[p].pc = "recordingSeal" => AfterPersist(p) = "retaining"
    BY DEF AfterPersist, At
  <2>4. next' = NoRecord
    BY DEF Publish
  <2> QED BY <1>1, <2>2, <2>3, <2>4
<1>3. UNCHANGED <<defect, payload, control, journal, stray, deaths, faults>>
  BY DEF Publish, tree
<1>4. WritersArePast'
  BY <1>1, <1>2, <1>3, RecordNamed DEF WritersArePast, TypeOK
<1>5. RecordKept'
  BY <1>1, <1>2, <1>3 DEF RecordKept, ReconcilerAlone
<1>6. OneHolder'
  BY <1>1, <1>2, <1>3 DEF OneHolder, MadeFits
<1>7. MadeFits'
  BY <1>1, <1>2, <1>3 DEF MadeFits
<1>8. TreesFit'
  BY <1>1, <1>2, <1>3 DEF TreesFit
<1>9. HolderKnows'
  BY <1>1, <1>2, <1>3 DEF HolderKnows, OneHolder, MadeFits, NamedByRecord
<1>10. NamedByRecord'
  BY <1>1, <1>2, <1>3 DEF NamedByRecord, OneHolder, MadeFits
<1>11. ArmedAlone'
  BY <1>1, <1>2, <1>3 DEF ArmedAlone
<1>12. ChecksPassed'
  BY <1>1, <1>2, <1>3 DEF ChecksPassed
<1>13. TypeOK'
  BY <1>1, <1>2, <1>3 DEF TypeOK, Processes, Records
<1>14. Turn(p)
  BY <1>1, <1>2, <1>3 DEF Turn, MayChange
<1> QED BY <1>4, <1>5, <1>6, <1>7, <1>8, <1>9, <1>10, <1>11, <1>12, <1>13,
       <1>14

(* CreateRecoverableDirectoryAt, by the holder of the record: what it      *)
(* opens is what it made.                                                  *)
LEMMA MakePayloadStep ==
    ASSUME Counted, RestageInv, ReconcilerAlone, NEW p \in Attempts,
           MakePayload(p)
    PROVE  RestageInv' /\ Turn(p)
<1> USE DEF RestageInv, Counted, Steps, Holder, OwnerProcessIsLive,
      Early, Reconciling, Cleaning, Over, Sealed, Unpacked, Copied,
      HasControl, HasPayload, Building
<1>1. proc[p].pc \in {"makingPayload", "openingPayload", "markingPayload"}
  BY DEF MakePayload, At
<1>2. \/ /\ proc[p].pc = "makingPayload"
         /\ payload = Absent
         /\ payload' = [by |-> p, stage |-> "made"]
         /\ Steps(p, {"openingPayload"}, proc[p].made)
      \/ /\ proc[p].pc = "openingPayload"
         /\ payload' = [by |-> p, stage |-> "marking"]
         /\ Steps(p, {"markingPayload"}, proc[p].made)
      \/ /\ proc[p].pc = "markingPayload"
         /\ payload' = [by |-> p, stage |-> "marked"]
         /\ Steps(p, {"recordingPayload"}, proc[p].made \cup {"payload"})
      \/ /\ proc[p].pc = "makingPayload"
         /\ Steps(p, {"cleaningPayload"}, proc[p].made)
         /\ payload' = payload
  <2> USE DirFields, DirAtStage, FollowValues DEF TypeOK, Pcs, Working, Persists
  <2>1. CASE proc[p].pc = "makingPayload"
    <3>1. MakeDirectory(p, payload)
      BY <2>1 DEF MakePayload, At
    <3> QED BY <2>1, <3>1, GotoSteps, ThrowSteps DEF MakeDirectory
  <2>2. CASE proc[p].pc = "openingPayload"
    <3>1. OpenDirectory(p, payload) /\ payload.stage = "made" /\ payload # Absent
      BY <2>2 DEF MakePayload, At, TreesFit
    <3> QED BY <2>2, <3>1, GotoSteps DEF OpenDirectory
  <2>3. CASE proc[p].pc = "markingPayload"
    <3>1. MarkDirectory(p, "payload", payload) /\ payload.by = p
      BY <2>3 DEF MakePayload, At, TreesFit
    <3>2. /\ payload' = [payload EXCEPT !.stage = "marked"]
          /\ proc' = [proc EXCEPT ![p].pc = Follow(@),
                         ![p].made = @ \cup {"payload"}]
      BY <3>1 DEF MarkDirectory
    <3>3. Steps(p, {"recordingPayload"}, proc[p].made \cup {"payload"})
      <4>1. proc' = [proc EXCEPT ![p].pc = "recordingPayload",
                                 ![p].made = proc[p].made \cup {"payload"}]
        BY <2>3, <3>2
      <4>2. proc[p].made \cup {"payload"} \in SUBSET {"payload", "control", "record"}
        BY DEF Processes
      <4>3. "recordingPayload" \in Pcs /\ TypeOK
        OBVIOUS
      <4> HIDE DEF TypeOK, Steps, Pcs
      <4> QED BY ONLY <4>1, <4>2, <4>3, KnowsSteps, p \in Attempts
    <3>4. payload' = [by |-> p, stage |-> "marked"]
      <4>1. InPayload(p, "marked")
        BY <3>1, <3>2 DEF InPayload
      <4> QED BY <4>1, StagedIn DEF Stages
    <3> QED BY <2>3, <3>3, <3>4
  <2> QED BY <1>1, <2>1, <2>2, <2>3
<1>3. UNCHANGED <<defect, next, record, control, journal, stray, deaths,
      faults>>
  BY DEF MakePayload
<1>4. WritersArePast'
  BY <1>1, <1>2, <1>3, RecordNamed DEF WritersArePast, TypeOK
<1>5. RecordKept'
  BY <1>1, <1>2, <1>3 DEF RecordKept, ReconcilerAlone
<1>6. OneHolder'
  BY <1>1, <1>2, <1>3 DEF OneHolder
<1>7. MadeFits'
  BY <1>1, <1>2, <1>3 DEF MadeFits
<1>8. TreesFit'
  BY <1>1, <1>2, <1>3 DEF TreesFit, OneHolder, MadeFits, ArmedAlone, TypeOK,
       Absent
<1>9. HolderKnows'
  BY <1>1, <1>2, <1>3 DEF HolderKnows, OneHolder, MadeFits
<1>10. NamedByRecord'
  BY <1>1, <1>2, <1>3 DEF NamedByRecord, OneHolder, MadeFits
<1>11. ArmedAlone'
  BY <1>1, <1>2, <1>3 DEF ArmedAlone, OneHolder, MadeFits, TreesFit, Absent
<1>12. ChecksPassed'
  BY <1>1, <1>2, <1>3 DEF ChecksPassed
<1>13. TypeOK'
  <2>1. \A stage \in {"made", "marking", "marked"} :
          [by |-> p, stage |-> stage] \in Dirs
    BY DEF Dirs, Stages
  <2>2. payload' \in Dirs
    BY <1>2, <2>1 DEF TypeOK
  <2> QED BY <1>2, <1>3, <2>2 DEF TypeOK, Processes
<1>14. Turn(p)
  BY <1>1, <1>2, <1>3 DEF Turn, MayChange, TypeOK, TreesFit, Absent
<1> QED BY <1>4, <1>5, <1>6, <1>7, <1>8, <1>9, <1>10, <1>11, <1>12, <1>13,
       <1>14

LEMMA MakeControlStep ==
    ASSUME Counted, RestageInv, ReconcilerAlone, NEW p \in Attempts,
           MakeControl(p)
    PROVE  RestageInv' /\ Turn(p)
<1> USE DEF RestageInv, Counted, Steps, Holder, OwnerProcessIsLive,
      Early, Reconciling, Cleaning, Over, Sealed, Unpacked, Copied,
      HasControl, HasPayload, Building
<1>1. proc[p].pc \in {"makingControl", "openingControl", "markingControl"}
  BY DEF MakeControl, At
<1>2. \/ /\ proc[p].pc = "makingControl"
         /\ control = Absent
         /\ control' = [by |-> p, stage |-> "made"]
         /\ Steps(p, {"openingControl"}, proc[p].made)
      \/ /\ proc[p].pc = "openingControl"
         /\ control' = [by |-> p, stage |-> "marking"]
         /\ Steps(p, {"markingControl"}, proc[p].made)
      \/ /\ proc[p].pc = "markingControl"
         /\ control' = [by |-> p, stage |-> "marked"]
         /\ Steps(p, {"recordingControl"}, proc[p].made \cup {"control"})
      \/ /\ proc[p].pc = "makingControl"
         /\ Steps(p, {"cleaningPayload"}, proc[p].made)
         /\ control' = control
  <2> USE DirFields, DirAtStage, FollowValues DEF TypeOK, Pcs, Working, Persists
  <2>1. CASE proc[p].pc = "makingControl"
    <3>1. MakeDirectory(p, control)
      BY <2>1 DEF MakeControl, At
    <3> QED BY <2>1, <3>1, GotoSteps, ThrowSteps DEF MakeDirectory
  <2>2. CASE proc[p].pc = "openingControl"
    <3>1. OpenDirectory(p, control) /\ control.stage = "made" /\ control # Absent
      BY <2>2 DEF MakeControl, At, TreesFit
    <3> QED BY <2>2, <3>1, GotoSteps DEF OpenDirectory
  <2>3. CASE proc[p].pc = "markingControl"
    <3>1. MarkDirectory(p, "control", control) /\ control.by = p
      BY <2>3 DEF MakeControl, At, TreesFit
    <3>2. /\ control' = [control EXCEPT !.stage = "marked"]
          /\ proc' = [proc EXCEPT ![p].pc = Follow(@),
                         ![p].made = @ \cup {"control"}]
      BY <3>1 DEF MarkDirectory
    <3>3. Steps(p, {"recordingControl"}, proc[p].made \cup {"control"})
      <4>1. proc' = [proc EXCEPT ![p].pc = "recordingControl",
                                 ![p].made = proc[p].made \cup {"control"}]
        BY <2>3, <3>2
      <4>2. proc[p].made \cup {"control"} \in SUBSET {"payload", "control", "record"}
        BY DEF Processes
      <4>3. "recordingControl" \in Pcs /\ TypeOK
        OBVIOUS
      <4> HIDE DEF TypeOK, Steps, Pcs
      <4> QED BY ONLY <4>1, <4>2, <4>3, KnowsSteps, p \in Attempts
    <3>4. control' = [by |-> p, stage |-> "marked"]
      <4>1. InControl(p, "marked")
        BY <3>1, <3>2 DEF InControl
      <4> QED BY <4>1, StagedIn DEF Stages
    <3> QED BY <2>3, <3>3, <3>4
  <2> QED BY <1>1, <2>1, <2>2, <2>3
<1>3. UNCHANGED <<defect, next, record, payload, journal, stray, deaths,
      faults>>
  BY DEF MakeControl
<1>4. WritersArePast'
  BY <1>1, <1>2, <1>3, RecordNamed DEF WritersArePast, TypeOK
<1>5. RecordKept'
  BY <1>1, <1>2, <1>3 DEF RecordKept, ReconcilerAlone
<1>6. OneHolder'
  BY <1>1, <1>2, <1>3 DEF OneHolder
<1>7. MadeFits'
  BY <1>1, <1>2, <1>3 DEF MadeFits
<1>8. TreesFit'
  BY <1>1, <1>2, <1>3 DEF TreesFit, OneHolder, MadeFits, ArmedAlone, TypeOK,
       Absent
<1>9. HolderKnows'
  BY <1>1, <1>2, <1>3 DEF HolderKnows, OneHolder, MadeFits
<1>10. NamedByRecord'
  BY <1>1, <1>2, <1>3 DEF NamedByRecord, OneHolder, MadeFits
<1>11. ArmedAlone'
  BY <1>1, <1>2, <1>3 DEF ArmedAlone, OneHolder, MadeFits, TreesFit, Absent
<1>12. ChecksPassed'
  BY <1>1, <1>2, <1>3 DEF ChecksPassed
<1>13. TypeOK'
  <2>1. \A stage \in {"made", "marking", "marked"} :
          [by |-> p, stage |-> stage] \in Dirs
    BY DEF Dirs, Stages
  <2>2. control' \in Dirs
    BY <1>2, <2>1 DEF TypeOK
  <2> QED BY <1>2, <1>3, <2>2 DEF TypeOK, Processes
<1>14. Turn(p)
  BY <1>1, <1>2, <1>3 DEF Turn, MayChange, TypeOK, TreesFit, Absent
<1> QED BY <1>4, <1>5, <1>6, <1>7, <1>8, <1>9, <1>10, <1>11, <1>12, <1>13,
       <1>14

(* The archive is copied and unpacked in the attempt's own directories.    *)
LEMMA CopyArchiveStep ==
    ASSUME Counted, RestageInv, ReconcilerAlone, NEW p \in Attempts,
           CopyArchive(p)
    PROVE  RestageInv' /\ Turn(p)
<1> USE DEF RestageInv, Counted, Steps, Holder, OwnerProcessIsLive,
      Early, Reconciling, Cleaning, Over, Sealed, Unpacked, Copied,
      HasControl, HasPayload, Building
<1>1. proc[p].pc = "copying"
  BY DEF CopyArchive, At
<1>2. \/ /\ control'.by = p
         /\ control' \in Dirs
         /\ Steps(p, {"recordingCopy"}, proc[p].made)
         /\ defect # "digest"
      \/ /\ control'.by = p
         /\ control' \in Dirs
         /\ Steps(p, {"cleaningPayload"}, proc[p].made)
  <2>1. InControl(p, "copied")
    BY <1>1 DEF CopyArchive, TreesFit, InControl
  <2>2. control' = [by |-> p, stage |-> "copied"] /\ "copied" \in Stages
    BY <2>1, StagedIn DEF Stages
  <2>3. \/ Steps(p, {"recordingCopy"}, proc[p].made) /\ defect # "digest"
        \/ Steps(p, {"cleaningPayload"}, proc[p].made)
    BY GotoSteps, ThrowSteps DEF CopyArchive, CopyDigestMatches, Pcs, Working,
         Persists
  <2> QED BY <2>2, <2>3, DirAtStage
<1>3. UNCHANGED <<defect, next, record, payload, journal, stray, deaths,
      faults>>
  BY DEF CopyArchive
<1>4. WritersArePast'
  BY <1>1, <1>2, <1>3, RecordNamed DEF WritersArePast, TypeOK
<1>5. RecordKept'
  BY <1>1, <1>2, <1>3 DEF RecordKept, ReconcilerAlone
<1>6. OneHolder'
  BY <1>1, <1>2, <1>3 DEF OneHolder
<1>7. MadeFits'
  BY <1>1, <1>2, <1>3 DEF MadeFits
<1>8. TreesFit'
  BY <1>1, <1>2, <1>3 DEF TreesFit
<1>9. HolderKnows'
  BY <1>1, <1>2, <1>3, DirFields DEF HolderKnows, OneHolder, MadeFits,
       TreesFit, TypeOK
<1>10. NamedByRecord'
  BY <1>1, <1>2, <1>3 DEF NamedByRecord, OneHolder, MadeFits
<1>11. ArmedAlone'
  BY <1>1, <1>2, <1>3 DEF ArmedAlone
<1>12. ChecksPassed'
  BY <1>1, <1>2, <1>3 DEF ChecksPassed
<1>13. TypeOK'
  BY <1>1, <1>2, <1>3 DEF TypeOK, Processes
<1>14. Turn(p)
  BY <1>1, <1>2, <1>3 DEF Turn, MayChange, TypeOK, TreesFit
<1> QED BY <1>4, <1>5, <1>6, <1>7, <1>8, <1>9, <1>10, <1>11, <1>12, <1>13,
       <1>14

LEMMA ExtractFirstStep ==
    ASSUME Counted, RestageInv, ReconcilerAlone, NEW p \in Attempts,
           ExtractFirst(p)
    PROVE  RestageInv' /\ Turn(p)
<1> USE DEF RestageInv, Counted, Steps, Holder, OwnerProcessIsLive,
      Early, Reconciling, Cleaning, Over, Sealed, Unpacked, Copied,
      HasControl, HasPayload, Building
<1>1. proc[p].pc = "extracting"
  BY DEF ExtractFirst, At
<1>2. \/ /\ payload'.by = p
         /\ payload' \in Dirs
         /\ Steps(p, {"recordingFirst"}, proc[p].made)
         /\ defect \notin {"path", "entry"}
      \/ /\ payload' = payload
         /\ Steps(p, {"cleaningPayload"}, proc[p].made)
  <2>1. CASE ~PreflightAccepts
    BY <1>1, <2>1, ThrowSteps DEF ExtractFirst, TreesFit
  <2>2. CASE PreflightAccepts
    <3>1. InPayload(p, "first") /\ Goto(p, "recordingFirst")
      BY <1>1, <2>2 DEF ExtractFirst, TreesFit
    <3>2. payload' = [by |-> p, stage |-> "first"] /\ "first" \in Stages
      BY <3>1, StagedIn DEF Stages
    <3>3. Steps(p, {"recordingFirst"}, proc[p].made)
      BY <3>1, GotoSteps DEF Pcs, Working, Persists
    <3> QED BY <2>2, <3>2, <3>3, DirAtStage DEF PreflightAccepts,
              StrictArchiveSegments
  <2> QED BY <2>1, <2>2
<1>3. UNCHANGED <<defect, next, record, control, journal, stray, deaths,
      faults>>
  BY DEF ExtractFirst
<1>4. WritersArePast'
  BY <1>1, <1>2, <1>3, RecordNamed DEF WritersArePast, TypeOK
<1>5. RecordKept'
  BY <1>1, <1>2, <1>3 DEF RecordKept, ReconcilerAlone
<1>6. OneHolder'
  BY <1>1, <1>2, <1>3 DEF OneHolder
<1>7. MadeFits'
  BY <1>1, <1>2, <1>3 DEF MadeFits
<1>8. TreesFit'
  BY <1>1, <1>2, <1>3 DEF TreesFit
<1>9. HolderKnows'
  BY <1>1, <1>2, <1>3, DirFields DEF HolderKnows, OneHolder, MadeFits,
       TreesFit, TypeOK
<1>10. NamedByRecord'
  BY <1>1, <1>2, <1>3 DEF NamedByRecord, OneHolder, MadeFits
<1>11. ArmedAlone'
  BY <1>1, <1>2, <1>3 DEF ArmedAlone
<1>12. ChecksPassed'
  BY <1>1, <1>2, <1>3 DEF ChecksPassed
<1>13. TypeOK'
  BY <1>1, <1>2, <1>3 DEF TypeOK, Processes
<1>14. Turn(p)
  BY <1>1, <1>2, <1>3 DEF Turn, MayChange, TypeOK, TreesFit
<1> QED BY <1>4, <1>5, <1>6, <1>7, <1>8, <1>9, <1>10, <1>11, <1>12, <1>13,
       <1>14

LEMMA ExtractRestStep ==
    ASSUME Counted, RestageInv, ReconcilerAlone, NEW p \in Attempts,
           ExtractRest(p)
    PROVE  RestageInv' /\ Turn(p)
<1> USE DEF RestageInv, Counted, Steps, Holder, OwnerProcessIsLive,
      Early, Reconciling, Cleaning, Over, Sealed, Unpacked, Copied,
      HasControl, HasPayload, Building
<1>1. proc[p].pc = "extractingRest"
  BY DEF ExtractRest, At
<1>2. /\ payload'.by = p
      /\ payload' \in Dirs
      /\ Steps(p, {"unmarkingPayload"}, proc[p].made)
  <2>1. PICK stage \in {"first", "more"} : InPayload(p, stage)
    BY <1>1 DEF ExtractRest, TreesFit
  <2>2. payload' = [by |-> p, stage |-> stage] /\ stage \in Stages
    BY <2>1, StagedIn DEF Stages
  <2>3. Steps(p, {"unmarkingPayload"}, proc[p].made)
    BY <1>1, GotoSteps DEF ExtractRest, TreesFit, Pcs, Working
  <2> QED BY <2>2, <2>3, DirAtStage
<1>3. UNCHANGED <<defect, next, record, control, journal, stray, deaths,
      faults>>
  BY DEF ExtractRest
<1>4. WritersArePast'
  BY <1>1, <1>2, <1>3, RecordNamed DEF WritersArePast, TypeOK
<1>5. RecordKept'
  BY <1>1, <1>2, <1>3 DEF RecordKept, ReconcilerAlone
<1>6. OneHolder'
  BY <1>1, <1>2, <1>3 DEF OneHolder
<1>7. MadeFits'
  BY <1>1, <1>2, <1>3 DEF MadeFits
<1>8. TreesFit'
  BY <1>1, <1>2, <1>3 DEF TreesFit
<1>9. HolderKnows'
  BY <1>1, <1>2, <1>3, DirFields DEF HolderKnows, OneHolder, MadeFits,
       TreesFit, TypeOK
<1>10. NamedByRecord'
  BY <1>1, <1>2, <1>3 DEF NamedByRecord, OneHolder, MadeFits
<1>11. ArmedAlone'
  BY <1>1, <1>2, <1>3 DEF ArmedAlone
<1>12. ChecksPassed'
  BY <1>1, <1>2, <1>3 DEF ChecksPassed
<1>13. TypeOK'
  BY <1>1, <1>2, <1>3 DEF TypeOK, Processes
<1>14. Turn(p)
  BY <1>1, <1>2, <1>3 DEF Turn, MayChange, TypeOK, TreesFit
<1> QED BY <1>4, <1>5, <1>6, <1>7, <1>8, <1>9, <1>10, <1>11, <1>12, <1>13,
       <1>14

LEMMA RemoveCleanupCookieStep ==
    ASSUME Counted, RestageInv, ReconcilerAlone, NEW p \in Attempts,
           RemoveCleanupCookie(p)
    PROVE  RestageInv' /\ Turn(p)
<1> USE DEF RestageInv, Counted, Steps, Holder, OwnerProcessIsLive,
      Early, Reconciling, Cleaning, Over, Sealed, Unpacked, Copied,
      HasControl, HasPayload, Building
<1>1. proc[p].pc \in {"unmarkingPayload", "unmarkingControl"}
  BY DEF RemoveCleanupCookie, At
<1>2. \/ /\ proc[p].pc = "unmarkingPayload"
         /\ payload'.by = p
         /\ payload'.stage = "bare"
         /\ payload' \in Dirs
         /\ control' = control
         /\ Steps(p, {"unmarkingControl"}, proc[p].made)
      \/ /\ proc[p].pc = "unmarkingControl"
         /\ control'.by = p
         /\ control' \in Dirs
         /\ payload' = payload
         /\ Steps(p, {"sealing"}, proc[p].made)
  <2>1. CASE proc[p].pc = "unmarkingPayload"
    <3>1. /\ InPayload(p, "bare") /\ control' = control
          /\ Goto(p, "unmarkingControl")
      BY <2>1 DEF RemoveCleanupCookie, At, TreesFit
    <3>2. payload' = [by |-> p, stage |-> "bare"] /\ "bare" \in Stages
      BY <3>1, StagedIn DEF Stages
    <3>3. Steps(p, {"unmarkingControl"}, proc[p].made)
      BY <3>1, GotoSteps DEF Pcs, Working
    <3> QED BY <2>1, <3>1, <3>2, <3>3, DirAtStage
  <2>2. CASE proc[p].pc = "unmarkingControl"
    <3>1. /\ InControl(p, "bare") /\ payload' = payload
          /\ Goto(p, "sealing")
      BY <2>2 DEF RemoveCleanupCookie, At, TreesFit
    <3>2. control' = [by |-> p, stage |-> "bare"] /\ "bare" \in Stages
      BY <3>1, StagedIn DEF Stages
    <3>3. Steps(p, {"sealing"}, proc[p].made)
      BY <3>1, GotoSteps DEF Pcs, Working
    <3> QED BY <2>2, <3>1, <3>2, <3>3, DirAtStage
  <2> QED BY <1>1, <2>1, <2>2
<1>3. UNCHANGED <<defect, next, record, journal, stray, deaths, faults>>
  BY DEF RemoveCleanupCookie, tree
<1>4. WritersArePast'
  BY <1>1, <1>2, <1>3, RecordNamed DEF WritersArePast, TypeOK
<1>5. RecordKept'
  BY <1>1, <1>2, <1>3 DEF RecordKept, ReconcilerAlone
<1>6. OneHolder'
  BY <1>1, <1>2, <1>3 DEF OneHolder
<1>7. MadeFits'
  BY <1>1, <1>2, <1>3 DEF MadeFits
<1>8. TreesFit'
  BY <1>1, <1>2, <1>3 DEF TreesFit
<1>9. HolderKnows'
  BY <1>1, <1>2, <1>3, DirFields DEF HolderKnows, OneHolder, MadeFits,
       TreesFit, TypeOK
<1>10. NamedByRecord'
  BY <1>1, <1>2, <1>3 DEF NamedByRecord, OneHolder, MadeFits
<1>11. ArmedAlone'
  BY <1>1, <1>2, <1>3 DEF ArmedAlone
<1>12. ChecksPassed'
  BY <1>1, <1>2, <1>3 DEF ChecksPassed
<1>13. TypeOK'
  BY <1>1, <1>2, <1>3 DEF TypeOK, Processes
<1>14. Turn(p)
  BY <1>1, <1>2, <1>3 DEF Turn, MayChange, TypeOK, TreesFit
<1> QED BY <1>4, <1>5, <1>6, <1>7, <1>8, <1>9, <1>10, <1>11, <1>12, <1>13,
       <1>14

LEMMA SealPayloadStep ==
    ASSUME Counted, RestageInv, ReconcilerAlone, NEW p \in Attempts,
           SealPayload(p)
    PROVE  RestageInv' /\ Turn(p)
<1> USE DEF RestageInv, Counted, Steps, Holder, OwnerProcessIsLive,
      Early, Reconciling, Cleaning, Over, Sealed, Unpacked, Copied,
      HasControl, HasPayload, Building
<1>1. proc[p].pc = "sealing"
  BY DEF SealPayload, At
<1>2. \/ /\ control'.by = p
         /\ control'.stage = "sealed"
         /\ control' \in Dirs
         /\ Steps(p, {"recordingSeal"}, proc[p].made)
         /\ defect \notin {"executable", "inventory", "seal"}
      \/ /\ control' = control
         /\ Steps(p, {"cleaningPayload"}, proc[p].made)
  <2>1. CASE /\ ExecutablePresent /\ InventoryMatches /\ SealFits
             /\ InControl(p, "sealed") /\ Goto(p, "recordingSeal")
    <3>1. "sealed" \in Stages /\ "recordingSeal" \in Pcs
      BY DEF Stages, Pcs, Working, Persists
    <3>2. control' = [by |-> p, stage |-> "sealed"]
      BY <2>1, <3>1, StagedIn
    <3>3. [by |-> p, stage |-> "sealed"] \in Dirs
      BY <3>1, DirAtStage
    <3>4. Steps(p, {"recordingSeal"}, proc[p].made)
      BY <2>1, <3>1, GotoSteps
    <3>5. defect \notin {"executable", "inventory", "seal"}
      BY <2>1 DEF ExecutablePresent, InventoryMatches, SealFits
    <3> QED BY <3>2, <3>3, <3>4, <3>5
  <2>2. CASE Throw(p) /\ UNCHANGED control
    BY <2>2, ThrowSteps
  <2> QED BY <2>1, <2>2 DEF SealPayload
<1>3. UNCHANGED <<defect, next, record, payload, journal, stray, deaths,
      faults>>
  BY DEF SealPayload
<1>4. WritersArePast'
  BY <1>1, <1>2, <1>3, RecordNamed DEF WritersArePast, TypeOK
<1>5. RecordKept'
  BY <1>1, <1>2, <1>3 DEF RecordKept, ReconcilerAlone
<1>6. OneHolder'
  BY <1>1, <1>2, <1>3 DEF OneHolder
<1>7. MadeFits'
  BY <1>1, <1>2, <1>3 DEF MadeFits
<1>8. TreesFit'
  BY <1>1, <1>2, <1>3 DEF TreesFit
<1>9. HolderKnows'
  BY <1>1, <1>2, <1>3, DirFields DEF HolderKnows, OneHolder, MadeFits,
       TreesFit, TypeOK
<1>10. NamedByRecord'
  BY <1>1, <1>2, <1>3 DEF NamedByRecord, OneHolder, MadeFits
<1>11. ArmedAlone'
  BY <1>1, <1>2, <1>3 DEF ArmedAlone
<1>12. ChecksPassed'
  BY <1>1, <1>2, <1>3 DEF ChecksPassed
<1>13. TypeOK'
  BY <1>1, <1>2, <1>3 DEF TypeOK, Processes
<1>14. Turn(p)
  BY <1>1, <1>2, <1>3 DEF Turn, MayChange, TypeOK, TreesFit
<1> QED BY <1>4, <1>5, <1>6, <1>7, <1>8, <1>9, <1>10, <1>11, <1>12, <1>13,
       <1>14

LEMMA RetainRecordStep ==
    ASSUME Counted, RestageInv, ReconcilerAlone, NEW p \in Attempts,
           RetainRecord(p)
    PROVE  RestageInv' /\ Turn(p)
<1> USE DEF RestageInv, Counted, Steps, Holder, OwnerProcessIsLive,
      Early, Reconciling, Cleaning, Over, Sealed, Unpacked, Copied,
      HasControl, HasPayload, Building
<1>1. proc[p].pc = "retaining"
  BY DEF RetainRecord, At
<1>2. \/ Steps(p, {"restaged"}, proc[p].made)
      \/ Steps(p, {"cleaningPayload"}, proc[p].made)
  BY <1>1, GotoSteps, ThrowSteps DEF RetainRecord, At, Pcs, Working, Persists
<1>3. UNCHANGED <<defect, next, record, payload, control, journal, stray,
      deaths, faults>>
  BY DEF RetainRecord, tree
<1>4. WritersArePast'
  BY <1>1, <1>2, <1>3, RecordNamed DEF WritersArePast, TypeOK
<1>5. RecordKept'
  BY <1>1, <1>2, <1>3 DEF RecordKept
<1>6. OneHolder'
  BY <1>1, <1>2, <1>3 DEF OneHolder
<1>7. MadeFits'
  BY <1>1, <1>2, <1>3 DEF MadeFits
<1>8. TreesFit'
  BY <1>1, <1>2, <1>3 DEF TreesFit
<1>9. HolderKnows'
  BY <1>1, <1>2, <1>3 DEF HolderKnows
<1>10. NamedByRecord'
  BY <1>1, <1>2, <1>3 DEF NamedByRecord
<1>11. ArmedAlone'
  BY <1>1, <1>2, <1>3 DEF ArmedAlone
<1>12. ChecksPassed'
  BY <1>1, <1>2, <1>3 DEF ChecksPassed
<1>13. TypeOK'
  BY <1>1, <1>2, <1>3 DEF TypeOK, Processes
<1>14. Turn(p)
  BY <1>1, <1>2, <1>3 DEF Turn, MayChange
<1> QED BY <1>4, <1>5, <1>6, <1>7, <1>8, <1>9, <1>10, <1>11, <1>12, <1>13,
       <1>14

(* The transaction takes over.                                             *)
LEMMA PersistJournalStep ==
    ASSUME Counted, RestageInv, ReconcilerAlone, NEW p \in Attempts,
           PersistJournal(p)
    PROVE  RestageInv' /\ Turn(p)
<1> USE DEF RestageInv, Counted, Steps, Holder, OwnerProcessIsLive,
      Early, Reconciling, Cleaning, Over, Sealed, Unpacked, Copied,
      HasControl, HasPayload, Building
<1>1. proc[p].pc = "restaged"
  BY DEF PersistJournal, At
<1>2. \/ /\ journal = "none"
         /\ journal' = p
         /\ Steps(p, {"journaled"}, proc[p].made)
      \/ /\ journal' = journal
         /\ Steps(p, {"cleaningPayload"}, proc[p].made)
  BY <1>1, GotoSteps, ThrowSteps DEF PersistJournal, At, Pcs, Working,
       Persists
<1>3. UNCHANGED <<defect, next, record, payload, control, stray, deaths,
      faults>>
  BY DEF PersistJournal, tree
<1>4. WritersArePast'
  BY <1>1, <1>2, <1>3, RecordNamed DEF WritersArePast, TypeOK
<1>5. RecordKept'
  BY <1>1, <1>2, <1>3 DEF RecordKept
<1>6. OneHolder'
  BY <1>1, <1>2, <1>3 DEF OneHolder
<1>7. MadeFits'
  BY <1>1, <1>2, <1>3 DEF MadeFits
<1>8. TreesFit'
  BY <1>1, <1>2, <1>3 DEF TreesFit
<1>9. HolderKnows'
  BY <1>1, <1>2, <1>3 DEF HolderKnows
<1>10. NamedByRecord'
  BY <1>1, <1>2, <1>3 DEF NamedByRecord
<1>11. ArmedAlone'
  BY <1>1, <1>2, <1>3 DEF ArmedAlone
<1>12. ChecksPassed'
  BY <1>1, <1>2, <1>3 DEF ChecksPassed
<1>13. TypeOK'
  BY <1>1, <1>2, <1>3 DEF TypeOK, Processes
<1>14. Turn(p)
  BY <1>1, <1>2, <1>3 DEF Turn, MayChange
<1> QED BY <1>4, <1>5, <1>6, <1>7, <1>8, <1>9, <1>10, <1>11, <1>12, <1>13,
       <1>14

LEMMA ArmForRecoveryStep ==
    ASSUME Counted, RestageInv, ReconcilerAlone, NEW p \in Attempts,
           ArmForRecovery(p)
    PROVE  RestageInv' /\ Turn(p)
<1> USE DEF RestageInv, Counted, Steps, Holder, OwnerProcessIsLive,
      Early, Reconciling, Cleaning, Over, Sealed, Unpacked, Copied,
      HasControl, HasPayload, Building
<1>1. proc[p].pc = "journaled"
  BY DEF ArmForRecovery, At
<1>2. \/ /\ record' = NoRecord
         /\ Steps(p, {"armed"}, {})
      \/ /\ record' = record
         /\ Steps(p, {"cleaningPayload"}, {})
  BY <1>1 DEF ArmForRecovery, At, Pcs, Working, Persists, TypeOK, Processes
<1>3. UNCHANGED <<defect, next, payload, control, journal, stray, deaths,
      faults>>
  BY DEF ArmForRecovery, tree
<1>4. WritersArePast'
  BY <1>1, <1>2, <1>3, RecordNamed DEF WritersArePast, TypeOK
<1>5. RecordKept'
  BY <1>1, <1>2, <1>3 DEF RecordKept, ReconcilerAlone
<1>6. OneHolder'
  BY <1>1, <1>2, <1>3 DEF OneHolder, MadeFits
<1>7. MadeFits'
  BY <1>1, <1>2, <1>3 DEF MadeFits
<1>8. TreesFit'
  BY <1>1, <1>2, <1>3 DEF TreesFit
<1>9. HolderKnows'
  BY <1>1, <1>2, <1>3 DEF HolderKnows, OneHolder, MadeFits
<1>10. NamedByRecord'
  BY <1>1, <1>2, <1>3 DEF NamedByRecord, OneHolder, MadeFits, ChecksPassed
<1>11. ArmedAlone'
  BY <1>1, <1>2, <1>3 DEF ArmedAlone, OneHolder, MadeFits
<1>12. ChecksPassed'
  BY <1>1, <1>2, <1>3 DEF ChecksPassed
<1>13. TypeOK'
  BY <1>1, <1>2, <1>3 DEF TypeOK, Processes, Records
<1>14. Turn(p)
  BY <1>1, <1>2, <1>3 DEF Turn, MayChange
<1> QED BY <1>4, <1>5, <1>6, <1>7, <1>8, <1>9, <1>10, <1>11, <1>12, <1>13,
       <1>14

(* The catch block: the record goes when nothing else is left.             *)
LEMMA CleanPayloadStep ==
    ASSUME Counted, RestageInv, ReconcilerAlone, NEW p \in Attempts,
           CleanPayload(p)
    PROVE  RestageInv' /\ Turn(p)
<1> USE DEF RestageInv, Counted, Steps, Holder, OwnerProcessIsLive,
      Early, Reconciling, Cleaning, Over, Sealed, Unpacked, Copied,
      HasControl, HasPayload, Building
<1>1. proc[p].pc = "cleaningPayload"
  BY DEF CleanPayload, At
<1>2. \/ /\ "payload" \in proc[p].made
         /\ payload.by = p
         /\ payload' = Absent
         /\ Steps(p, {"cleaningControl"}, proc[p].made \ {"payload"})
      \/ /\ payload' = payload
         /\ "payload" \in proc[p].made => payload = Absent
         /\ Steps(p, {"cleaningControl"}, proc[p].made \ {"payload"})
      \/ /\ payload' = payload
         /\ Steps(p, {"cleaningControl"}, proc[p].made)
  <2>1. /\ payload' = IF "payload" \in proc[p].made /\ payload.by = p
                    THEN Absent ELSE payload
        /\ \/ /\ "payload" \in proc[p].made /\ payload.by \notin {p, "none"}
              /\ proc' = [proc EXCEPT ![p].pc = "cleaningControl", ![p].made = @]
           \/ /\ ~("payload" \in proc[p].made /\ payload.by \notin {p, "none"})
              /\ proc' = [proc EXCEPT ![p].pc = "cleaningControl",
                            ![p].made = @ \ {"payload"}]
    BY DEF CleanPayload
  <2>2. \/ /\ "payload" \in proc[p].made /\ payload.by \notin {p, "none"}
           /\ Steps(p, {"cleaningControl"}, proc[p].made)
        \/ /\ ~("payload" \in proc[p].made /\ payload.by \notin {p, "none"})
           /\ Steps(p, {"cleaningControl"}, proc[p].made \ {"payload"})
    BY <2>1 DEF TypeOK, Processes, Pcs
  <2> QED BY <2>1, <2>2, DirFields DEF TypeOK
<1>3. UNCHANGED <<defect, next, record, control, journal, stray, deaths,
      faults>>
  BY DEF CleanPayload
<1>4. WritersArePast'
  BY <1>1, <1>2, <1>3, RecordNamed DEF WritersArePast, TypeOK
<1>5. RecordKept'
  BY <1>1, <1>2, <1>3 DEF RecordKept, ReconcilerAlone
<1>6. OneHolder'
  BY <1>1, <1>2, <1>3 DEF OneHolder
<1>7. MadeFits'
  BY <1>1, <1>2, <1>3 DEF MadeFits
<1>8. TreesFit'
  BY <1>1, <1>2, <1>3 DEF TreesFit
<1>9. HolderKnows'
  BY <1>1, <1>2, <1>3 DEF HolderKnows, OneHolder, MadeFits
<1>10. NamedByRecord'
  BY <1>1, <1>2, <1>3 DEF NamedByRecord, OneHolder, MadeFits
<1>11. ArmedAlone'
  BY <1>1, <1>2, <1>3 DEF ArmedAlone
<1>12. ChecksPassed'
  BY <1>1, <1>2, <1>3 DEF ChecksPassed
<1>13. TypeOK'
  BY <1>1, <1>2, <1>3 DEF TypeOK, Processes, Dirs
<1>14. Turn(p)
  BY <1>1, <1>2, <1>3 DEF Turn, MayChange, TypeOK
<1> QED BY <1>4, <1>5, <1>6, <1>7, <1>8, <1>9, <1>10, <1>11, <1>12, <1>13,
       <1>14

LEMMA CleanControlStep ==
    ASSUME Counted, RestageInv, ReconcilerAlone, NEW p \in Attempts,
           CleanControl(p)
    PROVE  RestageInv' /\ Turn(p)
<1> USE DEF RestageInv, Counted, Steps, Holder, OwnerProcessIsLive,
      Early, Reconciling, Cleaning, Over, Sealed, Unpacked, Copied,
      HasControl, HasPayload, Building
<1>1. proc[p].pc = "cleaningControl"
  BY DEF CleanControl, At
<1>2. \/ /\ "control" \in proc[p].made
         /\ control.by = p
         /\ control' = Absent
         /\ Steps(p, {"cleaningRecord"}, proc[p].made \ {"control"})
      \/ /\ control' = control
         /\ "control" \in proc[p].made => control = Absent
         /\ Steps(p, {"cleaningRecord"}, proc[p].made \ {"control"})
      \/ /\ control' = control
         /\ Steps(p, {"cleaningRecord"}, proc[p].made)
  <2>1. /\ control' = IF "control" \in proc[p].made /\ control.by = p
                    THEN Absent ELSE control
        /\ \/ /\ "control" \in proc[p].made /\ control.by \notin {p, "none"}
              /\ proc' = [proc EXCEPT ![p].pc = "cleaningRecord", ![p].made = @]
           \/ /\ ~("control" \in proc[p].made /\ control.by \notin {p, "none"})
              /\ proc' = [proc EXCEPT ![p].pc = "cleaningRecord",
                            ![p].made = @ \ {"control"}]
    BY DEF CleanControl
  <2>2. \/ /\ "control" \in proc[p].made /\ control.by \notin {p, "none"}
           /\ Steps(p, {"cleaningRecord"}, proc[p].made)
        \/ /\ ~("control" \in proc[p].made /\ control.by \notin {p, "none"})
           /\ Steps(p, {"cleaningRecord"}, proc[p].made \ {"control"})
    BY <2>1 DEF TypeOK, Processes, Pcs
  <2> QED BY <2>1, <2>2, DirFields DEF TypeOK
<1>3. UNCHANGED <<defect, next, record, payload, journal, stray, deaths,
      faults>>
  BY DEF CleanControl
<1>4. WritersArePast'
  BY <1>1, <1>2, <1>3, RecordNamed DEF WritersArePast, TypeOK
<1>5. RecordKept'
  BY <1>1, <1>2, <1>3 DEF RecordKept, ReconcilerAlone
<1>6. OneHolder'
  BY <1>1, <1>2, <1>3 DEF OneHolder
<1>7. MadeFits'
  BY <1>1, <1>2, <1>3 DEF MadeFits
<1>8. TreesFit'
  BY <1>1, <1>2, <1>3 DEF TreesFit
<1>9. HolderKnows'
  BY <1>1, <1>2, <1>3 DEF HolderKnows, OneHolder, MadeFits
<1>10. NamedByRecord'
  BY <1>1, <1>2, <1>3 DEF NamedByRecord, OneHolder, MadeFits
<1>11. ArmedAlone'
  BY <1>1, <1>2, <1>3 DEF ArmedAlone
<1>12. ChecksPassed'
  BY <1>1, <1>2, <1>3 DEF ChecksPassed
<1>13. TypeOK'
  BY <1>1, <1>2, <1>3 DEF TypeOK, Processes, Dirs
<1>14. Turn(p)
  BY <1>1, <1>2, <1>3 DEF Turn, MayChange, TypeOK
<1> QED BY <1>4, <1>5, <1>6, <1>7, <1>8, <1>9, <1>10, <1>11, <1>12, <1>13,
       <1>14

LEMMA CleanRecordStep ==
    ASSUME Counted, RestageInv, ReconcilerAlone, NEW p \in Attempts,
           CleanRecord(p)
    PROVE  RestageInv' /\ Turn(p)
<1> USE DEF RestageInv, Counted, Steps, Holder, OwnerProcessIsLive,
      Early, Reconciling, Cleaning, Over, Sealed, Unpacked, Copied,
      HasControl, HasPayload, Building
<1>1. proc[p].pc = "cleaningRecord"
  BY DEF CleanRecord, At
<1>2. \/ /\ proc[p].made = {"record"}
         /\ record' = NoRecord
         /\ Steps(p, {"failed"}, {})
      \/ /\ record' = record
         /\ Steps(p, {"failed", "manual"}, {})
  BY <1>1, LeaveSteps DEF CleanRecord, At, Pcs, Working, Persists,
       RecordDisposable
<1>3. UNCHANGED <<defect, next, payload, control, journal, stray, deaths,
      faults>>
  BY DEF CleanRecord, tree
<1>4. WritersArePast'
  BY <1>1, <1>2, <1>3, RecordNamed DEF WritersArePast, TypeOK
<1>5. RecordKept'
  BY <1>1, <1>2, <1>3 DEF RecordKept, ReconcilerAlone
<1>6. OneHolder'
  BY <1>1, <1>2, <1>3 DEF OneHolder
<1>7. MadeFits'
  BY <1>1, <1>2, <1>3 DEF MadeFits
<1>8. TreesFit'
  BY <1>1, <1>2, <1>3 DEF TreesFit
<1>9. HolderKnows'
  BY <1>1, <1>2, <1>3 DEF HolderKnows, OneHolder, MadeFits
<1>10. NamedByRecord'
  BY <1>1, <1>2, <1>3 DEF NamedByRecord, OneHolder, MadeFits, HolderKnows
<1>11. ArmedAlone'
  BY <1>1, <1>2, <1>3 DEF ArmedAlone
<1>12. ChecksPassed'
  BY <1>1, <1>2, <1>3 DEF ChecksPassed
<1>13. TypeOK'
  BY <1>1, <1>2, <1>3 DEF TypeOK, Processes, Records
<1>14. Turn(p)
  BY <1>1, <1>2, <1>3 DEF Turn, MayChange
<1> QED BY <1>4, <1>5, <1>6, <1>7, <1>8, <1>9, <1>10, <1>11, <1>12, <1>13,
       <1>14

(* A file system operation fails, or the attempt is killed.                *)
LEMMA ReconcileFailsStep ==
    ASSUME Counted, RestageInv, ReconcilerAlone, NEW p \in Attempts,
           ReconcileFails(p)
    PROVE  RestageInv' /\ Turn(p)
<1> USE DEF RestageInv, Counted, Steps, Holder, OwnerProcessIsLive,
      Early, Reconciling, Cleaning, Over, Sealed, Unpacked, Copied,
      HasControl, HasPayload, Building
<1>1. proc[p].pc \in {"clearing", "reading", "removingPayload",
        "tearingPayload", "removingControl", "tearingControl",
        "droppingRecord"}
  BY DEF ReconcileFails, At
<1>2. Steps(p, {"failed", "manual"}, proc[p].made)
  BY <1>1, LeaveSteps DEF ReconcileFails, At, Pcs, Working, Persists, MadeFits
<1>3. UNCHANGED <<defect, next, record, payload, control, journal, stray,
      deaths>>
  BY DEF ReconcileFails, tree
<1>4. faults' \in 0..MaxFaults
  BY DEF ReconcileFails, Faulty, TypeOK
<1>5. WritersArePast'
  BY <1>1, <1>2, <1>3, RecordNamed DEF WritersArePast, TypeOK
<1>6. RecordKept'
  BY <1>1, <1>2, <1>3 DEF RecordKept
<1>7. OneHolder'
  BY <1>1, <1>2, <1>3 DEF OneHolder
<1>8. MadeFits'
  BY <1>1, <1>2, <1>3 DEF MadeFits
<1>9. TreesFit'
  BY <1>1, <1>2, <1>3 DEF TreesFit
<1>10. HolderKnows'
  BY <1>1, <1>2, <1>3 DEF HolderKnows
<1>11. NamedByRecord'
  BY <1>1, <1>2, <1>3 DEF NamedByRecord
<1>12. ArmedAlone'
  BY <1>1, <1>2, <1>3 DEF ArmedAlone
<1>13. ChecksPassed'
  BY <1>1, <1>2, <1>3 DEF ChecksPassed
<1>14. TypeOK'
  BY <1>1, <1>2, <1>3, <1>4 DEF TypeOK, Processes
<1>15. Turn(p)
  BY <1>1, <1>2, <1>3 DEF Turn, MayChange
<1> QED BY <1>5, <1>6, <1>7, <1>8, <1>9, <1>10, <1>11, <1>12, <1>13, <1>14,
       <1>15

LEMMA PersistFailsStep ==
    ASSUME Counted, RestageInv, ReconcilerAlone, NEW p \in Attempts,
           PersistFails(p)
    PROVE  RestageInv' /\ Turn(p)
<1> USE DEF RestageInv, Counted, Steps, Holder, OwnerProcessIsLive,
      Early, Reconciling, Cleaning, Over, Sealed, Unpacked, Copied,
      HasControl, HasPayload, Building
<1>1. proc[p].pc \in {"recording", "recordingPayload", "recordingControl",
        "recordingCopy", "recordingFirst", "recordingSeal"}
  BY DEF PersistFails, At, Persists
<1>2. /\ Steps(p, {"cleaningPayload"}, proc[p].made)
      /\ \/ /\ next # NoRecord
            /\ proc[p].pc = "recording" => record = NoRecord
            /\ record' = next
            /\ next' = NoRecord
         \/ /\ record' = record
            /\ next' \in {next, NoRecord}
  BY <1>1, ThrowSteps DEF PersistFails, At, Persists
<1>3. UNCHANGED <<defect, payload, control, journal, stray, deaths>>
  BY DEF PersistFails, tree
<1>4. faults' \in 0..MaxFaults
  BY DEF PersistFails, Faulty, TypeOK
<1>5. WritersArePast'
  BY <1>1, <1>2, <1>3, RecordNamed DEF WritersArePast, TypeOK
<1>6. RecordKept'
  BY <1>1, <1>2, <1>3 DEF RecordKept, ReconcilerAlone
<1>7. OneHolder'
  BY <1>1, <1>2, <1>3 DEF OneHolder
<1>8. MadeFits'
  BY <1>1, <1>2, <1>3 DEF MadeFits
<1>9. TreesFit'
  BY <1>1, <1>2, <1>3 DEF TreesFit
<1>10. HolderKnows'
  BY <1>1, <1>2, <1>3 DEF HolderKnows, OneHolder, MadeFits
<1>11. NamedByRecord'
  BY <1>1, <1>2, <1>3 DEF NamedByRecord, OneHolder, MadeFits
<1>12. ArmedAlone'
  BY <1>1, <1>2, <1>3 DEF ArmedAlone
<1>13. ChecksPassed'
  BY <1>1, <1>2, <1>3 DEF ChecksPassed
<1>14. TypeOK'
  BY <1>1, <1>2, <1>3, <1>4 DEF TypeOK, Processes, Records
<1>15. Turn(p)
  BY <1>1, <1>2, <1>3 DEF Turn, MayChange
<1> QED BY <1>5, <1>6, <1>7, <1>8, <1>9, <1>10, <1>11, <1>12, <1>13, <1>14,
       <1>15

LEMMA MakeFailsStep ==
    ASSUME Counted, RestageInv, ReconcilerAlone, NEW p \in Attempts,
           MakeFails(p)
    PROVE  RestageInv' /\ Turn(p)
<1> USE DEF RestageInv, Counted, Steps, Holder, OwnerProcessIsLive,
      Early, Reconciling, Cleaning, Over, Sealed, Unpacked, Copied,
      HasControl, HasPayload, Building
<1>1. proc[p].pc \in {"makingPayload", "openingPayload", "markingPayload",
        "makingControl", "openingControl", "markingControl"}
  BY DEF MakeFails, At
<1>2. /\ Steps(p, {"cleaningPayload"}, proc[p].made)
      /\ \/ /\ proc[p].pc \in {"makingPayload", "makingControl"}
            /\ payload' = payload
            /\ control' = control
            /\ stray' = stray
         \/ /\ proc[p].pc \in {"openingPayload", "markingPayload"}
            /\ payload' = Absent
            /\ control' = control
            /\ stray' = stray
         \/ /\ proc[p].pc \in {"openingControl", "markingControl"}
            /\ control' = Absent
            /\ payload' = payload
            /\ stray' = stray
         \/ /\ proc[p].pc \in {"openingPayload", "markingPayload"}
            /\ payload'.by = p
            /\ payload' \in Dirs
            /\ control' = control
            /\ stray' = TRUE
         \/ /\ proc[p].pc \in {"openingControl", "markingControl"}
            /\ control'.by = p
            /\ control' \in Dirs
            /\ payload' = payload
            /\ stray' = TRUE
  <2>1. Steps(p, {"cleaningPayload"}, proc[p].made)
    BY ThrowSteps DEF MakeFails
  <2>2. /\ HalfMade(p, payload, "openingPayload", "markingPayload")
              <=> proc[p].pc \in {"openingPayload", "markingPayload"}
        /\ HalfMade(p, control, "openingControl", "markingControl")
              <=> proc[p].pc \in {"openingControl", "markingControl"}
    BY <1>1 DEF HalfMade, At, TreesFit
  <2>3. /\ proc[p].pc \in {"openingPayload", "markingPayload"} =>
              Emptied(payload) \in Dirs /\ Emptied(payload).by = p
        /\ proc[p].pc \in {"openingControl", "markingControl"} =>
              Emptied(control) \in Dirs /\ Emptied(control).by = p
    BY DirFields DEF Emptied, TreesFit, TypeOK, Dirs, Stages
  <2> QED BY <1>1, <2>1, <2>2, <2>3 DEF MakeFails, TypeOK, TreesFit
<1>3. UNCHANGED <<defect, next, record, journal, deaths>>
  BY DEF MakeFails
<1>4. faults' \in 0..MaxFaults
  BY DEF MakeFails, Faulty, TypeOK
<1>5. WritersArePast'
  BY <1>1, <1>2, <1>3, RecordNamed DEF WritersArePast, TypeOK
<1>6. RecordKept'
  BY <1>1, <1>2, <1>3 DEF RecordKept, ReconcilerAlone
<1>7. OneHolder'
  BY <1>1, <1>2, <1>3 DEF OneHolder
<1>8. MadeFits'
  BY <1>1, <1>2, <1>3 DEF MadeFits
<1>9. TreesFit'
  BY <1>1, <1>2, <1>3 DEF TreesFit
<1>10. HolderKnows'
  BY <1>1, <1>2, <1>3 DEF HolderKnows, OneHolder, MadeFits
<1>11. NamedByRecord'
  BY <1>1, <1>2, <1>3 DEF NamedByRecord, OneHolder, MadeFits
<1>12. ArmedAlone'
  BY <1>1, <1>2, <1>3 DEF ArmedAlone
<1>13. ChecksPassed'
  BY <1>1, <1>2, <1>3 DEF ChecksPassed
<1>14. TypeOK'
  BY <1>1, <1>2, <1>3, <1>4 DEF TypeOK, Processes, Dirs
<1>15. Turn(p)
  BY <1>1, <1>2, <1>3 DEF Turn, MayChange, TypeOK, TreesFit
<1> QED BY <1>5, <1>6, <1>7, <1>8, <1>9, <1>10, <1>11, <1>12, <1>13, <1>14,
       <1>15

LEMMA UnpackFailsStep ==
    ASSUME Counted, RestageInv, ReconcilerAlone, NEW p \in Attempts,
           UnpackFails(p)
    PROVE  RestageInv' /\ Turn(p)
<1> USE DEF RestageInv, Counted, Steps, Holder, OwnerProcessIsLive,
      Early, Reconciling, Cleaning, Over, Sealed, Unpacked, Copied,
      HasControl, HasPayload, Building
<1>1. proc[p].pc \in {"copying", "extracting", "extractingRest",
        "unmarkingPayload", "unmarkingControl", "sealing", "retaining",
        "restaged"}
  BY DEF UnpackFails, At
<1>2. Steps(p, {"cleaningPayload"}, proc[p].made)
  BY <1>1, ThrowSteps DEF UnpackFails, At, Pcs, Working, Persists
<1>3. UNCHANGED <<defect, next, record, payload, control, journal, stray,
      deaths>>
  BY DEF UnpackFails, tree
<1>4. faults' \in 0..MaxFaults
  BY DEF UnpackFails, Faulty, TypeOK
<1>5. WritersArePast'
  BY <1>1, <1>2, <1>3, RecordNamed DEF WritersArePast, TypeOK
<1>6. RecordKept'
  BY <1>1, <1>2, <1>3 DEF RecordKept
<1>7. OneHolder'
  BY <1>1, <1>2, <1>3 DEF OneHolder
<1>8. MadeFits'
  BY <1>1, <1>2, <1>3 DEF MadeFits
<1>9. TreesFit'
  BY <1>1, <1>2, <1>3 DEF TreesFit
<1>10. HolderKnows'
  BY <1>1, <1>2, <1>3 DEF HolderKnows
<1>11. NamedByRecord'
  BY <1>1, <1>2, <1>3 DEF NamedByRecord
<1>12. ArmedAlone'
  BY <1>1, <1>2, <1>3 DEF ArmedAlone
<1>13. ChecksPassed'
  BY <1>1, <1>2, <1>3 DEF ChecksPassed
<1>14. TypeOK'
  BY <1>1, <1>2, <1>3, <1>4 DEF TypeOK, Processes
<1>15. Turn(p)
  BY <1>1, <1>2, <1>3 DEF Turn, MayChange
<1> QED BY <1>5, <1>6, <1>7, <1>8, <1>9, <1>10, <1>11, <1>12, <1>13, <1>14,
       <1>15

LEMMA JournalFailsStep ==
    ASSUME Counted, RestageInv, ReconcilerAlone, NEW p \in Attempts,
           JournalFails(p)
    PROVE  RestageInv' /\ Turn(p)
<1> USE DEF RestageInv, Counted, Steps, Holder, OwnerProcessIsLive,
      Early, Reconciling, Cleaning, Over, Sealed, Unpacked, Copied,
      HasControl, HasPayload, Building
<1>1. proc[p].pc = "restaged"
  BY DEF JournalFails, At
<1>2. /\ journal' = p
      /\ Steps(p, {"cleaningPayload"}, proc[p].made)
  BY <1>1, ThrowSteps DEF JournalFails, At, Pcs, Working, Persists
<1>3. UNCHANGED <<defect, next, record, payload, control, stray, deaths>>
  BY DEF JournalFails, tree
<1>4. faults' \in 0..MaxFaults
  BY DEF JournalFails, Faulty, TypeOK
<1>5. WritersArePast'
  BY <1>1, <1>2, <1>3, RecordNamed DEF WritersArePast, TypeOK
<1>6. RecordKept'
  BY <1>1, <1>2, <1>3 DEF RecordKept
<1>7. OneHolder'
  BY <1>1, <1>2, <1>3 DEF OneHolder
<1>8. MadeFits'
  BY <1>1, <1>2, <1>3 DEF MadeFits
<1>9. TreesFit'
  BY <1>1, <1>2, <1>3 DEF TreesFit
<1>10. HolderKnows'
  BY <1>1, <1>2, <1>3 DEF HolderKnows
<1>11. NamedByRecord'
  BY <1>1, <1>2, <1>3 DEF NamedByRecord
<1>12. ArmedAlone'
  BY <1>1, <1>2, <1>3 DEF ArmedAlone
<1>13. ChecksPassed'
  BY <1>1, <1>2, <1>3 DEF ChecksPassed, MadeFits, OneHolder, TreesFit
<1>14. TypeOK'
  BY <1>1, <1>2, <1>3, <1>4 DEF TypeOK, Processes
<1>15. Turn(p)
  BY <1>1, <1>2, <1>3 DEF Turn, MayChange
<1> QED BY <1>5, <1>6, <1>7, <1>8, <1>9, <1>10, <1>11, <1>12, <1>13, <1>14,
       <1>15

LEMMA ArmFailsStep ==
    ASSUME Counted, RestageInv, ReconcilerAlone, NEW p \in Attempts,
           ArmFails(p)
    PROVE  RestageInv' /\ Turn(p)
<1> USE DEF RestageInv, Counted, Steps, Holder, OwnerProcessIsLive,
      Early, Reconciling, Cleaning, Over, Sealed, Unpacked, Copied,
      HasControl, HasPayload, Building
<1>1. proc[p].pc = "journaled"
  BY DEF ArmFails, At
<1>2. Steps(p, {"cleaningPayload"}, {})
  BY DropSteps DEF ArmFails
<1>3. UNCHANGED <<defect, next, record, payload, control, journal, stray,
      deaths>>
  BY DEF ArmFails, tree
<1>4. faults' \in 0..MaxFaults
  BY DEF ArmFails, Faulty, TypeOK
<1>5. WritersArePast'
  BY <1>1, <1>2, <1>3, RecordNamed DEF WritersArePast, TypeOK
<1>6. RecordKept'
  BY <1>1, <1>2, <1>3 DEF RecordKept
<1>7. OneHolder'
  BY <1>1, <1>2, <1>3 DEF OneHolder
<1>8. MadeFits'
  BY <1>1, <1>2, <1>3 DEF MadeFits
<1>9. TreesFit'
  BY <1>1, <1>2, <1>3 DEF TreesFit
<1>10. HolderKnows'
  BY <1>1, <1>2, <1>3 DEF HolderKnows
<1>11. NamedByRecord'
  BY <1>1, <1>2, <1>3 DEF NamedByRecord
<1>12. ArmedAlone'
  BY <1>1, <1>2, <1>3 DEF ArmedAlone
<1>13. ChecksPassed'
  BY <1>1, <1>2, <1>3 DEF ChecksPassed
<1>14. TypeOK'
  BY <1>1, <1>2, <1>3, <1>4 DEF TypeOK, Processes
<1>15. Turn(p)
  BY <1>1, <1>2, <1>3 DEF Turn, MayChange
<1> QED BY <1>5, <1>6, <1>7, <1>8, <1>9, <1>10, <1>11, <1>12, <1>13, <1>14,
       <1>15

LEMMA CleanFailsStep ==
    ASSUME Counted, RestageInv, ReconcilerAlone, NEW p \in Attempts,
           CleanFails(p)
    PROVE  RestageInv' /\ Turn(p)
<1> USE DEF RestageInv, Counted, Steps, Holder, OwnerProcessIsLive,
      Early, Reconciling, Cleaning, Over, Sealed, Unpacked, Copied,
      HasControl, HasPayload, Building
<1>1. proc[p].pc \in {"cleaningPayload", "cleaningControl", "cleaningRecord"}
  BY DEF CleanFails, At
<1>2. \/ /\ proc[p].pc = "cleaningPayload"
         /\ "payload" \in proc[p].made
         /\ payload.by = p
         /\ payload'.by = p
         /\ payload' \in Dirs
         /\ control' = control
         /\ Steps(p, {"cleaningControl"}, proc[p].made)
      \/ /\ proc[p].pc = "cleaningControl"
         /\ "control" \in proc[p].made
         /\ control.by = p
         /\ control'.by = p
         /\ control' \in Dirs
         /\ payload' = payload
         /\ Steps(p, {"cleaningRecord"}, proc[p].made)
      \/ /\ proc[p].pc = "cleaningRecord"
         /\ payload' = payload
         /\ control' = control
         /\ Steps(p, {"failed", "manual"}, {})
  BY <1>1, GotoSteps, LeaveSteps, DirFields, TornDir DEF CleanFails, At, Pcs,
       Working,       Persists, TypeOK, Dirs, Absent, Stages, Torn, tree
<1>3. UNCHANGED <<defect, next, record, journal, stray, deaths>>
  BY DEF CleanFails, tree
<1>4. faults' \in 0..MaxFaults
  BY DEF CleanFails, Faulty, TypeOK
<1>5. WritersArePast'
  BY <1>1, <1>2, <1>3, RecordNamed DEF WritersArePast, TypeOK
<1>6. RecordKept'
  BY <1>1, <1>2, <1>3 DEF RecordKept, ReconcilerAlone
<1>7. OneHolder'
  BY <1>1, <1>2, <1>3 DEF OneHolder
<1>8. MadeFits'
  BY <1>1, <1>2, <1>3 DEF MadeFits
<1>9. TreesFit'
  BY <1>1, <1>2, <1>3 DEF TreesFit
<1>10. HolderKnows'
  BY <1>1, <1>2, <1>3 DEF HolderKnows, OneHolder, MadeFits
<1>11. NamedByRecord'
  BY <1>1, <1>2, <1>3 DEF NamedByRecord, OneHolder, MadeFits
<1>12. ArmedAlone'
  BY <1>1, <1>2, <1>3 DEF ArmedAlone
<1>13. ChecksPassed'
  BY <1>1, <1>2, <1>3 DEF ChecksPassed
<1>14. TypeOK'
  BY <1>1, <1>2, <1>3, <1>4 DEF TypeOK, Processes
<1>15. Turn(p)
  BY <1>1, <1>2, <1>3 DEF Turn, MayChange, TypeOK
<1> QED BY <1>5, <1>6, <1>7, <1>8, <1>9, <1>10, <1>11, <1>12, <1>13, <1>14,
       <1>15

LEMMA DieStep ==
    ASSUME Counted, RestageInv, ReconcilerAlone, NEW p \in Attempts,
           Die(p)
    PROVE  RestageInv' /\ Turn(p)
<1> USE DEF RestageInv, Counted, Steps, Holder, OwnerProcessIsLive,
      Early, Reconciling, Cleaning, Over, Sealed, Unpacked, Copied,
      HasControl, HasPayload, Building
<1>1. proc[p].pc \notin Over \cup {"idle"}
  BY DEF Die
<1>2. /\ Steps(p, {"dead"}, {})
      /\ \/ /\ payload' = payload
            /\ control' = control
         \/ /\ "payload" \in proc[p].made
            /\ payload.by = p
            /\ payload'.by = p
            /\ payload' \in Dirs
            /\ control' = control
         \/ /\ "control" \in proc[p].made
            /\ control.by = p
            /\ control'.by = p
            /\ control' \in Dirs
            /\ payload' = payload
  BY <1>1, LeaveSteps, DirFields, TornDir DEF Die, At, Pcs, Working, Persists,
       TypeOK, Dirs, Absent, Stages, Torn, tree
<1>3. UNCHANGED <<defect, next, record, journal, stray, faults>>
  BY DEF Die, tree
<1>4. deaths' \in 0..MaxDeaths
  BY DEF Die, Faulty, TypeOK
<1>5. WritersArePast'
  BY <1>1, <1>2, <1>3, RecordNamed DEF WritersArePast, TypeOK
<1>6. RecordKept'
  BY <1>1, <1>2, <1>3 DEF RecordKept, ReconcilerAlone
<1>7. OneHolder'
  BY <1>1, <1>2, <1>3 DEF OneHolder
<1>8. MadeFits'
  BY <1>1, <1>2, <1>3 DEF MadeFits
<1>9. TreesFit'
  BY <1>1, <1>2, <1>3 DEF TreesFit
<1>10. HolderKnows'
  BY <1>1, <1>2, <1>3, DirFields DEF HolderKnows, OneHolder, MadeFits, TypeOK
<1>11. NamedByRecord'
  BY <1>1, <1>2, <1>3, DirFields DEF NamedByRecord, OneHolder, MadeFits,
       TypeOK
<1>12. ArmedAlone'
  BY <1>1, <1>2, <1>3 DEF ArmedAlone
<1>13. ChecksPassed'
  BY <1>1, <1>2, <1>3 DEF ChecksPassed
<1>14. TypeOK'
  BY <1>1, <1>2, <1>3, <1>4 DEF TypeOK, Processes
<1>15. Turn(p)
  BY <1>1, <1>2, <1>3 DEF Turn, MayChange, TypeOK
<1> QED BY <1>5, <1>6, <1>7, <1>8, <1>9, <1>10, <1>11, <1>12, <1>13, <1>14,
       <1>15

-----------------------------------------------------------------------------
LEMMA StepKeeps ==
    ASSUME Counted, RestageInv, ReconcilerAlone, Next
    PROVE  RestageInv' /\ \E p \in Attempts : Turn(p)
<1>1. PICK p \in Attempts :
        \/ Begin(p) \/ ClearTemporary(p) \/ ReadRecord(p)
        \/ RemoveRecordedPayload(p) \/ RemoveRecordedControl(p)
        \/ FinishRemoval(p) \/ DropRecord(p)
        \/ ClearForPersist(p) \/ LinkTemporary(p) \/ Publish(p)
        \/ MakePayload(p) \/ MakeControl(p) \/ CopyArchive(p)
        \/ ExtractFirst(p) \/ ExtractRest(p) \/ RemoveCleanupCookie(p)
        \/ SealPayload(p) \/ RetainRecord(p)
        \/ PersistJournal(p) \/ ArmForRecovery(p)
        \/ CleanPayload(p) \/ CleanControl(p) \/ CleanRecord(p)
        \/ ReconcileFails(p) \/ PersistFails(p) \/ MakeFails(p)
        \/ UnpackFails(p) \/ JournalFails(p) \/ ArmFails(p)
        \/ CleanFails(p) \/ Die(p)
  BY DEF Next
<1>2. RestageInv' /\ Turn(p)
  BY <1>1, BeginStep, ClearTemporaryStep, ReadRecordStep,
     RemoveRecordedPayloadStep, RemoveRecordedControlStep, FinishRemovalStep,
     DropRecordStep, ClearForPersistStep, LinkTemporaryStep, PublishStep,
     MakePayloadStep, MakeControlStep, CopyArchiveStep, ExtractFirstStep,
     ExtractRestStep, RemoveCleanupCookieStep, SealPayloadStep,
     RetainRecordStep, PersistJournalStep, ArmForRecoveryStep,
     CleanPayloadStep, CleanControlStep, CleanRecordStep, ReconcileFailsStep,
     PersistFailsStep, MakeFailsStep, UnpackFailsStep, JournalFailsStep,
     ArmFailsStep, CleanFailsStep, DieStep
<1> QED BY <1>2

LEMMA StutterKeeps ==
    ASSUME RestageInv, UNCHANGED vars
    PROVE  RestageInv'
  BY DEF vars, RestageInv, TypeOK, WritersArePast, RecordKept, OneHolder,
       MadeFits, TreesFit, HolderKnows, NamedByRecord, ArmedAlone, ChecksPassed,
       Holder, OwnerProcessIsLive

LEMMA RestageInit ==
    ASSUME Counted, Init
    PROVE  RestageInv
<1> USE DEF Init, Fresh, Counted
<1>1. TypeOK
  <2>1. NoRecord \in Records /\ Absent \in Dirs
    BY DEF Records, Dirs
  <2>2. Fresh \in [pc : Pcs, old : Records, mine : Records, temp : Temps,
                  made : SUBSET {"payload", "control", "record"}]
    BY <2>1 DEF Pcs, Temps
  <2>3. proc \in [Attempts ->
          [pc : Pcs, old : Records, mine : Records, temp : Temps,
           made : SUBSET {"payload", "control", "record"}]]
    BY <2>2
  <2>4. deaths \in 0..MaxDeaths /\ faults \in 0..MaxFaults
    OBVIOUS
  <2>5. stray \in BOOLEAN /\ journal \in Attempts \cup {"none"}
    BY Zenon
  <2> QED BY <2>1, <2>3, <2>4, <2>5 DEF TypeOK
<1>2. \A p \in Attempts : proc[p].pc = "idle" /\ proc[p].made = {}
  OBVIOUS
<1>3. WritersArePast /\ RecordKept /\ OneHolder /\ NamedByRecord
  BY <1>2 DEF WritersArePast, RecordKept, OneHolder, NamedByRecord, Holder,
       OwnerProcessIsLive, Reconciling
<1>4. MadeFits /\ TreesFit /\ HolderKnows /\ ArmedAlone /\ ChecksPassed
  BY <1>2 DEF MadeFits, TreesFit, HolderKnows, ArmedAlone, ChecksPassed, Holder,
       OwnerProcessIsLive, Building, HasPayload, HasControl, Copied, Unpacked,
       Sealed
<1> QED BY <1>1, <1>3, <1>4 DEF RestageInv

(* The invariant, for any set of attempts, as long as whoever cleans up    *)
(* after another does so alone (ReconcileRecoveryRecord).                  *)
THEOREM RestageInvariance ==
    ASSUME Counted
    PROVE  Spec /\ []ReconcilerAlone => []RestageInv
<1>1. Init => RestageInv
  BY RestageInit
<1>2. RestageInv /\ ReconcilerAlone /\ [Next]_vars => RestageInv'
  BY StepKeeps, StutterKeeps
<1> QED BY <1>1, <1>2, PTL DEF Spec

-----------------------------------------------------------------------------
(* What follows from the invariant.                                        *)
LEMMA InvNamesRemains ==
    ASSUME RestageInv
    PROVE  RemainsAreNamed
  BY DEF RestageInv, NamedByRecord, RemainsAreNamed, tree

LEMMA InvIsIntact ==
    ASSUME Counted, RestageInv
    PROVE  RestagedIsIntact
<1> SUFFICES ASSUME NEW p \in Attempts, proc[p].pc \in {"journaled", "armed"}
             PROVE  /\ defect = "none" /\ journal = p
                    /\ payload = [by |-> p, stage |-> "bare"]
                    /\ control = [by |-> p, stage |-> "sealed"]
  BY DEF RestagedIsIntact
<1> USE DEF RestageInv, Sealed, Unpacked, Copied, HasControl, HasPayload
<1>1. defect = "none" /\ journal = p
  BY DEF ChecksPassed, TypeOK, Defects, Over, Cleaning
<1>2. /\ payload.by = p /\ payload.stage = "bare" /\ payload \in Dirs
      /\ control.by = p /\ control.stage = "sealed" /\ control \in Dirs
  BY DEF TreesFit, TypeOK
<1>3. \A dir \in Dirs, stage \in {"bare", "sealed"} :
        dir.by = p /\ dir.stage = stage => dir = [by |-> p, stage |-> stage]
  BY DEF Dirs, Absent, Counted
<1> QED BY <1>1, <1>2, <1>3

-----------------------------------------------------------------------------
(* At most two attempts: the one that is cleaned up after is over, and it  *)
(* is the only other one.                                                  *)
PriorIsOver ==
    \A p \in Attempts : proc[p].pc \in Reconciling =>
        \A q \in Attempts \ {p} : proc[q].pc \in Over

LEMMA PriorStaysOver ==
    ASSUME Counted, TwoAttempts, RestageInv, PriorIsOver, Next
    PROVE  RestageInv' /\ PriorIsOver'
<1>1. ReconcilerAlone
  BY DEF PriorIsOver, ReconcilerAlone
<1>2. RestageInv' /\ \E a \in Attempts : Turn(a)
  BY <1>1, StepKeeps
<1>3. PICK a \in Attempts : Turn(a)
  BY <1>2
<1>4. ASSUME NEW p \in Attempts, proc'[p].pc \in Reconciling,
             NEW q \in Attempts \ {p}
      PROVE  proc'[q].pc \in Over
  <2>1. CASE p # a
    BY <1>3, <1>4, <2>1 DEF Turn, PriorIsOver
  <2>2. CASE p = a /\ proc[p].pc \in Reconciling
    BY <1>3, <1>4, <2>2 DEF Turn, PriorIsOver
  <2>3. CASE p = a /\ proc[p].pc \notin Reconciling
    <3>1. /\ proc[p].pc = "reading" /\ record # NoRecord
          /\ ~OwnerProcessIsLive(record.by)
      BY <1>3, <1>4, <2>3 DEF Turn
    <3>2. record.by \in Attempts /\ proc[record.by].pc \notin Early
      BY <3>1, RecordNamed DEF RestageInv, WritersArePast
    <3>3. record.by # p
      BY <3>1, <3>2 DEF Early
    <3>4. q = record.by
      BY <3>2, <3>3 DEF TwoAttempts
    <3>5. proc[q].pc \in Over
      BY <3>1, <3>2, <3>4 DEF OwnerProcessIsLive, Early, Over
    <3> QED BY <1>3, <2>3, <3>5 DEF Turn
  <2> QED BY <2>1, <2>2, <2>3
<1> QED BY <1>2, <1>4 DEF PriorIsOver

(* Two attempts never meet a third: the loser of the record gives up, and  *)
(* the record of the other is reconciled after its end only.               *)
THEOREM TwoReconcileAlone ==
    ASSUME Counted, TwoAttempts
    PROVE  Spec => []ReconcilerAlone
<1>1. Init => RestageInv /\ PriorIsOver
  <2>1. Init => PriorIsOver
    BY DEF Init, Fresh, PriorIsOver, Reconciling
  <2> QED BY <2>1, RestageInit
<1>2. RestageInv /\ PriorIsOver /\ [Next]_vars => RestageInv' /\ PriorIsOver'
  <2>1. CASE Next
    BY <2>1, PriorStaysOver
  <2>2. CASE UNCHANGED vars
    BY <2>2, StutterKeeps DEF vars, PriorIsOver
  <2> QED BY <2>1, <2>2
<1>3. PriorIsOver => ReconcilerAlone
  BY DEF PriorIsOver, ReconcilerAlone
<1> QED BY <1>1, <1>2, <1>3, PTL DEF Spec

-----------------------------------------------------------------------------
(* Any number of attempts, one after another: an attempt begins when no    *)
(* other one is running.                                                   *)
BeginsAlone ==
    \A p \in Attempts : proc[p].pc = "idle" /\ proc'[p].pc # "idle" =>
        \A q \in Attempts : ~OwnerProcessIsLive(q)

OneAfterAnother == [][BeginsAlone]_vars

OneLive ==
    \A p, q \in Attempts : OwnerProcessIsLive(p) /\ OwnerProcessIsLive(q) => p = q

LEMMA OneLiveStays ==
    ASSUME Counted, RestageInv, OneLive, Next, BeginsAlone
    PROVE  RestageInv' /\ OneLive'
<1>1. ReconcilerAlone
  BY DEF OneLive, ReconcilerAlone, OwnerProcessIsLive, Reconciling, Over,
       RestageInv, TypeOK
<1>2. RestageInv' /\ \E a \in Attempts : Turn(a)
  BY <1>1, StepKeeps
<1>3. PICK a \in Attempts : Turn(a)
  BY <1>2
<1>4. \A p \in Attempts \ {a} : ~OwnerProcessIsLive(p)
  <2>1. CASE proc[a].pc = "idle"
    BY <1>3, <2>1 DEF BeginsAlone, Turn
  <2>2. CASE proc[a].pc # "idle"
    BY <1>3, <2>2 DEF Turn, OneLive, OwnerProcessIsLive, Over
  <2> QED BY <2>1, <2>2
<1>5. \A p \in Attempts \ {a} : ~OwnerProcessIsLive(p)'
  BY <1>3, <1>4 DEF Turn, OwnerProcessIsLive
<1> QED BY <1>2, <1>5 DEF OneLive

THEOREM SerialReconcileAlone ==
    ASSUME Counted
    PROVE  Spec /\ OneAfterAnother => []ReconcilerAlone
<1>1. Init => RestageInv /\ OneLive
  <2>1. Init => OneLive
    BY DEF Init, Fresh, OneLive, OwnerProcessIsLive
  <2> QED BY <2>1, RestageInit
<1>2. RestageInv /\ OneLive /\ [Next]_vars /\ [BeginsAlone]_vars
        => RestageInv' /\ OneLive'
  <2>1. CASE Next /\ BeginsAlone
    BY <2>1, OneLiveStays
  <2>2. CASE UNCHANGED vars
    BY <2>2, StutterKeeps DEF vars, OneLive, OwnerProcessIsLive
  <2> QED BY <2>1, <2>2
<1>3. RestageInv /\ OneLive => ReconcilerAlone
  BY DEF OneLive, ReconcilerAlone, OwnerProcessIsLive, Reconciling, Over,
       RestageInv, TypeOK
<1> QED BY <1>1, <1>2, <1>3, PTL DEF Spec, OneAfterAnother

-----------------------------------------------------------------------------
(* The theorems.                                                           *)

(* For any set of attempts, deaths and faults: if nobody else runs while   *)
(* ReconcileRecoveryRecord cleans up, what is left is named, and what is   *)
(* journaled is whole and sound.                                           *)
THEOREM AloneIsEnough ==
    ASSUME Counted
    PROVE  Spec /\ []ReconcilerAlone => [](RemainsAreNamed /\ RestagedIsIntact)
<1>1. RestageInv => RemainsAreNamed /\ RestagedIsIntact
  BY InvNamesRemains, InvIsIntact
<1> QED BY <1>1, RestageInvariance, PTL

(* Retries: any number of attempts, each begun after the one before ended  *)
(* or was killed, keep the same promises.                                  *)
THEOREM RetriesAreSafe ==
    ASSUME Counted
    PROVE  Spec /\ OneAfterAnother => [](RemainsAreNamed /\ RestagedIsIntact)
  BY AloneIsEnough, SerialReconcileAlone, PTL

-----------------------------------------------------------------------------
(* Types, for any set of attempts.                                         *)
LEMMA TypeStep ==
    ASSUME Counted, TypeOK, Next
    PROVE  TypeOK'
<1> USE DEF Steps, At
<1>1. PICK p \in Attempts :
        \/ Begin(p) \/ ClearTemporary(p) \/ ReadRecord(p)
        \/ RemoveRecordedPayload(p) \/ RemoveRecordedControl(p)
        \/ FinishRemoval(p) \/ DropRecord(p)
        \/ ClearForPersist(p) \/ LinkTemporary(p) \/ Publish(p)
        \/ MakePayload(p) \/ MakeControl(p) \/ CopyArchive(p)
        \/ ExtractFirst(p) \/ ExtractRest(p) \/ RemoveCleanupCookie(p)
        \/ SealPayload(p) \/ RetainRecord(p)
        \/ PersistJournal(p) \/ ArmForRecovery(p)
        \/ CleanPayload(p) \/ CleanControl(p) \/ CleanRecord(p)
        \/ ReconcileFails(p) \/ PersistFails(p) \/ MakeFails(p)
        \/ UnpackFails(p) \/ JournalFails(p) \/ ArmFails(p)
        \/ CleanFails(p) \/ Die(p)
  BY DEF Next
<1>2. CASE Begin(p)
  BY <1>2, GotoSteps, ThrowSteps DEF Begin, TypeOK, Processes, Pcs, Working,
       Persists, tree
<1>3. CASE ClearTemporary(p)
  BY <1>3, GotoSteps, ThrowSteps DEF ClearTemporary, TypeOK, Processes, Pcs,
       Working, Persists, tree, Records
<1>4. CASE ReadRecord(p)
  BY <1>4, GotoSteps, ThrowSteps DEF ReadRecord, TypeOK, Processes, Pcs,
       Working, Persists, tree
<1>5. CASE RemoveRecordedPayload(p)
  BY <1>5, GotoSteps, LeaveSteps, ThrowSteps, DirFields, TornDir DEF
       RemoveRecordedPayload, TypeOK, Processes, Pcs, Working, Persists,
       tree, Dirs
<1>6. CASE RemoveRecordedControl(p)
  BY <1>6, GotoSteps, LeaveSteps, ThrowSteps, DirFields, TornDir DEF
       RemoveRecordedControl, TypeOK, Processes, Pcs, Working, Persists,
       tree, Dirs
<1>7. CASE FinishRemoval(p)
  BY <1>7, GotoSteps, LeaveSteps, DirFields, TornDir DEF FinishRemoval,
       TypeOK, Processes, Pcs, Working, Persists, tree, Dirs
<1>8. CASE DropRecord(p)
  BY <1>8, GotoSteps, LeaveSteps DEF DropRecord, TypeOK, Processes, Pcs,
       Working, Persists, tree, Records
<1>9. CASE ClearForPersist(p)
  <2>1. proc' \in Processes
    BY <1>9 DEF ClearForPersist, TypeOK, Processes, Temps
  <2> QED BY <1>9, <2>1 DEF ClearForPersist, TypeOK, Processes, tree, Records
<1>10. CASE LinkTemporary(p)
  <2>1. proc' \in Processes
    <3>1. \/ proc' = [proc EXCEPT ![p].temp = "linked"]
          \/ Steps(p, {"cleaningPayload"}, proc[p].made)
      BY <1>10, ThrowSteps DEF LinkTemporary
    <3>2. CASE proc' = [proc EXCEPT ![p].temp = "linked"]
      BY <3>2 DEF TypeOK, Processes, Temps
    <3> QED BY <3>1, <3>2 DEF Steps
  <2>2. next' \in Records
    <3>1. RecordOf(p) \in Records
      BY RecordOfType
    <3> QED BY <1>10, <3>1 DEF LinkTemporary, TypeOK
  <2> QED BY <1>10, <2>1, <2>2 DEF LinkTemporary, TypeOK, Processes, tree
<1>11. CASE Publish(p)
  BY <1>11, GotoSteps, ThrowSteps DEF Publish, TypeOK, Processes, Pcs,
       Working, Persists, tree, Records
<1>12. CASE MakePayload(p)
  <2>1. proc' \in Processes
    <3>1. CASE proc[p].pc = "markingPayload"
      <4>1. CASE ~Throw(p)
        <5>1. proc' = [proc EXCEPT ![p].pc = "recordingPayload",
                                   ![p].made = proc[p].made \cup {"payload"}]
          BY <1>12, <3>1, <4>1, FollowValues DEF MakePayload, MarkDirectory
        <5>2. proc[p].made \cup {"payload"}
                 \in SUBSET {"payload", "control", "record"}
          BY DEF TypeOK
        <5>3. "recordingPayload" \in Pcs
          BY DEF Pcs, Working, Persists
        <5> HIDE DEF Steps
        <5>4. Steps(p, {"recordingPayload"}, proc[p].made \cup {"payload"})
          BY ONLY TypeOK, p \in Attempts, <5>1, <5>2, <5>3, KnowsSteps
        <5> QED BY <5>4 DEF Steps
      <4> QED BY <4>1, ThrowSteps
    <3>2. CASE proc[p].pc # "markingPayload"
      BY <1>12, <3>2, GotoSteps, ThrowSteps, FollowValues
         DEF MakePayload, MakeDirectory, OpenDirectory, Pcs, Working, Persists
    <3> QED BY <3>1, <3>2
  <2>2. payload' \in Dirs
    <3>1. \A stage \in {"made", "marking"} : [by |-> p, stage |-> stage] \in Dirs
      BY DEF Dirs, Stages
    <3>2. Absent \in Dirs
      BY DEF Dirs
    <3>3. CASE proc[p].pc = "markingPayload"
      <4>1. \/ InPayload(p, "marked") \/ payload' = payload
        BY <1>12, <3>3 DEF MakePayload, MarkDirectory, InPayload
      <4>2. "marked" \in Stages
        BY DEF Stages
      <4> QED BY <4>1, <4>2, StagedIn, DirAtStage DEF TypeOK
    <3>4. CASE proc[p].pc # "markingPayload"
      BY <1>12, <3>1, <3>2, <3>4 DEF MakePayload, MakeDirectory, OpenDirectory, TypeOK
    <3> QED BY <3>3, <3>4
  <2> QED BY <1>12, <2>1, <2>2 DEF MakePayload, TypeOK, Processes, tree
<1>13. CASE MakeControl(p)
  <2>1. proc' \in Processes
    <3>1. CASE proc[p].pc = "markingControl"
      <4>1. CASE ~Throw(p)
        <5>1. proc' = [proc EXCEPT ![p].pc = "recordingControl",
                                   ![p].made = proc[p].made \cup {"control"}]
          BY <1>13, <3>1, <4>1, FollowValues DEF MakeControl, MarkDirectory
        <5>2. proc[p].made \cup {"control"}
                 \in SUBSET {"payload", "control", "record"}
          BY DEF TypeOK
        <5>3. "recordingControl" \in Pcs
          BY DEF Pcs, Working, Persists
        <5> HIDE DEF Steps
        <5>4. Steps(p, {"recordingControl"}, proc[p].made \cup {"control"})
          BY ONLY TypeOK, p \in Attempts, <5>1, <5>2, <5>3, KnowsSteps
        <5> QED BY <5>4 DEF Steps
      <4> QED BY <4>1, ThrowSteps
    <3>2. CASE proc[p].pc # "markingControl"
      BY <1>13, <3>2, GotoSteps, ThrowSteps, FollowValues
         DEF MakeControl, MakeDirectory, OpenDirectory, Pcs, Working, Persists
    <3> QED BY <3>1, <3>2
  <2>2. control' \in Dirs
    <3>1. \A stage \in {"made", "marking"} : [by |-> p, stage |-> stage] \in Dirs
      BY DEF Dirs, Stages
    <3>2. Absent \in Dirs
      BY DEF Dirs
    <3>3. CASE proc[p].pc = "markingControl"
      <4>1. \/ InControl(p, "marked") \/ control' = control
        BY <1>13, <3>3 DEF MakeControl, MarkDirectory, InControl
      <4>2. "marked" \in Stages
        BY DEF Stages
      <4> QED BY <4>1, <4>2, StagedIn, DirAtStage DEF TypeOK
    <3>4. CASE proc[p].pc # "markingControl"
      BY <1>13, <3>1, <3>2, <3>4 DEF MakeControl, MakeDirectory, OpenDirectory, TypeOK
    <3> QED BY <3>3, <3>4
  <2> QED BY <1>13, <2>1, <2>2 DEF MakeControl, TypeOK, Processes, tree
<1>14. CASE CopyArchive(p)
  <2>1. proc' \in Processes
    BY <1>14, GotoSteps, ThrowSteps DEF CopyArchive, Pcs, Working, Persists
  <2>2. control' \in Dirs
    <3>1. {"copied"} \subseteq Stages
      BY DEF Stages
    <3> QED BY <1>14, <3>1, StagedDirs DEF CopyArchive, TypeOK
  <2> QED BY <1>14, <2>1, <2>2 DEF CopyArchive, TypeOK, Processes, tree
<1>15. CASE ExtractFirst(p)
  <2>1. proc' \in Processes
    BY <1>15, GotoSteps, ThrowSteps DEF ExtractFirst, Pcs, Working, Persists
  <2>2. payload' \in Dirs
    <3>1. {"first"} \subseteq Stages
      BY DEF Stages
    <3> QED BY <1>15, <3>1, StagedDirs DEF ExtractFirst, TypeOK
  <2> QED BY <1>15, <2>1, <2>2 DEF ExtractFirst, TypeOK, Processes, tree
<1>16. CASE ExtractRest(p)
  <2>1. proc' \in Processes
    BY <1>16, GotoSteps, ThrowSteps DEF ExtractRest, Pcs, Working, Persists
  <2>2. payload' \in Dirs
    <3>1. {"first", "more"} \subseteq Stages
      BY DEF Stages
    <3> QED BY <1>16, <3>1, StagedDirs DEF ExtractRest, TypeOK
  <2> QED BY <1>16, <2>1, <2>2 DEF ExtractRest, TypeOK, Processes, tree
<1>17. CASE RemoveCleanupCookie(p)
  <2>1. proc' \in Processes
    BY <1>17, GotoSteps, ThrowSteps DEF RemoveCleanupCookie, Pcs, Working, Persists
  <2>2. payload' \in Dirs /\ control' \in Dirs
    <3>1. {"bare"} \subseteq Stages
      BY DEF Stages
    <3> QED BY <1>17, <3>1, StagedDirs DEF RemoveCleanupCookie, TypeOK, tree
  <2> QED BY <1>17, <2>1, <2>2 DEF RemoveCleanupCookie, TypeOK, Processes, tree
<1>18. CASE SealPayload(p)
  <2>1. proc' \in Processes
    BY <1>18, GotoSteps, ThrowSteps DEF SealPayload, Pcs, Working, Persists
  <2>2. control' \in Dirs
    <3>1. {"sealed"} \subseteq Stages
      BY DEF Stages
    <3> QED BY <1>18, <3>1, StagedDirs DEF SealPayload, TypeOK
  <2> QED BY <1>18, <2>1, <2>2 DEF SealPayload, TypeOK, Processes, tree
<1>19. CASE RetainRecord(p)
  BY <1>19, GotoSteps, ThrowSteps DEF RetainRecord, TypeOK, Processes, Pcs,
       Working, Persists, tree
<1>20. CASE PersistJournal(p)
  BY <1>20, GotoSteps, ThrowSteps DEF PersistJournal, TypeOK, Processes, Pcs,
       Working, Persists, tree
<1>21. CASE ArmForRecovery(p)
  BY <1>21, GotoSteps, ThrowSteps DEF ArmForRecovery, TypeOK, Processes, Pcs,
       Working, Persists, tree, Records
<1>22. CASE CleanPayload(p)
  <2>1. proc' \in Processes
    <3>1. \/ proc' = [proc EXCEPT ![p].pc = "cleaningControl", ![p].made = proc[p].made]
          \/ proc' = [proc EXCEPT ![p].pc = "cleaningControl",
                                  ![p].made = proc[p].made \ {"payload"}]
      BY <1>22 DEF CleanPayload
    <3> QED BY <3>1 DEF TypeOK, Processes, Pcs
  <2>2. payload' \in Dirs
    BY <1>22 DEF CleanPayload, Dirs, TypeOK
  <2> QED BY <1>22, <2>1, <2>2 DEF CleanPayload, TypeOK, Processes, tree
<1>23. CASE CleanControl(p)
  <2>1. proc' \in Processes
    <3>1. \/ proc' = [proc EXCEPT ![p].pc = "cleaningRecord", ![p].made = proc[p].made]
          \/ proc' = [proc EXCEPT ![p].pc = "cleaningRecord",
                                  ![p].made = proc[p].made \ {"control"}]
      BY <1>23 DEF CleanControl
    <3> QED BY <3>1 DEF TypeOK, Processes, Pcs
  <2>2. control' \in Dirs
    BY <1>23 DEF CleanControl, Dirs, TypeOK
  <2> QED BY <1>23, <2>1, <2>2 DEF CleanControl, TypeOK, Processes, tree
<1>24. CASE CleanRecord(p)
  BY <1>24, GotoSteps, LeaveSteps DEF CleanRecord, TypeOK, Processes, Pcs,
       Working, Persists, tree, Records
<1>25. CASE ReconcileFails(p)
  BY <1>25, GotoSteps, LeaveSteps DEF ReconcileFails, TypeOK, Processes, Pcs,
       Working, Persists, tree, Faulty, Counted
<1>26. CASE PersistFails(p)
  BY <1>26, GotoSteps, ThrowSteps DEF PersistFails, TypeOK, Processes, Pcs,
       Working, Persists, tree, Faulty, Counted, Records
<1>27. CASE MakeFails(p)
  <2>1. proc' \in Processes
    BY <1>27, GotoSteps, ThrowSteps DEF MakeFails, Pcs, Working, Persists
  <2>2. payload' \in Dirs /\ control' \in Dirs
    <3>1. \A dir \in {payload, control} :
            dir.stage = "made" \/ dir.by = p => Emptied(dir) \in Dirs
      BY DirFields DEF Emptied, TypeOK, Dirs, Stages, Absent, Counted
    <3>2. Absent \in Dirs
      BY DEF Dirs
    <3> QED BY <1>27, <3>1, <3>2 DEF MakeFails, HalfMade, TypeOK
  <2>3. faults' \in 0..MaxFaults /\ stray' \in BOOLEAN
    <3>1. faults' \in 0..MaxFaults
      BY <1>27 DEF MakeFails, Faulty, TypeOK, Counted
    <3> QED BY <1>27, <3>1 DEF MakeFails, TypeOK
  <2> QED BY <1>27, <2>1, <2>2, <2>3 DEF MakeFails, TypeOK, Processes, tree
<1>28. CASE UnpackFails(p)
  BY <1>28, GotoSteps, ThrowSteps DEF UnpackFails, TypeOK, Processes, Pcs,
       Working, Persists, tree, Faulty, Counted
<1>29. CASE JournalFails(p)
  BY <1>29, GotoSteps, ThrowSteps DEF JournalFails, TypeOK, Processes, Pcs,
       Working, Persists, tree, Faulty, Counted
<1>30. CASE ArmFails(p)
  <2>1. proc' \in Processes
    BY <1>30, DropSteps DEF ArmFails, Steps
  <2>2. faults' \in 0..MaxFaults
    BY <1>30 DEF ArmFails, Faulty, TypeOK, Counted
  <2> QED BY <1>30, <2>1, <2>2 DEF ArmFails, TypeOK, Processes, tree
<1>31. CASE CleanFails(p)
  BY <1>31, GotoSteps, LeaveSteps, DirFields, TornDir DEF CleanFails, TypeOK,
       Processes, Pcs, Working, Persists, tree, Faulty, Counted, Dirs
<1>32. CASE Die(p)
  BY <1>32, GotoSteps, LeaveSteps, DirFields, TornDir DEF Die, TypeOK,
       Processes, Pcs, Working, Persists, tree, Counted, Dirs
<1> QED BY <1>1, <1>2, <1>3, <1>4, <1>5, <1>6, <1>7, <1>8, <1>9, <1>10,
       <1>11, <1>12, <1>13, <1>14, <1>15, <1>16, <1>17, <1>18, <1>19, <1>20,
       <1>21, <1>22, <1>23, <1>24, <1>25, <1>26, <1>27, <1>28, <1>29, <1>30,
       <1>31, <1>32

(* The files, the journal and every attempt of the Linux restage keep      *)
(* their types.                                                            *)
THEOREM TypeCorrect ==
    ASSUME Counted
    PROVE  Spec => []TypeOK
<1>1. Init => TypeOK
  BY RestageInit DEF RestageInv
<1>2. TypeOK /\ [Next]_vars => TypeOK'
  <2>1. CASE Next
    BY <2>1, TypeStep
  <2>2. CASE UNCHANGED vars
    BY <2>2 DEF vars, TypeOK
  <2> QED BY <2>1, <2>2
<1> QED BY <1>1, <1>2, PTL DEF Spec

-----------------------------------------------------------------------------
(* What the attempts do to each other's directories, for any set of them   *)
(* and with nothing assumed of the behaviour.                              *)

(* A record names the directories of its own author only, who has begun.   *)
TellsOwn(r) == \A dir \in {r.payload, r.control} : dir.by \in {r.by, "none"}

RecordsTellOwn ==
    \A r \in {next, record} :
        TellsOwn(r) /\ (r # NoRecord => proc[r.by].pc # "idle")

(* Whoever is cleaned up after is over for good.                           *)
PriorOver ==
    \A p \in Attempts : proc[p].pc \in Reconciling =>
        LET old == proc[p].old
        IN  TellsOwn(old) /\ old.by \in Attempts /\ proc[old.by].pc \in Over

SpareInv == TypeOK /\ RecordsTellOwn /\ PriorOver

(* When a step of p may change a directory.                                *)
Touches(p, dir, known) ==
    \/ dir' = dir \/ dir.by \in {p, "none"} \/ dir.stage = "made" \/ Opening(p)
    \/ proc[p].pc \in Reconciling /\ dir.by \in {proc[p].old.by, known.by}

Manner(p) ==
    /\ proc[p].pc \notin Over /\ proc'[p].pc # "idle"
    /\ \A q \in Attempts \ {p} : proc'[q] = proc[q]
    /\ next' \in {next, NoRecord, RecordOf(p)}
    /\ record' \in {record, NoRecord, next}
    /\ proc'[p].pc \in Reconciling =>
          \/ proc'[p].old = proc[p].old /\ proc[p].pc \in Reconciling
          \/ /\ proc'[p].old = record /\ record # NoRecord
             /\ ~OwnerProcessIsLive(record.by)
    /\ Touches(p, payload, proc[p].old.payload)
    /\ Touches(p, control, proc[p].old.control)

(* Attempt p goes to pc and keeps what it has read.                        *)
Keeps(p, pc) ==
    /\ proc'[p].pc = pc /\ proc'[p].old = proc[p].old
    /\ \A q \in Attempts \ {p} : proc'[q] = proc[q]

LEMMA GotoKeeps ==
    ASSUME TypeOK, NEW p \in Attempts, NEW pc, Goto(p, pc)
    PROVE  Keeps(p, pc)
  BY DEF TypeOK, Goto, Keeps

LEMMA LeaveMoves ==
    ASSUME TypeOK, NEW p \in Attempts, NEW pc, Leave(p, pc)
    PROVE  /\ proc'[p].pc = pc
           /\ \A q \in Attempts \ {p} : proc'[q] = proc[q]
  BY DEF TypeOK, Leave, Fresh

LEMMA ThrowKeeps ==
    ASSUME TypeOK, NEW p \in Attempts, Throw(p)
    PROVE  Keeps(p, "cleaningPayload")
  BY DEF TypeOK, Throw, Keeps

(* Every step of every action is of this kind.                             *)
LEMMA StepManner ==
    ASSUME Counted, TypeOK, Next
    PROVE  \E p \in Attempts : Manner(p)
<1> USE DEF Counted, Keeps, Manner, Touches, Opening, At, Over, Reconciling, tree
<1>1. PICK p \in Attempts :
        \/ Begin(p) \/ ClearTemporary(p) \/ ReadRecord(p)
        \/ RemoveRecordedPayload(p) \/ RemoveRecordedControl(p)
        \/ FinishRemoval(p) \/ DropRecord(p)
        \/ ClearForPersist(p) \/ LinkTemporary(p) \/ Publish(p)
        \/ MakePayload(p) \/ MakeControl(p) \/ CopyArchive(p)
        \/ ExtractFirst(p) \/ ExtractRest(p) \/ RemoveCleanupCookie(p)
        \/ SealPayload(p) \/ RetainRecord(p)
        \/ PersistJournal(p) \/ ArmForRecovery(p)
        \/ CleanPayload(p) \/ CleanControl(p) \/ CleanRecord(p)
        \/ ReconcileFails(p) \/ PersistFails(p) \/ MakeFails(p)
        \/ UnpackFails(p) \/ JournalFails(p) \/ ArmFails(p)
        \/ CleanFails(p) \/ Die(p)
  BY DEF Next
<1>2. CASE Begin(p)
  BY <1>2, GotoKeeps, ThrowKeeps DEF Begin, TypeOK
<1>3. CASE ClearTemporary(p)
  BY <1>3, GotoKeeps, ThrowKeeps DEF ClearTemporary, TypeOK
<1>4. CASE ReadRecord(p)
  BY <1>4, GotoKeeps, ThrowKeeps DEF ReadRecord, TypeOK, MayReconcile
<1>5. CASE RemoveRecordedPayload(p)
  BY <1>5, GotoKeeps, LeaveMoves DEF RemoveRecordedPayload, TypeOK, Owned,
       Pristine, VerifyCleanupCookieDirectory, VerifyPristineEmptyDirectory
<1>6. CASE RemoveRecordedControl(p)
  BY <1>6, GotoKeeps, LeaveMoves DEF RemoveRecordedControl, TypeOK, Owned,
       Pristine, VerifyCleanupCookieDirectory, VerifyPristineEmptyDirectory
<1>7. CASE FinishRemoval(p)
  BY <1>7, GotoKeeps, LeaveMoves DEF FinishRemoval, TypeOK
<1>8. CASE DropRecord(p)
  BY <1>8, LeaveMoves DEF DropRecord, TypeOK
<1>9. CASE ClearForPersist(p)
  BY <1>9, GotoKeeps, ThrowKeeps DEF ClearForPersist, TypeOK, Persists
<1>10. CASE LinkTemporary(p)
  BY <1>10, ThrowKeeps DEF LinkTemporary, TypeOK, Persists
<1>11. CASE Publish(p)
  BY <1>11, GotoKeeps, ThrowKeeps DEF Publish, TypeOK, Persists
<1>12. CASE MakePayload(p)
  BY <1>12, GotoKeeps, ThrowKeeps, FollowValues DEF MakePayload, TypeOK,
       MakeDirectory, OpenDirectory, MarkDirectory, Absent
<1>13. CASE MakeControl(p)
  BY <1>13, GotoKeeps, ThrowKeeps, FollowValues DEF MakeControl, TypeOK,
       MakeDirectory, OpenDirectory, MarkDirectory, Absent
<1>14. CASE CopyArchive(p)
  BY <1>14, GotoKeeps, ThrowKeeps DEF CopyArchive, TypeOK, InControl
<1>15. CASE ExtractFirst(p)
  BY <1>15, GotoKeeps, ThrowKeeps DEF ExtractFirst, TypeOK, InPayload
<1>16. CASE ExtractRest(p)
  BY <1>16, GotoKeeps, ThrowKeeps DEF ExtractRest, TypeOK, InPayload
<1>17. CASE RemoveCleanupCookie(p)
  BY <1>17, GotoKeeps, ThrowKeeps DEF RemoveCleanupCookie, TypeOK, InPayload, InControl
<1>18. CASE SealPayload(p)
  BY <1>18, GotoKeeps, ThrowKeeps DEF SealPayload, TypeOK, InControl
<1>19. CASE RetainRecord(p)
  BY <1>19, GotoKeeps, ThrowKeeps DEF RetainRecord, TypeOK
<1>20. CASE PersistJournal(p)
  BY <1>20, GotoKeeps, ThrowKeeps DEF PersistJournal, TypeOK
<1>21. CASE ArmForRecovery(p)
  BY <1>21, GotoKeeps, ThrowKeeps DEF ArmForRecovery, TypeOK
<1>22. CASE CleanPayload(p)
  BY <1>22, GotoKeeps, ThrowKeeps DEF CleanPayload, TypeOK
<1>23. CASE CleanControl(p)
  BY <1>23, GotoKeeps, ThrowKeeps DEF CleanControl, TypeOK
<1>24. CASE CleanRecord(p)
  BY <1>24, LeaveMoves DEF CleanRecord, TypeOK
<1>25. CASE ReconcileFails(p)
  BY <1>25, LeaveMoves DEF ReconcileFails, TypeOK
<1>26. CASE PersistFails(p)
  BY <1>26, GotoKeeps, ThrowKeeps DEF PersistFails, TypeOK, Persists
<1>27. CASE MakeFails(p)
  BY <1>27, GotoKeeps, ThrowKeeps DEF MakeFails, TypeOK, HalfMade
<1>28. CASE UnpackFails(p)
  BY <1>28, GotoKeeps, ThrowKeeps DEF UnpackFails, TypeOK
<1>29. CASE JournalFails(p)
  BY <1>29, GotoKeeps, ThrowKeeps DEF JournalFails, TypeOK
<1>30. CASE ArmFails(p)
  BY <1>30, GotoKeeps, ThrowKeeps DEF ArmFails, TypeOK
<1>31. CASE CleanFails(p)
  BY <1>31, GotoKeeps, LeaveMoves DEF CleanFails, TypeOK
<1>32. CASE Die(p)
  BY <1>32, LeaveMoves DEF Die, TypeOK,
       OwnerProcessIsLive
<1> QED BY <1>1, <1>2, <1>3, <1>4, <1>5, <1>6, <1>7, <1>8, <1>9, <1>10,
       <1>11, <1>12, <1>13, <1>14, <1>15, <1>16, <1>17, <1>18, <1>19, <1>20,
       <1>21, <1>22, <1>23, <1>24, <1>25, <1>26, <1>27, <1>28, <1>29, <1>30,
       <1>31, <1>32

LEMMA SpareStep ==
    ASSUME Counted, SpareInv, NEW p \in Attempts, Manner(p), TypeOK'
    PROVE  SpareInv'
<1> USE DEF SpareInv, Manner
<1>1. RecordsTellOwn'
  <2>1. TellsOwn(NoRecord) /\ TellsOwn(RecordOf(p))
    BY DEF TellsOwn, NoRecord, Absent, RecordOf, Known, Unlinked
  <2>2. RecordOf(p).by = p
    BY DEF RecordOf
  <2>3. \A r \in {next, record} : r # NoRecord => r.by \in Attempts
    BY RecordNamed DEF TypeOK
  <2>4. \A r \in {next, record} : r # NoRecord => proc'[r.by].pc # "idle"
    BY <2>3 DEF RecordsTellOwn
  <2>5. \A r \in {next, record, NoRecord, RecordOf(p)} :
          TellsOwn(r) /\ (r # NoRecord => proc'[r.by].pc # "idle")
    BY <2>1, <2>2, <2>4 DEF RecordsTellOwn
  <2> QED BY <2>5 DEF RecordsTellOwn, TellsOwn
<1>2. PriorOver'
  <2> SUFFICES ASSUME NEW q \in Attempts, proc'[q].pc \in Reconciling
               PROVE  /\ TellsOwn(proc'[q].old) /\ proc'[q].old.by \in Attempts
                      /\ proc'[proc'[q].old.by].pc \in Over
    BY DEF PriorOver, TellsOwn
  <2>1. \A a \in Attempts : proc[a].pc \in Over => proc'[a].pc \in Over
    OBVIOUS
  <2>2. CASE proc'[q].old = proc[q].old /\ proc[q].pc \in Reconciling
    BY <2>1, <2>2 DEF PriorOver
  <2>3. CASE q = p /\ proc'[p].old = record /\ record # NoRecord
             /\ ~OwnerProcessIsLive(record.by)
    <3>1. record.by \in Attempts /\ TellsOwn(record)
          /\ proc[record.by].pc \in Over
      BY <2>3, RecordNamed DEF RecordsTellOwn, TypeOK, OwnerProcessIsLive, Over
    <3> QED BY <2>1, <2>3, <3>1
  <2> QED BY <2>2, <2>3
<1> QED BY <1>1, <1>2

LEMMA SpareInvariance ==
    ASSUME Counted
    PROVE  Spec => []SpareInv
<1>1. Init => SpareInv
  <2>1. Init => TypeOK
    BY RestageInit DEF RestageInv
  <2>2. Init => RecordsTellOwn /\ PriorOver
    BY DEF Init, Fresh, RecordsTellOwn, PriorOver, TellsOwn, NoRecord, Absent,
         Reconciling
  <2> QED BY <2>1, <2>2 DEF SpareInv
<1>2. SpareInv /\ [Next]_vars => SpareInv'
  <2>1. CASE SpareInv /\ Next
    BY <2>1, TypeStep, StepManner, SpareStep DEF SpareInv
  <2>2. CASE SpareInv /\ UNCHANGED vars
    BY <2>2 DEF vars, SpareInv, TypeOK, RecordsTellOwn, PriorOver, TellsOwn
  <2> QED BY <2>1, <2>2
<1> QED BY <1>1, <1>2, PTL DEF Spec

LEMMA MannerSpares ==
    ASSUME Counted, SpareInv, NEW a \in Attempts, Manner(a),
           NEW p \in Attempts, NEW q \in Attempts, p # q, Works(p),
           proc'[q] # proc[q], ~Opening(q)
    PROVE  Spared(payload, p) /\ Spared(control, p)
<1>1. a = q
  BY DEF Manner
<1>2. proc[p].pc \notin Over
  BY DEF Works, OwnerProcessIsLive, Over
<1>3. proc[q].pc \in Reconciling =>
        p \notin {proc[q].old.by, proc[q].old.payload.by, proc[q].old.control.by}
  BY <1>2 DEF SpareInv, PriorOver, TellsOwn, Counted
<1> QED BY <1>1, <1>3 DEF Manner, Touches, Spared, Counted

(* Any number of attempts, dying and failing anywhere: the directory that  *)
(* a live one has marked is never changed by another that cleans up after  *)
(* a dead one (ReconcileRecoveryRecord), builds or cleans up after itself; *)
(* only CreateRecoverableDirectoryAt may remove it.                        *)
THEOREM LiveWorkIsSpared ==
    ASSUME Counted
    PROVE  Spec => LiveWorkSurvives
<1>1. SpareInv /\ [Next]_vars =>
        [\A p, q \in Attempts :
            /\ p # q /\ Works(p)
            /\ proc'[q] # proc[q] /\ ~Opening(q)
            => Spared(payload, p) /\ Spared(control, p)]_vars
  <2> SUFFICES ASSUME SpareInv, Next, NEW p \in Attempts, NEW q \in Attempts,
                      p # q, Works(p), proc'[q] # proc[q], ~Opening(q)
               PROVE  Spared(payload, p) /\ Spared(control, p)
    OBVIOUS
  <2>1. PICK a \in Attempts : Manner(a)
    BY StepManner DEF SpareInv
  <2> QED BY <2>1, MannerSpares
<1> QED BY <1>1, SpareInvariance, PTL DEF Spec, LiveWorkSurvives
=============================================================================
