------------------------ MODULE ArchiveRestageProofs ------------------------
(***************************************************************************)
(* Proofs about the Windows restage, for any set of attempts and any       *)
(* number of deaths and faults, and, at the end, about the instance that   *)
(* has both platforms: there the theorems of LinuxArchiveRestageProofs are *)
(* brought to the properties that TLC checks, whose history variable       *)
(* crowded is the hypothesis of those theorems.                            *)
(***************************************************************************)
EXTENDS MCArchiveRestage, TLAPS

-----------------------------------------------------------------------------
(* The inductive invariant.                                                *)

(* The attempt has no control file of its own yet.                         *)
Early == Sweeping \cup {"idle", "clearing", "looking", "creating", "naming"}

(* The attempt is over and does nothing any more.                          *)
Over == {"failed", "released", "dead"}

EarlyHasNothing ==
    \A p \in Attempts : proc[p].pc \in Early =>
        /\ control # p /\ journal # p
        /\ p \notin archive /\ payload[p] = "none"

(* The control file of a live attempt is its own until the release ...     *)
ControlHeld ==
    \A p \in Attempts : /\ proc[p].pc \in Building => control = p
                        /\ proc[p].pc = "moving" => control # p

(* ... and the one of an attempt that is over has one sweeper at most.     *)
SweeperAlone ==
    /\ \A p \in Attempts : proc[p].pc \in Sweeping =>
          /\ control = proc[p].prior /\ proc[p].prior \in Attempts
          /\ \A q \in Attempts : control = q => proc[q].pc \in Over
    /\ \A p, q \in Attempts :
          proc[p].pc \in Sweeping /\ proc[q].pc \in Sweeping => p = q

(* What an attempt that got this far has checked and made.                 *)
Sound == {"rooting", "extracting", "sealing", "restaged", "journaled", "moving"}

ChecksPassed ==
    \A p \in Attempts :
        /\ proc[p].pc \notin {"idle", "failed", "dead"} =>
              defect \notin {"request", "source"}
        /\ proc[p].pc \in Sound => defect # "digest"
        /\ proc[p].pc \in Sound \ {"rooting", "extracting"} =>
              defect \notin {"path", "entry"} /\ payload[p] = "full"
        /\ proc[p].pc \in {"restaged", "journaled", "moving"} =>
              defect # "inventory"
        /\ proc[p].pc \in {"journaled", "moving"} => journal = p

(* Deletions go from the payload to the control file.                      *)
DeletedInOrder ==
    \A p \in Attempts :
        /\ proc[p].pc \in {"sweepingArchive", "sweepingControl"} =>
              payload[proc[p].prior] \in {"none", "moved"}
        /\ proc[p].pc = "sweepingControl" => proc[p].prior \notin archive
        /\ faults = 0 /\ proc[p].pc \in {"droppingArchive", "droppingControl"} =>
              payload[p] = "none"
        /\ faults = 0 /\ proc[p].pc = "droppingControl" => p \notin archive

(* Without a fault every tree and every copy is named, a live one's too.   *)
EverythingNamed ==
    faults = 0 =>
        \A p \in Attempts :
            p \in archive \/ payload[p] \in {"part", "full"} =>
                p \in {control, journal}

(* The part of the invariant behind the safety of the files.               *)
FilesInv == /\ TypeOK /\ EarlyHasNothing /\ ControlHeld /\ SweeperAlone
            /\ ChecksPassed /\ DeletedInOrder /\ EverythingNamed

(* The temporary name belongs to the attempt that is about to rename it,   *)
(* or to one that died there.                                              *)
NextOwned ==
    /\ \A p \in Attempts : proc[p].pc = "naming" => next = p
    /\ \A q \in Attempts : next = q => proc[q].pc \in {"naming", "dead"}

(* What stands in the way of an attempt that has cleaned up was left by    *)
(* one that lives or died since.                                           *)
InTheWay ==
    /\ \A p \in Attempts : proc[p].since <= deaths
    /\ \A p, q \in Attempts :
          proc[p].pc \in Sweeping \cup {"looking", "creating"} /\ next = q =>
              proc[q].pc = "naming" \/ deaths > proc[p].since
    /\ \A p, q \in Attempts :
          faults = 0 /\ proc[p].pc \in {"creating", "naming"} /\ control = q =>
              proc[q].pc \notin Ended \/ deaths > proc[p].since

(* Without a fault only death leaves a control file behind, and a sound    *)
(* archive is given up only for a journal that is there.                   *)
OverWithoutFault ==
    faults = 0 =>
        /\ \A q \in Attempts :
              control = q => proc[q].pc \notin {"idle", "failed", "released"}
        /\ defect = "none" =>
              \A p \in Attempts : proc[p].pc \in Dropping => journal # "none"

RestageInv == FilesInv /\ NextOwned /\ InTheWay /\ OverWithoutFault

-----------------------------------------------------------------------------
Processes == [Attempts -> [pc : Pcs, prior : Owners, since : 0..MaxDeaths]]

(* Attempt p goes to one of pcs, and nothing else of any attempt changes.  *)
Moves(p, pcs) ==
    /\ proc' \in Processes
    /\ proc'[p].pc \in pcs
    /\ \A q \in Attempts \ {p} : proc'[q].pc = proc[q].pc
    /\ \A q \in Attempts :
          proc'[q].prior = proc[q].prior /\ proc'[q].since = proc[q].since

LEMMA GotoEffect ==
    ASSUME TypeOK, NEW p \in Attempts, NEW pc \in Pcs, Goto(p, pc)
    PROVE  Moves(p, {pc})
  BY DEF TypeOK, Goto, Moves, Processes

-----------------------------------------------------------------------------
(* Each action preserves the invariant: where the attempt was, what the    *)
(* action does, what it leaves alone, then the parts one by one.           *)
LEMMA DeleteOptionalRestageFileStep ==
    ASSUME RestageInv, NEW p \in Attempts, DeleteOptionalRestageFile(p)
    PROVE  RestageInv'
<1> USE WindowsRestageAssumption DEF RestageInv, FilesInv, Early, Over, Sound,
      Sweeping, Building, Dropping, Ended, Moves
<1>1. proc[p].pc = "clearing"
  BY DEF DeleteOptionalRestageFile, At
<1>2. \/ Moves(p, {"looking"}) /\ ~Live(next) /\ next' = "none"
      \/ Moves(p, {"failed"}) /\ Live(next) /\ next' = next
  BY <1>1, GotoEffect DEF DeleteOptionalRestageFile, At, Pcs, Deleted
<1>3. UNCHANGED <<defect, stage, control, archive, payload, journal, deaths,
     faults>>
  BY DEF DeleteOptionalRestageFile, made
<1>4. EarlyHasNothing'
  BY <1>1, <1>2, <1>3 DEF EarlyHasNothing, Live
<1>5. ControlHeld'
  BY <1>1, <1>2, <1>3 DEF ControlHeld, Live
<1>6. SweeperAlone'
  BY <1>1, <1>2, <1>3 DEF SweeperAlone, Live
<1>7. ChecksPassed'
  BY <1>1, <1>2, <1>3 DEF ChecksPassed, Live
<1>8. DeletedInOrder'
  BY <1>1, <1>2, <1>3 DEF DeletedInOrder, Live
<1>9. EverythingNamed'
  BY <1>1, <1>2, <1>3 DEF EverythingNamed, Live
<1>10. NextOwned'
  BY <1>1, <1>2, <1>3 DEF NextOwned, Live
<1>11. InTheWay'
  BY <1>1, <1>2, <1>3 DEF InTheWay, EarlyHasNothing, Live
<1>12. OverWithoutFault'
  BY <1>1, <1>2, <1>3 DEF OverWithoutFault, EarlyHasNothing, Live
<1>13. TypeOK'
  BY <1>1, <1>2, <1>3 DEF TypeOK, Processes, Owners
<1> QED BY <1>4, <1>5, <1>6, <1>7, <1>8, <1>9, <1>10, <1>11, <1>12, <1>13

(* CleanupPriorRestage: what is swept is nobody's but the one sweeper's.   *)
LEMMA SweepPayloadStep ==
    ASSUME RestageInv, NEW p \in Attempts, SweepPayload(p)
    PROVE  RestageInv'
<1> USE WindowsRestageAssumption DEF RestageInv, FilesInv, Early, Over, Sound,
      Sweeping, Building, Dropping, Ended, Moves
<1>1. proc[p].pc = "sweepingPayload"
  BY DEF SweepPayload, At
<1>2. /\ Moves(p, {"sweepingArchive"})
      /\ payload' \in [Attempts -> Trees]
      /\ proc[p].prior \in Attempts
      /\ payload'[proc[p].prior] \in {"none", "moved"}
      /\ \A q \in Attempts \ {proc[p].prior} : payload'[q] = payload[q]
  BY <1>1, GotoEffect DEF SweepPayload, At, Pcs, TypeOK, SweeperAlone, Trees
<1>3. UNCHANGED <<defect, stage, next, control, archive, journal, deaths, faults>>
  BY DEF SweepPayload, made
<1>4. EarlyHasNothing'
  BY <1>1, <1>2, <1>3 DEF EarlyHasNothing, SweeperAlone
<1>5. ControlHeld'
  BY <1>1, <1>2, <1>3 DEF ControlHeld
<1>6. SweeperAlone'
  BY <1>1, <1>2, <1>3 DEF SweeperAlone
<1>7. ChecksPassed'
  BY <1>1, <1>2, <1>3 DEF ChecksPassed, SweeperAlone
<1>8. DeletedInOrder'
  BY <1>1, <1>2, <1>3 DEF DeletedInOrder, SweeperAlone
<1>9. EverythingNamed'
  BY <1>1, <1>2, <1>3 DEF EverythingNamed
<1>10. NextOwned'
  BY <1>1, <1>2, <1>3 DEF NextOwned
<1>11. InTheWay'
  BY <1>1, <1>2, <1>3 DEF InTheWay
<1>12. OverWithoutFault'
  BY <1>1, <1>2, <1>3 DEF OverWithoutFault
<1>13. TypeOK'
  BY <1>1, <1>2, <1>3 DEF TypeOK, Processes, Owners
<1> QED BY <1>4, <1>5, <1>6, <1>7, <1>8, <1>9, <1>10, <1>11, <1>12, <1>13

LEMMA SweepArchiveStep ==
    ASSUME RestageInv, NEW p \in Attempts, SweepArchive(p)
    PROVE  RestageInv'
<1> USE WindowsRestageAssumption DEF RestageInv, FilesInv, Early, Over, Sound,
      Sweeping, Building, Dropping, Ended, Moves
<1>1. proc[p].pc = "sweepingArchive"
  BY DEF SweepArchive, At
<1>2. /\ Moves(p, {"sweepingControl"})
      /\ archive' = archive \ {proc[p].prior}
  BY <1>1, GotoEffect DEF SweepArchive, At, Pcs
<1>3. UNCHANGED <<defect, stage, next, control, payload, journal, deaths, faults>>
  BY DEF SweepArchive, made
<1>4. EarlyHasNothing'
  BY <1>1, <1>2, <1>3 DEF EarlyHasNothing
<1>5. ControlHeld'
  BY <1>1, <1>2, <1>3 DEF ControlHeld
<1>6. SweeperAlone'
  BY <1>1, <1>2, <1>3 DEF SweeperAlone
<1>7. ChecksPassed'
  BY <1>1, <1>2, <1>3 DEF ChecksPassed
<1>8. DeletedInOrder'
  BY <1>1, <1>2, <1>3 DEF DeletedInOrder
<1>9. EverythingNamed'
  BY <1>1, <1>2, <1>3 DEF EverythingNamed
<1>10. NextOwned'
  BY <1>1, <1>2, <1>3 DEF NextOwned
<1>11. InTheWay'
  BY <1>1, <1>2, <1>3 DEF InTheWay
<1>12. OverWithoutFault'
  BY <1>1, <1>2, <1>3 DEF OverWithoutFault
<1>13. TypeOK'
  BY <1>1, <1>2, <1>3 DEF TypeOK, Processes, Owners
<1> QED BY <1>4, <1>5, <1>6, <1>7, <1>8, <1>9, <1>10, <1>11, <1>12, <1>13

LEMMA SweepControlStep ==
    ASSUME RestageInv, NEW p \in Attempts, SweepControl(p)
    PROVE  RestageInv'
<1> USE WindowsRestageAssumption DEF RestageInv, FilesInv, Early, Over, Sound,
      Sweeping, Building, Dropping, Ended, Moves
<1>1. proc[p].pc = "sweepingControl"
  BY DEF SweepControl, At
<1>2. Moves(p, {"creating"}) /\ control' = "none"
  BY <1>1, GotoEffect DEF SweepControl, At, Pcs, SweeperAlone
<1>3. UNCHANGED <<defect, stage, next, archive, payload, journal, deaths, faults>>
  BY DEF SweepControl, made
<1>4. EarlyHasNothing'
  BY <1>1, <1>2, <1>3 DEF EarlyHasNothing
<1>5. ControlHeld'
  BY <1>1, <1>2, <1>3 DEF ControlHeld, SweeperAlone
<1>6. SweeperAlone'
  BY <1>1, <1>2, <1>3 DEF SweeperAlone
<1>7. ChecksPassed'
  BY <1>1, <1>2, <1>3 DEF ChecksPassed
<1>8. DeletedInOrder'
  BY <1>1, <1>2, <1>3 DEF DeletedInOrder
<1>9. EverythingNamed'
  BY <1>1, <1>2, <1>3 DEF EverythingNamed, SweeperAlone, DeletedInOrder
<1>10. NextOwned'
  BY <1>1, <1>2, <1>3 DEF NextOwned
<1>11. InTheWay'
  BY <1>1, <1>2, <1>3 DEF InTheWay
<1>12. OverWithoutFault'
  BY <1>1, <1>2, <1>3 DEF OverWithoutFault
<1>13. TypeOK'
  BY <1>1, <1>2, <1>3 DEF TypeOK, Processes, Owners
<1> QED BY <1>4, <1>5, <1>6, <1>7, <1>8, <1>9, <1>10, <1>11, <1>12, <1>13

(* CreateRestageControl: the first control file of the attempt's own.      *)
LEMMA CreateNextStep ==
    ASSUME RestageInv, NEW p \in Attempts, CreateNext(p)
    PROVE  RestageInv'
<1> USE WindowsRestageAssumption DEF RestageInv, FilesInv, Early, Over, Sound,
      Sweeping, Building, Dropping, Ended, Moves
<1>1. proc[p].pc = "creating"
  BY DEF CreateNext, At
<1>2. \/ Moves(p, {"naming"}) /\ next = "none" /\ next' = p
      \/ Moves(p, {"failed"}) /\ next # "none" /\ next' = next
  BY <1>1, GotoEffect DEF CreateNext, At, Pcs
<1>3. UNCHANGED <<defect, stage, control, archive, payload, journal, deaths,
     faults>>
  BY DEF CreateNext, made
<1>4. EarlyHasNothing'
  BY <1>1, <1>2, <1>3 DEF EarlyHasNothing
<1>5. ControlHeld'
  BY <1>1, <1>2, <1>3 DEF ControlHeld
<1>6. SweeperAlone'
  BY <1>1, <1>2, <1>3 DEF SweeperAlone
<1>7. ChecksPassed'
  BY <1>1, <1>2, <1>3 DEF ChecksPassed
<1>8. DeletedInOrder'
  BY <1>1, <1>2, <1>3 DEF DeletedInOrder
<1>9. EverythingNamed'
  BY <1>1, <1>2, <1>3 DEF EverythingNamed
<1>10. NextOwned'
  BY <1>1, <1>2, <1>3 DEF NextOwned
<1>11. InTheWay'
  BY <1>1, <1>2, <1>3 DEF InTheWay, EarlyHasNothing
<1>12. OverWithoutFault'
  BY <1>1, <1>2, <1>3 DEF OverWithoutFault, EarlyHasNothing
<1>13. TypeOK'
  BY <1>1, <1>2, <1>3 DEF TypeOK, Processes, Owners
<1> QED BY <1>4, <1>5, <1>6, <1>7, <1>8, <1>9, <1>10, <1>11, <1>12, <1>13

LEMMA RenameNextStep ==
    ASSUME RestageInv, NEW p \in Attempts, RenameNext(p)
    PROVE  RestageInv'
<1> USE WindowsRestageAssumption DEF RestageInv, FilesInv, Early, Over, Sound,
      Sweeping, Building, Dropping, Ended, Moves
<1>1. proc[p].pc = "naming"
  BY DEF RenameNext, At
<1>2. /\ next' = "none"
      /\ \/ Moves(p, {"flushing"}) /\ control = "none" /\ control' = p
         \/ Moves(p, {"failed"}) /\ control # "none" /\ control' = control
  BY <1>1, GotoEffect DEF RenameNext, At, Pcs
<1>3. UNCHANGED <<defect, stage, archive, payload, journal, deaths, faults>>
  BY DEF RenameNext, made
<1>4. EarlyHasNothing'
  BY <1>1, <1>2, <1>3 DEF EarlyHasNothing
<1>5. ControlHeld'
  BY <1>1, <1>2, <1>3 DEF ControlHeld, EarlyHasNothing
<1>6. SweeperAlone'
  BY <1>1, <1>2, <1>3 DEF SweeperAlone
<1>7. ChecksPassed'
  BY <1>1, <1>2, <1>3 DEF ChecksPassed
<1>8. DeletedInOrder'
  BY <1>1, <1>2, <1>3 DEF DeletedInOrder
<1>9. EverythingNamed'
  BY <1>1, <1>2, <1>3 DEF EverythingNamed
<1>10. NextOwned'
  BY <1>1, <1>2, <1>3 DEF NextOwned
<1>11. InTheWay'
  BY <1>1, <1>2, <1>3 DEF InTheWay, EarlyHasNothing
<1>12. OverWithoutFault'
  BY <1>1, <1>2, <1>3 DEF OverWithoutFault, EarlyHasNothing
<1>13. TypeOK'
  BY <1>1, <1>2, <1>3 DEF TypeOK, Processes, Owners
<1> QED BY <1>4, <1>5, <1>6, <1>7, <1>8, <1>9, <1>10, <1>11, <1>12, <1>13

LEMMA FlushControlStep ==
    ASSUME RestageInv, NEW p \in Attempts, FlushControl(p)
    PROVE  RestageInv'
<1> USE WindowsRestageAssumption DEF RestageInv, FilesInv, Early, Over, Sound,
      Sweeping, Building, Dropping, Ended, Moves
<1>1. proc[p].pc = "flushing"
  BY DEF FlushControl, At
<1>2. Moves(p, {"copying"})
  BY <1>1, GotoEffect DEF FlushControl, At, Pcs
<1>3. UNCHANGED <<defect, stage, next, control, archive, payload, journal, deaths,
     faults>>
  BY DEF FlushControl, made
<1>4. EarlyHasNothing'
  BY <1>1, <1>2, <1>3 DEF EarlyHasNothing
<1>5. ControlHeld'
  BY <1>1, <1>2, <1>3 DEF ControlHeld
<1>6. SweeperAlone'
  BY <1>1, <1>2, <1>3 DEF SweeperAlone
<1>7. ChecksPassed'
  BY <1>1, <1>2, <1>3 DEF ChecksPassed
<1>8. DeletedInOrder'
  BY <1>1, <1>2, <1>3 DEF DeletedInOrder
<1>9. EverythingNamed'
  BY <1>1, <1>2, <1>3 DEF EverythingNamed
<1>10. NextOwned'
  BY <1>1, <1>2, <1>3 DEF NextOwned
<1>11. InTheWay'
  BY <1>1, <1>2, <1>3 DEF InTheWay
<1>12. OverWithoutFault'
  BY <1>1, <1>2, <1>3 DEF OverWithoutFault
<1>13. TypeOK'
  BY <1>1, <1>2, <1>3 DEF TypeOK, Processes, Owners
<1> QED BY <1>4, <1>5, <1>6, <1>7, <1>8, <1>9, <1>10, <1>11, <1>12, <1>13

(* What the attempt makes has its nonce in the control file already.       *)
LEMMA CopyArchiveStep ==
    ASSUME RestageInv, NEW p \in Attempts, CopyArchive(p)
    PROVE  RestageInv'
<1> USE WindowsRestageAssumption DEF RestageInv, FilesInv, Early, Over, Sound,
      Sweeping, Building, Dropping, Ended, Moves
<1>1. proc[p].pc = "copying"
  BY DEF CopyArchive, At
<1>2. \/ Moves(p, {"copying"}) /\ archive' = archive \cup {p}
      \/ Moves(p, {"rooting"}) /\ defect # "digest" /\ archive' = archive \ {p}
      \/ Moves(p, {"droppingPayload"}) /\ defect = "digest" /\ archive' = archive
  BY <1>1, GotoEffect DEF CopyArchive, At, Pcs, CopyDigestMatches, Throw, TypeOK,
       Processes
<1>3. UNCHANGED <<defect, stage, next, control, payload, journal, deaths, faults>>
  BY DEF CopyArchive, made
<1>4. EarlyHasNothing'
  BY <1>1, <1>2, <1>3 DEF EarlyHasNothing
<1>5. ControlHeld'
  BY <1>1, <1>2, <1>3 DEF ControlHeld
<1>6. SweeperAlone'
  BY <1>1, <1>2, <1>3 DEF SweeperAlone
<1>7. ChecksPassed'
  BY <1>1, <1>2, <1>3 DEF ChecksPassed
<1>8. DeletedInOrder'
  BY <1>1, <1>2, <1>3 DEF DeletedInOrder, SweeperAlone
<1>9. EverythingNamed'
  BY <1>1, <1>2, <1>3 DEF EverythingNamed, ControlHeld
<1>10. NextOwned'
  BY <1>1, <1>2, <1>3 DEF NextOwned
<1>11. InTheWay'
  BY <1>1, <1>2, <1>3 DEF InTheWay
<1>12. OverWithoutFault'
  BY <1>1, <1>2, <1>3 DEF OverWithoutFault
<1>13. TypeOK'
  BY <1>1, <1>2, <1>3 DEF TypeOK, Processes, Owners
<1> QED BY <1>4, <1>5, <1>6, <1>7, <1>8, <1>9, <1>10, <1>11, <1>12, <1>13

LEMMA CreateRootStep ==
    ASSUME RestageInv, NEW p \in Attempts, CreateRoot(p)
    PROVE  RestageInv'
<1> USE WindowsRestageAssumption DEF RestageInv, FilesInv, Early, Over, Sound,
      Sweeping, Building, Dropping, Ended, Moves
<1>1. proc[p].pc = "rooting"
  BY DEF CreateRoot, At
<1>2. /\ Moves(p, {"extracting"})
      /\ payload' \in [Attempts -> Trees] /\ payload'[p] = "part"
      /\ \A q \in Attempts \ {p} : payload'[q] = payload[q]
  BY <1>1, GotoEffect DEF CreateRoot, At, Pcs, TypeOK, Trees
<1>3. UNCHANGED <<defect, stage, next, control, archive, journal, deaths, faults>>
  BY DEF CreateRoot, made
<1>4. EarlyHasNothing'
  BY <1>1, <1>2, <1>3 DEF EarlyHasNothing
<1>5. ControlHeld'
  BY <1>1, <1>2, <1>3 DEF ControlHeld
<1>6. SweeperAlone'
  BY <1>1, <1>2, <1>3 DEF SweeperAlone
<1>7. ChecksPassed'
  BY <1>1, <1>2, <1>3 DEF ChecksPassed
<1>8. DeletedInOrder'
  BY <1>1, <1>2, <1>3 DEF DeletedInOrder, SweeperAlone
<1>9. EverythingNamed'
  BY <1>1, <1>2, <1>3 DEF EverythingNamed, ControlHeld
<1>10. NextOwned'
  BY <1>1, <1>2, <1>3 DEF NextOwned
<1>11. InTheWay'
  BY <1>1, <1>2, <1>3 DEF InTheWay
<1>12. OverWithoutFault'
  BY <1>1, <1>2, <1>3 DEF OverWithoutFault
<1>13. TypeOK'
  BY <1>1, <1>2, <1>3 DEF TypeOK, Processes, Owners
<1> QED BY <1>4, <1>5, <1>6, <1>7, <1>8, <1>9, <1>10, <1>11, <1>12, <1>13

LEMMA ExtractStep ==
    ASSUME RestageInv, NEW p \in Attempts, Extract(p)
    PROVE  RestageInv'
<1> USE WindowsRestageAssumption DEF RestageInv, FilesInv, Early, Over, Sound,
      Sweeping, Building, Dropping, Ended, Moves
<1>1. proc[p].pc = "extracting"
  BY DEF Extract, At
<1>2. \/ /\ Moves(p, {"sealing"}) /\ defect \notin {"path", "entry"}
         /\ payload' \in [Attempts -> Trees] /\ payload'[p] = "full"
         /\ \A q \in Attempts \ {p} : payload'[q] = payload[q]
      \/ Moves(p, {"droppingPayload"}) /\ defect # "none" /\ payload' = payload
  BY <1>1, GotoEffect DEF Extract, At, Pcs, TypeOK, Trees, PreflightAccepts,
       ValidateArchivePath, Throw
<1>3. UNCHANGED <<defect, stage, next, control, archive, journal, deaths, faults>>
  BY DEF Extract, made
<1>4. EarlyHasNothing'
  BY <1>1, <1>2, <1>3 DEF EarlyHasNothing
<1>5. ControlHeld'
  BY <1>1, <1>2, <1>3 DEF ControlHeld
<1>6. SweeperAlone'
  BY <1>1, <1>2, <1>3 DEF SweeperAlone
<1>7. ChecksPassed'
  BY <1>1, <1>2, <1>3 DEF ChecksPassed
<1>8. DeletedInOrder'
  BY <1>1, <1>2, <1>3 DEF DeletedInOrder, SweeperAlone
<1>9. EverythingNamed'
  BY <1>1, <1>2, <1>3 DEF EverythingNamed, ControlHeld
<1>10. NextOwned'
  BY <1>1, <1>2, <1>3 DEF NextOwned
<1>11. InTheWay'
  BY <1>1, <1>2, <1>3 DEF InTheWay
<1>12. OverWithoutFault'
  BY <1>1, <1>2, <1>3 DEF OverWithoutFault
<1>13. TypeOK'
  BY <1>1, <1>2, <1>3 DEF TypeOK, Processes, Owners
<1> QED BY <1>4, <1>5, <1>6, <1>7, <1>8, <1>9, <1>10, <1>11, <1>12, <1>13

LEMMA SealStep ==
    ASSUME RestageInv, NEW p \in Attempts, Seal(p)
    PROVE  RestageInv'
<1> USE WindowsRestageAssumption DEF RestageInv, FilesInv, Early, Over, Sound,
      Sweeping, Building, Dropping, Ended, Moves
<1>1. proc[p].pc = "sealing"
  BY DEF Seal, At
<1>2. \/ Moves(p, {"restaged"}) /\ defect # "inventory"
      \/ Moves(p, {"droppingPayload"}) /\ defect # "none"
  BY <1>1, GotoEffect DEF Seal, At, Pcs, SealMatches, Throw
<1>3. UNCHANGED <<defect, stage, next, control, archive, payload, journal, deaths,
     faults>>
  BY DEF Seal, made
<1>4. EarlyHasNothing'
  BY <1>1, <1>2, <1>3 DEF EarlyHasNothing
<1>5. ControlHeld'
  BY <1>1, <1>2, <1>3 DEF ControlHeld
<1>6. SweeperAlone'
  BY <1>1, <1>2, <1>3 DEF SweeperAlone
<1>7. ChecksPassed'
  BY <1>1, <1>2, <1>3 DEF ChecksPassed
<1>8. DeletedInOrder'
  BY <1>1, <1>2, <1>3 DEF DeletedInOrder
<1>9. EverythingNamed'
  BY <1>1, <1>2, <1>3 DEF EverythingNamed
<1>10. NextOwned'
  BY <1>1, <1>2, <1>3 DEF NextOwned
<1>11. InTheWay'
  BY <1>1, <1>2, <1>3 DEF InTheWay
<1>12. OverWithoutFault'
  BY <1>1, <1>2, <1>3 DEF OverWithoutFault
<1>13. TypeOK'
  BY <1>1, <1>2, <1>3 DEF TypeOK, Processes, Owners
<1> QED BY <1>4, <1>5, <1>6, <1>7, <1>8, <1>9, <1>10, <1>11, <1>12, <1>13

(* The journal names the tree before the control file stops doing so.      *)
LEMMA PersistJournalStep ==
    ASSUME RestageInv, NEW p \in Attempts, PersistJournal(p)
    PROVE  RestageInv'
<1> USE WindowsRestageAssumption DEF RestageInv, FilesInv, Early, Over, Sound,
      Sweeping, Building, Dropping, Ended, Moves
<1>1. proc[p].pc = "restaged" /\ payload[p] = "full"
  BY DEF PersistJournal, At, ChecksPassed, Throw
<1>2. \/ Moves(p, {"journaled"}) /\ journal = "none" /\ journal' = p
      \/ Moves(p, {"droppingPayload"}) /\ journal # "none" /\ journal' = journal
  BY <1>1, GotoEffect DEF PersistJournal, At, Pcs, ChecksPassed, Throw
<1>3. UNCHANGED <<defect, stage, next, control, archive, payload, deaths, faults>>
  BY DEF PersistJournal, made
<1>4. EarlyHasNothing'
  BY <1>1, <1>2, <1>3 DEF EarlyHasNothing
<1>5. ControlHeld'
  BY <1>1, <1>2, <1>3 DEF ControlHeld
<1>6. SweeperAlone'
  BY <1>1, <1>2, <1>3 DEF SweeperAlone
<1>7. ChecksPassed'
  BY <1>1, <1>2, <1>3 DEF ChecksPassed
<1>8. DeletedInOrder'
  BY <1>1, <1>2, <1>3 DEF DeletedInOrder
<1>9. EverythingNamed'
  BY <1>1, <1>2, <1>3 DEF EverythingNamed
<1>10. NextOwned'
  BY <1>1, <1>2, <1>3 DEF NextOwned
<1>11. InTheWay'
  BY <1>1, <1>2, <1>3 DEF InTheWay
<1>12. OverWithoutFault'
  BY <1>1, <1>2, <1>3 DEF OverWithoutFault
<1>13. TypeOK'
  BY <1>1, <1>2, <1>3 DEF TypeOK, Processes, Owners
<1> QED BY <1>4, <1>5, <1>6, <1>7, <1>8, <1>9, <1>10, <1>11, <1>12, <1>13

LEMMA ReleaseToTransactionStep ==
    ASSUME RestageInv, NEW p \in Attempts, ReleaseToTransaction(p)
    PROVE  RestageInv'
<1> USE WindowsRestageAssumption DEF RestageInv, FilesInv, Early, Over, Sound,
      Sweeping, Building, Dropping, Ended, Moves
<1>1. proc[p].pc = "journaled" /\ journal = p
  BY DEF ReleaseToTransaction, At, ChecksPassed, ControlHeld, TypeOK
<1>2. Moves(p, {"moving"}) /\ control' = "none" /\ stage' \in BOOLEAN
  BY <1>1, GotoEffect DEF ReleaseToTransaction, At, Pcs, ChecksPassed,
       ControlHeld, TypeOK
<1>3. UNCHANGED <<defect, next, archive, payload, journal, deaths, faults>>
  BY DEF ReleaseToTransaction, made
<1>4. EarlyHasNothing'
  BY <1>1, <1>2, <1>3 DEF EarlyHasNothing
<1>5. ControlHeld'
  BY <1>1, <1>2, <1>3 DEF ControlHeld
<1>6. SweeperAlone'
  BY <1>1, <1>2, <1>3 DEF SweeperAlone, ControlHeld
<1>7. ChecksPassed'
  BY <1>1, <1>2, <1>3 DEF ChecksPassed
<1>8. DeletedInOrder'
  BY <1>1, <1>2, <1>3 DEF DeletedInOrder
<1>9. EverythingNamed'
  BY <1>1, <1>2, <1>3 DEF EverythingNamed, ControlHeld
<1>10. NextOwned'
  BY <1>1, <1>2, <1>3 DEF NextOwned
<1>11. InTheWay'
  BY <1>1, <1>2, <1>3 DEF InTheWay
<1>12. OverWithoutFault'
  BY <1>1, <1>2, <1>3 DEF OverWithoutFault
<1>13. TypeOK'
  BY <1>1, <1>2, <1>3 DEF TypeOK, Processes, Owners
<1> QED BY <1>4, <1>5, <1>6, <1>7, <1>8, <1>9, <1>10, <1>11, <1>12, <1>13

LEMMA RenameStageStep ==
    ASSUME RestageInv, NEW p \in Attempts, RenameStage(p)
    PROVE  RestageInv'
<1> USE WindowsRestageAssumption DEF RestageInv, FilesInv, Early, Over, Sound,
      Sweeping, Building, Dropping, Ended, Moves
<1>1. proc[p].pc = "moving" /\ journal = p
  BY DEF RenameStage, At, TypeOK, Trees, ChecksPassed
<1>2. /\ Moves(p, {"released"})
      /\ payload' \in [Attempts -> Trees] /\ payload'[p] = "moved"
      /\ \A q \in Attempts \ {p} : payload'[q] = payload[q]
  BY <1>1, GotoEffect DEF RenameStage, At, Pcs, TypeOK, Trees, ChecksPassed
<1>3. UNCHANGED <<defect, stage, next, control, archive, journal, deaths, faults>>
  BY DEF RenameStage, made
<1>4. EarlyHasNothing'
  BY <1>1, <1>2, <1>3 DEF EarlyHasNothing
<1>5. ControlHeld'
  BY <1>1, <1>2, <1>3 DEF ControlHeld
<1>6. SweeperAlone'
  BY <1>1, <1>2, <1>3 DEF SweeperAlone
<1>7. ChecksPassed'
  BY <1>1, <1>2, <1>3 DEF ChecksPassed
<1>8. DeletedInOrder'
  BY <1>1, <1>2, <1>3 DEF DeletedInOrder, SweeperAlone
<1>9. EverythingNamed'
  BY <1>1, <1>2, <1>3 DEF EverythingNamed
<1>10. NextOwned'
  BY <1>1, <1>2, <1>3 DEF NextOwned
<1>11. InTheWay'
  BY <1>1, <1>2, <1>3 DEF InTheWay, ControlHeld
<1>12. OverWithoutFault'
  BY <1>1, <1>2, <1>3 DEF OverWithoutFault, ControlHeld
<1>13. TypeOK'
  BY <1>1, <1>2, <1>3 DEF TypeOK, Processes, Owners
<1> QED BY <1>4, <1>5, <1>6, <1>7, <1>8, <1>9, <1>10, <1>11, <1>12, <1>13

(* ~Impl deletes the control file last.                                    *)
LEMMA DropPayloadStep ==
    ASSUME RestageInv, NEW p \in Attempts, DropPayload(p)
    PROVE  RestageInv'
<1> USE WindowsRestageAssumption DEF RestageInv, FilesInv, Early, Over, Sound,
      Sweeping, Building, Dropping, Ended, Moves
<1>1. proc[p].pc = "droppingPayload"
  BY DEF DropPayload, At
<1>2. /\ Moves(p, {"droppingArchive"})
      /\ payload' \in [Attempts -> Trees] /\ payload'[p] = "none"
      /\ \A q \in Attempts \ {p} : payload'[q] = payload[q]
  BY <1>1, GotoEffect DEF DropPayload, At, Pcs, TypeOK, Trees
<1>3. UNCHANGED <<defect, stage, next, control, archive, journal, deaths, faults>>
  BY DEF DropPayload, made
<1>4. EarlyHasNothing'
  BY <1>1, <1>2, <1>3 DEF EarlyHasNothing
<1>5. ControlHeld'
  BY <1>1, <1>2, <1>3 DEF ControlHeld
<1>6. SweeperAlone'
  BY <1>1, <1>2, <1>3 DEF SweeperAlone
<1>7. ChecksPassed'
  BY <1>1, <1>2, <1>3 DEF ChecksPassed
<1>8. DeletedInOrder'
  BY <1>1, <1>2, <1>3 DEF DeletedInOrder, SweeperAlone
<1>9. EverythingNamed'
  BY <1>1, <1>2, <1>3 DEF EverythingNamed
<1>10. NextOwned'
  BY <1>1, <1>2, <1>3 DEF NextOwned
<1>11. InTheWay'
  BY <1>1, <1>2, <1>3 DEF InTheWay
<1>12. OverWithoutFault'
  BY <1>1, <1>2, <1>3 DEF OverWithoutFault
<1>13. TypeOK'
  BY <1>1, <1>2, <1>3 DEF TypeOK, Processes, Owners
<1> QED BY <1>4, <1>5, <1>6, <1>7, <1>8, <1>9, <1>10, <1>11, <1>12, <1>13

LEMMA DropArchiveStep ==
    ASSUME RestageInv, NEW p \in Attempts, DropArchive(p)
    PROVE  RestageInv'
<1> USE WindowsRestageAssumption DEF RestageInv, FilesInv, Early, Over, Sound,
      Sweeping, Building, Dropping, Ended, Moves
<1>1. proc[p].pc = "droppingArchive"
  BY DEF DropArchive, At
<1>2. Moves(p, {"droppingControl"}) /\ archive' = archive \ {p}
  BY <1>1, GotoEffect DEF DropArchive, At, Pcs
<1>3. UNCHANGED <<defect, stage, next, control, payload, journal, deaths, faults>>
  BY DEF DropArchive, made
<1>4. EarlyHasNothing'
  BY <1>1, <1>2, <1>3 DEF EarlyHasNothing
<1>5. ControlHeld'
  BY <1>1, <1>2, <1>3 DEF ControlHeld
<1>6. SweeperAlone'
  BY <1>1, <1>2, <1>3 DEF SweeperAlone
<1>7. ChecksPassed'
  BY <1>1, <1>2, <1>3 DEF ChecksPassed
<1>8. DeletedInOrder'
  BY <1>1, <1>2, <1>3 DEF DeletedInOrder
<1>9. EverythingNamed'
  BY <1>1, <1>2, <1>3 DEF EverythingNamed
<1>10. NextOwned'
  BY <1>1, <1>2, <1>3 DEF NextOwned
<1>11. InTheWay'
  BY <1>1, <1>2, <1>3 DEF InTheWay
<1>12. OverWithoutFault'
  BY <1>1, <1>2, <1>3 DEF OverWithoutFault
<1>13. TypeOK'
  BY <1>1, <1>2, <1>3 DEF TypeOK, Processes, Owners
<1> QED BY <1>4, <1>5, <1>6, <1>7, <1>8, <1>9, <1>10, <1>11, <1>12, <1>13

LEMMA DropControlStep ==
    ASSUME RestageInv, NEW p \in Attempts, DropControl(p)
    PROVE  RestageInv'
<1> USE WindowsRestageAssumption DEF RestageInv, FilesInv, Early, Over, Sound,
      Sweeping, Building, Dropping, Ended, Moves
<1>1. proc[p].pc = "droppingControl"
  BY DEF DropControl, At
<1>2. Moves(p, {"failed"}) /\ control' = IF control = p THEN "none" ELSE control
  BY <1>1, GotoEffect DEF DropControl, At, Pcs
<1>3. UNCHANGED <<defect, stage, next, archive, payload, journal, deaths, faults>>
  BY DEF DropControl, made
<1>4. EarlyHasNothing'
  BY <1>1, <1>2, <1>3 DEF EarlyHasNothing
<1>5. ControlHeld'
  BY <1>1, <1>2, <1>3 DEF ControlHeld
<1>6. SweeperAlone'
  BY <1>1, <1>2, <1>3 DEF SweeperAlone
<1>7. ChecksPassed'
  BY <1>1, <1>2, <1>3 DEF ChecksPassed
<1>8. DeletedInOrder'
  BY <1>1, <1>2, <1>3 DEF DeletedInOrder
<1>9. EverythingNamed'
  BY <1>1, <1>2, <1>3 DEF EverythingNamed, DeletedInOrder
<1>10. NextOwned'
  BY <1>1, <1>2, <1>3 DEF NextOwned
<1>11. InTheWay'
  BY <1>1, <1>2, <1>3 DEF InTheWay
<1>12. OverWithoutFault'
  BY <1>1, <1>2, <1>3 DEF OverWithoutFault
<1>13. TypeOK'
  BY <1>1, <1>2, <1>3 DEF TypeOK, Processes, Owners
<1> QED BY <1>4, <1>5, <1>6, <1>7, <1>8, <1>9, <1>10, <1>11, <1>12, <1>13

(* Faults and deaths.                                                      *)
LEMMA EarlyFaultStep ==
    ASSUME RestageInv, NEW p \in Attempts, EarlyFault(p)
    PROVE  RestageInv'
<1> USE WindowsRestageAssumption DEF RestageInv, FilesInv, Early, Over, Sound,
      Sweeping, Building, Dropping, Ended, Moves
<1>1. proc[p].pc \in Early \cup {"flushing"}
  BY DEF EarlyFault, At, Faulty, TypeOK
<1>2. /\ Moves(p, {"failed"}) /\ faults' # 0 /\ faults' \in 0..MaxFaults
      /\ next' = IF proc[p].pc = "naming" THEN "none" ELSE next
  BY <1>1, GotoEffect DEF EarlyFault, At, Pcs, Faulty, TypeOK
<1>3. UNCHANGED <<defect, stage, control, archive, payload, journal, deaths>>
  BY DEF EarlyFault, made
<1>4. EarlyHasNothing'
  BY <1>1, <1>2, <1>3 DEF EarlyHasNothing
<1>5. ControlHeld'
  BY <1>1, <1>2, <1>3 DEF ControlHeld
<1>6. SweeperAlone'
  BY <1>1, <1>2, <1>3 DEF SweeperAlone
<1>7. ChecksPassed'
  BY <1>1, <1>2, <1>3 DEF ChecksPassed
<1>8. DeletedInOrder'
  BY <1>1, <1>2, <1>3 DEF DeletedInOrder
<1>9. EverythingNamed'
  BY <1>1, <1>2, <1>3 DEF EverythingNamed
<1>10. NextOwned'
  BY <1>1, <1>2, <1>3 DEF NextOwned
<1>11. InTheWay'
  BY <1>1, <1>2, <1>3 DEF InTheWay
<1>12. OverWithoutFault'
  BY <1>1, <1>2, <1>3 DEF OverWithoutFault
<1>13. TypeOK'
  BY <1>1, <1>2, <1>3 DEF TypeOK, Processes, Owners
<1> QED BY <1>4, <1>5, <1>6, <1>7, <1>8, <1>9, <1>10, <1>11, <1>12, <1>13

LEMMA BuildFaultStep ==
    ASSUME RestageInv, NEW p \in Attempts, BuildFault(p)
    PROVE  RestageInv'
<1> USE WindowsRestageAssumption DEF RestageInv, FilesInv, Early, Over, Sound,
      Sweeping, Building, Dropping, Ended, Moves
<1>1. proc[p].pc \in {"copying", "rooting", "extracting", "sealing", "restaged"}
  BY DEF BuildFault, At
<1>2. Moves(p, {"droppingPayload"}) /\ faults' # 0 /\ faults' \in 0..MaxFaults
  BY <1>1, GotoEffect DEF BuildFault, At, Pcs, Faulty, TypeOK, Throw
<1>3. UNCHANGED <<defect, stage, next, control, archive, payload, journal, deaths>>
  BY DEF BuildFault, made
<1>4. EarlyHasNothing'
  BY <1>1, <1>2, <1>3 DEF EarlyHasNothing
<1>5. ControlHeld'
  BY <1>1, <1>2, <1>3 DEF ControlHeld
<1>6. SweeperAlone'
  BY <1>1, <1>2, <1>3 DEF SweeperAlone
<1>7. ChecksPassed'
  BY <1>1, <1>2, <1>3 DEF ChecksPassed
<1>8. DeletedInOrder'
  BY <1>1, <1>2, <1>3 DEF DeletedInOrder
<1>9. EverythingNamed'
  BY <1>1, <1>2, <1>3 DEF EverythingNamed
<1>10. NextOwned'
  BY <1>1, <1>2, <1>3 DEF NextOwned
<1>11. InTheWay'
  BY <1>1, <1>2, <1>3 DEF InTheWay
<1>12. OverWithoutFault'
  BY <1>1, <1>2, <1>3 DEF OverWithoutFault
<1>13. TypeOK'
  BY <1>1, <1>2, <1>3 DEF TypeOK, Processes, Owners
<1> QED BY <1>4, <1>5, <1>6, <1>7, <1>8, <1>9, <1>10, <1>11, <1>12, <1>13

LEMMA ReleaseFaultStep ==
    ASSUME RestageInv, NEW p \in Attempts, ReleaseFault(p)
    PROVE  RestageInv'
<1> USE WindowsRestageAssumption DEF RestageInv, FilesInv, Early, Over, Sound,
      Sweeping, Building, Dropping, Ended, Moves
<1>1. proc[p].pc \in {"journaled", "moving"}
  BY DEF ReleaseFault, At
<1>2. Moves(p, {"failed"}) /\ faults' # 0 /\ faults' \in 0..MaxFaults
  BY <1>1, GotoEffect DEF ReleaseFault, At, Pcs, Faulty, TypeOK
<1>3. UNCHANGED <<defect, stage, next, control, archive, payload, journal, deaths>>
  BY DEF ReleaseFault, made
<1>4. EarlyHasNothing'
  BY <1>1, <1>2, <1>3 DEF EarlyHasNothing
<1>5. ControlHeld'
  BY <1>1, <1>2, <1>3 DEF ControlHeld
<1>6. SweeperAlone'
  BY <1>1, <1>2, <1>3 DEF SweeperAlone
<1>7. ChecksPassed'
  BY <1>1, <1>2, <1>3 DEF ChecksPassed
<1>8. DeletedInOrder'
  BY <1>1, <1>2, <1>3 DEF DeletedInOrder
<1>9. EverythingNamed'
  BY <1>1, <1>2, <1>3 DEF EverythingNamed
<1>10. NextOwned'
  BY <1>1, <1>2, <1>3 DEF NextOwned
<1>11. InTheWay'
  BY <1>1, <1>2, <1>3 DEF InTheWay
<1>12. OverWithoutFault'
  BY <1>1, <1>2, <1>3 DEF OverWithoutFault
<1>13. TypeOK'
  BY <1>1, <1>2, <1>3 DEF TypeOK, Processes, Owners
<1> QED BY <1>4, <1>5, <1>6, <1>7, <1>8, <1>9, <1>10, <1>11, <1>12, <1>13

LEMMA DropFaultStep ==
    ASSUME RestageInv, NEW p \in Attempts, DropFault(p)
    PROVE  RestageInv'
<1> USE WindowsRestageAssumption DEF RestageInv, FilesInv, Early, Over, Sound,
      Sweeping, Building, Dropping, Ended, Moves
<1>1. proc[p].pc \in Dropping
  BY DEF DropFault, At
<1>2. /\ Moves(p, {"droppingArchive", "droppingControl", "failed"})
      /\ faults' # 0 /\ faults' \in 0..MaxFaults
  BY <1>1, GotoEffect DEF DropFault, At, Pcs, Faulty, TypeOK
<1>3. UNCHANGED <<defect, stage, next, control, archive, payload, journal, deaths>>
  BY DEF DropFault, made
<1>4. EarlyHasNothing'
  BY <1>1, <1>2, <1>3 DEF EarlyHasNothing
<1>5. ControlHeld'
  BY <1>1, <1>2, <1>3 DEF ControlHeld
<1>6. SweeperAlone'
  BY <1>1, <1>2, <1>3 DEF SweeperAlone
<1>7. ChecksPassed'
  BY <1>1, <1>2, <1>3 DEF ChecksPassed
<1>8. DeletedInOrder'
  BY <1>1, <1>2, <1>3 DEF DeletedInOrder
<1>9. EverythingNamed'
  BY <1>1, <1>2, <1>3 DEF EverythingNamed
<1>10. NextOwned'
  BY <1>1, <1>2, <1>3 DEF NextOwned
<1>11. InTheWay'
  BY <1>1, <1>2, <1>3 DEF InTheWay
<1>12. OverWithoutFault'
  BY <1>1, <1>2, <1>3 DEF OverWithoutFault
<1>13. TypeOK'
  BY <1>1, <1>2, <1>3 DEF TypeOK, Processes, Owners
<1> QED BY <1>4, <1>5, <1>6, <1>7, <1>8, <1>9, <1>10, <1>11, <1>12, <1>13

LEMMA DieStep ==
    ASSUME RestageInv, NEW p \in Attempts, Die(p)
    PROVE  RestageInv'
<1> USE WindowsRestageAssumption DEF RestageInv, FilesInv, Early, Over, Sound,
      Sweeping, Building, Dropping, Ended, Moves
<1>1. proc[p].pc \notin Ended
  BY DEF Die, At, TypeOK, Live
<1>2. /\ Moves(p, {"dead"}) /\ deaths < MaxDeaths
      /\ deaths' = deaths + 1 /\ deaths' \in 0..MaxDeaths
  BY <1>1, GotoEffect DEF Die, At, Pcs, TypeOK, Live
<1>3. UNCHANGED <<defect, stage, next, control, archive, payload, journal, faults>>
  BY DEF Die, made
<1>4. EarlyHasNothing'
  BY <1>1, <1>2, <1>3 DEF EarlyHasNothing, Live
<1>5. ControlHeld'
  BY <1>1, <1>2, <1>3 DEF ControlHeld, Live
<1>6. SweeperAlone'
  BY <1>1, <1>2, <1>3 DEF SweeperAlone, Live
<1>7. ChecksPassed'
  BY <1>1, <1>2, <1>3 DEF ChecksPassed, Live
<1>8. DeletedInOrder'
  BY <1>1, <1>2, <1>3 DEF DeletedInOrder, Live
<1>9. EverythingNamed'
  BY <1>1, <1>2, <1>3 DEF EverythingNamed, Live
<1>10. NextOwned'
  BY <1>1, <1>2, <1>3 DEF NextOwned, Live
<1>11. InTheWay'
  BY <1>1, <1>2, <1>3 DEF InTheWay, TypeOK, Live
<1>12. OverWithoutFault'
  BY <1>1, <1>2, <1>3 DEF OverWithoutFault, Live
<1>13. TypeOK'
  BY <1>1, <1>2, <1>3 DEF TypeOK, Processes, Owners
<1> QED BY <1>4, <1>5, <1>6, <1>7, <1>8, <1>9, <1>10, <1>11, <1>12, <1>13

(* The two actions that change more of an attempt than where it is.        *)
LEMMA BeginStep ==
    ASSUME RestageInv, NEW p \in Attempts, Begin(p)
    PROVE  RestageInv'
<1> USE WindowsRestageAssumption DEF RestageInv, FilesInv, Early, Over, Sound,
      Sweeping, Building, Dropping, Ended
<1>1. proc[p].pc = "idle" /\ proc' \in Processes
  BY DEF Begin, At, TypeOK, Processes, Pcs
<1>2. /\ \/ proc'[p].pc = "clearing" /\ defect \notin {"request", "source"}
         \/ proc'[p].pc = "failed"
      /\ \A q \in Attempts \ {p} : proc'[q] = proc[q]
      /\ proc'[p].since = deaths /\ proc'[p].prior = proc[p].prior
  BY DEF Begin, TypeOK, RequestAccepted, SourceMatches
<1>3. UNCHANGED <<defect, stage, next, control, archive, payload, journal, deaths,
     faults>>
  BY DEF Begin, made
<1>4. EarlyHasNothing'
  BY <1>1, <1>2, <1>3 DEF EarlyHasNothing
<1>5. ControlHeld'
  BY <1>1, <1>2, <1>3 DEF ControlHeld
<1>6. SweeperAlone'
  BY <1>1, <1>2, <1>3 DEF SweeperAlone
<1>7. ChecksPassed'
  BY <1>1, <1>2, <1>3 DEF ChecksPassed
<1>8. DeletedInOrder'
  BY <1>1, <1>2, <1>3 DEF DeletedInOrder
<1>9. EverythingNamed'
  BY <1>1, <1>2, <1>3 DEF EverythingNamed
<1>10. NextOwned'
  BY <1>1, <1>2, <1>3 DEF NextOwned
<1>11. InTheWay'
  BY <1>1, <1>2, <1>3 DEF InTheWay, EarlyHasNothing, TypeOK
<1>12. OverWithoutFault'
  BY <1>1, <1>2, <1>3 DEF OverWithoutFault, EarlyHasNothing
<1>13. TypeOK'
  BY <1>1, <1>2, <1>3 DEF TypeOK, Processes
<1> QED BY <1>4, <1>5, <1>6, <1>7, <1>8, <1>9, <1>10, <1>11, <1>12, <1>13

(* An attempt becomes a sweeper only of a control file that nobody has     *)
(* open: its owner is over, and nobody else sweeps after it.               *)
LEMMA OpenControlStep ==
    ASSUME RestageInv, NEW p \in Attempts, OpenControl(p)
    PROVE  RestageInv'
<1> USE WindowsRestageAssumption DEF RestageInv, FilesInv, Early, Over, Sound,
      Sweeping, Building, Dropping, Ended
<1>1. proc[p].pc = "looking" /\ proc' \in Processes
  BY DEF OpenControl, At, TypeOK, Processes, Pcs, Goto
<1>2. /\ \/ proc'[p].pc = "creating" /\ control = "none"
         \/ /\ proc'[p].pc = "sweepingPayload" /\ proc'[p].prior = control
            /\ control # "none" /\ ~ControlIsOpen
         \/ proc'[p].pc = "failed"
      /\ \A q \in Attempts \ {p} : proc'[q] = proc[q]
      /\ proc'[p].since = proc[p].since
  BY DEF OpenControl, TypeOK, Goto, MayOpenControl
<1>3. UNCHANGED <<defect, stage, next, control, archive, payload, journal, deaths,
     faults>>
  BY DEF OpenControl, made
<1>4. EarlyHasNothing'
  BY <1>1, <1>2, <1>3 DEF EarlyHasNothing
<1>5. ControlHeld'
  BY <1>1, <1>2, <1>3 DEF ControlHeld
<1>6. SweeperAlone'
  <2>1. CASE proc'[p].pc = "sweepingPayload"
    <3>1. /\ control \in Attempts /\ proc[control].pc \in Over
          /\ \A q \in Attempts : proc[q].pc \notin Sweeping
      BY <1>2, <2>1 DEF ControlIsOpen, Live, EarlyHasNothing, SweeperAlone,
           TypeOK, Owners
    <3> QED BY <1>1, <1>2, <1>3, <2>1, <3>1 DEF SweeperAlone
  <2>2. CASE proc'[p].pc # "sweepingPayload"
    BY <1>1, <1>2, <1>3, <2>2 DEF SweeperAlone
  <2> QED BY <2>1, <2>2
<1>7. ChecksPassed'
  BY <1>1, <1>2, <1>3 DEF ChecksPassed
<1>8. DeletedInOrder'
  BY <1>1, <1>2, <1>3 DEF DeletedInOrder
<1>9. EverythingNamed'
  BY <1>1, <1>2, <1>3 DEF EverythingNamed
<1>10. NextOwned'
  BY <1>1, <1>2, <1>3 DEF NextOwned
<1>11. InTheWay'
  BY <1>1, <1>2, <1>3 DEF InTheWay, EarlyHasNothing
<1>12. OverWithoutFault'
  BY <1>1, <1>2, <1>3 DEF OverWithoutFault, EarlyHasNothing
<1>13. TypeOK'
  BY <1>1, <1>2, <1>3 DEF TypeOK, Processes
<1> QED BY <1>4, <1>5, <1>6, <1>7, <1>8, <1>9, <1>10, <1>11, <1>12, <1>13

-----------------------------------------------------------------------------
LEMMA InitRestageInv == Init => RestageInv
  BY WindowsRestageAssumption
  DEF Init, RestageInv, FilesInv, TypeOK, EarlyHasNothing, ControlHeld,
       SweeperAlone,
      ChecksPassed, DeletedInOrder, EverythingNamed, NextOwned, InTheWay,
      OverWithoutFault, Fresh, Owners, Trees, Pcs, Early, Over, Sound, Sweeping,
      Building, Dropping, Ended

LEMMA NextRestageInv == RestageInv /\ [Next]_vars => RestageInv'
<1> SUFFICES ASSUME RestageInv, [Next]_vars
             PROVE  RestageInv'
  OBVIOUS
<1>1. CASE Next
  <2>1. PICK p \in Attempts :
          \/ Begin(p) \/ DeleteOptionalRestageFile(p) \/ OpenControl(p)
          \/ SweepPayload(p) \/ SweepArchive(p) \/ SweepControl(p)
          \/ CreateNext(p) \/ RenameNext(p) \/ FlushControl(p)
          \/ CopyArchive(p) \/ CreateRoot(p) \/ Extract(p) \/ Seal(p)
          \/ PersistJournal(p) \/ ReleaseToTransaction(p)
          \/ RenameStage(p)
          \/ DropPayload(p) \/ DropArchive(p) \/ DropControl(p)
          \/ EarlyFault(p) \/ BuildFault(p) \/ ReleaseFault(p) \/ DropFault(p)
          \/ Die(p)
    BY <1>1 DEF Next
  <2> QED
    BY <2>1, BeginStep, DeleteOptionalRestageFileStep, OpenControlStep,
       SweepPayloadStep, SweepArchiveStep, SweepControlStep, CreateNextStep,
       RenameNextStep, FlushControlStep, CopyArchiveStep, CreateRootStep,
       ExtractStep, SealStep, PersistJournalStep, ReleaseToTransactionStep,
       RenameStageStep, DropPayloadStep, DropArchiveStep, DropControlStep,
       EarlyFaultStep, BuildFaultStep, ReleaseFaultStep, DropFaultStep, DieStep
<1>2. CASE UNCHANGED vars
  BY <1>2 DEF vars, RestageInv, FilesInv, TypeOK, EarlyHasNothing, ControlHeld,
              SweeperAlone, ChecksPassed, DeletedInOrder, EverythingNamed,
              NextOwned, InTheWay, OverWithoutFault
<1> QED BY <1>1, <1>2

(* The invariant holds in every behaviour of RestageVerifiedWindowsZip,    *)
(* whatever the attempts, their deaths and the file system faults.         *)
THEOREM RestageInvariance == Spec => []RestageInv
  BY InitRestageInv, NextRestageInv, PTL DEF Spec

(* Every variable keeps its type through every path of the restage.        *)
THEOREM TypeCorrect == Spec => []TypeOK
<1>1. RestageInv => TypeOK BY DEF RestageInv, FilesInv
<1> QED BY <1>1, RestageInvariance, PTL

(* Between its rename and ReleaseToTransaction one attempt alone has the   *)
(* control file, and what PersistJournal journals is the whole tree of an  *)
(* archive that passed every check of RestageVerifiedWindowsZip.           *)
THEOREM BuildersAreAlone == Spec => []BuilderIsAlone
<1>1. RestageInv => BuilderIsAlone
  BY DEF RestageInv, FilesInv, TypeOK, ControlHeld, ChecksPassed, BuilderIsAlone,
       Sound, Defects
<1> QED BY <1>1, RestageInvariance, PTL

(* ~Impl and CleanupPriorRestage delete the control file last, so without  *)
(* a failed deletion nothing is left whose nonce no file holds.            *)
THEOREM NoNameIsLost == Spec => []LeftoversAreNamed
<1>1. RestageInv => LeftoversAreNamed
  BY DEF RestageInv, FilesInv, EverythingNamed, LeftoversAreNamed
<1> QED BY <1>1, RestageInvariance, PTL

-----------------------------------------------------------------------------
(* Where an attempt that meets no fault may fail, and why it does.         *)
LEMMA FailureHasCause ==
    ASSUME RestageInv, NEW p \in Attempts, Next,
           proc[p].pc # "failed", proc'[p].pc = "failed",
           defect = "none", stage, faults' = 0, journal = "none"
    PROVE  deaths > proc[p].since \/ \E q \in Attempts \ {p} : Live(q)
<1> USE DEF RestageInv, FilesInv, At
<1>1. PICK a \in Attempts :
        \/ Begin(a) \/ DeleteOptionalRestageFile(a) \/ OpenControl(a)
        \/ SweepPayload(a) \/ SweepArchive(a) \/ SweepControl(a)
        \/ CreateNext(a) \/ RenameNext(a) \/ FlushControl(a)
        \/ CopyArchive(a) \/ CreateRoot(a) \/ Extract(a) \/ Seal(a)
        \/ PersistJournal(a) \/ ReleaseToTransaction(a)
        \/ RenameStage(a)
        \/ DropPayload(a) \/ DropArchive(a) \/ DropControl(a)
        \/ EarlyFault(a) \/ BuildFault(a) \/ ReleaseFault(a) \/ DropFault(a)
        \/ Die(a)
  BY DEF Next
<1>2. ~EarlyFault(a) /\ ~BuildFault(a) /\ ~ReleaseFault(a) /\ ~DropFault(a)
  <2>1. faults \in Nat
    BY WindowsRestageAssumption DEF TypeOK
  <2>2. ~Faulty
    BY <2>1 DEF Faulty
  <2> QED BY <2>2 DEF EarlyFault, BuildFault, ReleaseFault, DropFault
<1>3. faults = 0
  BY <1>1, <1>2 DEF Begin, DeleteOptionalRestageFile, OpenControl, SweepPayload,
       SweepArchive, SweepControl, CreateNext, RenameNext, FlushControl,
            CopyArchive,
       CreateRoot, Extract, Seal, PersistJournal, ReleaseToTransaction, RenameStage,
       DropPayload, DropArchive, DropControl, Die
<1>4. \A q \in Attempts \ {a} : proc'[q].pc = proc[q].pc
  BY <1>1, <1>2 DEF Begin, DeleteOptionalRestageFile, OpenControl, SweepPayload,
       SweepArchive, SweepControl, CreateNext, RenameNext, FlushControl,
            CopyArchive,
       CreateRoot, Extract, Seal, PersistJournal, ReleaseToTransaction, RenameStage,
       DropPayload, DropArchive, DropControl, Die, Throw, Goto, TypeOK
<1>5. a = p
  BY <1>4
<1>6. CASE DeleteOptionalRestageFile(p)
  <2>1. Live(next) /\ proc[p].pc = "clearing"
    BY <1>6 DEF DeleteOptionalRestageFile, Goto, TypeOK
  <2> QED BY <2>1 DEF NextOwned, TypeOK, Owners, Live
<1>7. CASE OpenControl(p)
  <2>1. ControlIsOpen /\ control # "none" /\ proc[p].pc = "looking"
    BY <1>7 DEF OpenControl, Goto, TypeOK, MayOpenControl
  <2> QED BY <2>1 DEF ControlIsOpen, EarlyHasNothing, Early, Sweeping, Ended,
       TypeOK, Owners, Live
<1>8. CASE CreateNext(p)
  <2>1. next # "none" /\ proc[p].pc = "creating"
    BY <1>8 DEF CreateNext, Goto, TypeOK
  <2> QED BY <2>1 DEF InTheWay, TypeOK, Owners, Live, Ended
<1>9. CASE RenameNext(p)
  <2>1. control # "none" /\ proc[p].pc = "naming"
    BY <1>9 DEF RenameNext, Goto, TypeOK
  <2> QED BY <1>3, <2>1 DEF InTheWay, EarlyHasNothing, Early, TypeOK, Owners, Live
<1>10. ~DropControl(p)
  BY <1>3 DEF DropControl, OverWithoutFault, Dropping
<1>11. ~Begin(p)
  BY DEF Begin, TypeOK, RequestAccepted, SourceMatches
<1>12. ~(SweepPayload(p) \/ SweepArchive(p)
         \/ SweepControl(p) \/ FlushControl(p) \/ CopyArchive(p) \/ CreateRoot(p)
         \/ Extract(p) \/ Seal(p) \/ PersistJournal(p) \/ ReleaseToTransaction(p)
         \/ RenameStage(p) \/ DropPayload(p) \/ DropArchive(p) \/ Die(p))
  <2>1. \A pc : Goto(p, pc) => proc'[p].pc = pc
    BY DEF TypeOK, Goto
  <2> QED
    BY <2>1 DEF SweepPayload, SweepArchive, SweepControl, FlushControl, CopyArchive,
         CreateRoot, Extract, Seal, PersistJournal, ReleaseToTransaction,
              RenameStage,
         DropPayload, DropArchive, Die, Throw
<1> QED BY <1>1, <1>2, <1>5, <1>6, <1>7, <1>8, <1>9, <1>10, <1>11, <1>12

(* CleanupPriorRestage leaves nothing that stops a retry: an attempt that  *)
(* fails without a fault runs beside a live one, or one died meanwhile.    *)
THEOREM RetriesAlwaysSucceed == Spec => RetriesSucceed
<1>1. RestageInv /\ [Next]_vars =>
        [\A p \in Attempts :
            /\ proc[p].pc # "failed" /\ proc'[p].pc = "failed"
            /\ defect = "none" /\ stage /\ faults' = 0 /\ journal = "none"
            => deaths > proc[p].since \/ \E q \in Attempts \ {p} : Live(q)]_vars
  BY FailureHasCause
<1> QED BY <1>1, RestageInvariance, PTL DEF Spec, RetriesSucceed

-----------------------------------------------------------------------------
(* Both platforms: what the instance does is a behaviour of either restage *)
(* beside one that stands still.                                           *)

LEMMA BothRunLinux == BothSpec => Linux!Spec
<1>1. BothInit => Linux!Init
  BY DEF BothInit
<1>2. [BothNext]_bothVars => [Linux!Next]_(Linux!vars)
  BY DEF BothNext, LinuxStep, WindowsStep, bothVars, linuxVars, Linux!vars
<1> QED BY <1>1, <1>2, PTL DEF BothSpec, Linux!Spec

(* crowded tells whether the hypothesis of the Linux theorems held so far. *)
AloneSoFar ==
    /\ crowded \in BOOLEAN
    /\ ~crowded => Linux!RestageInv /\ Linux!ReconcilerAlone

LEMMA AloneUntilCrowded == BothSpec => []AloneSoFar
<1> USE LinuxRestageAssumption
<1>1. BothInit => AloneSoFar
  <2> SUFFICES ASSUME BothInit PROVE AloneSoFar
    OBVIOUS
  <2>1. Linux!RestageInv
    BY Linux!RestageInit DEF BothInit
  <2>2. Linux!ReconcilerAlone
    BY DEF BothInit, Linux!Init, Linux!Fresh, Linux!ReconcilerAlone,
         Linux!Reconciling
  <2>3. crowded = FALSE
    BY DEF BothInit
  <2> QED BY <2>1, <2>2, <2>3 DEF AloneSoFar
<1>2. AloneSoFar /\ [BothNext]_bothVars => AloneSoFar'
  <2> SUFFICES ASSUME AloneSoFar, [BothNext]_bothVars PROVE AloneSoFar'
    OBVIOUS
  <2>1. CASE LinuxStep
    <3>1. crowded' = (crowded \/ ~Linux!ReconcilerAlone') /\ Linux!Next
      BY <2>1 DEF LinuxStep
    <3>2. crowded' \in BOOLEAN
      BY <3>1, Zenon DEF AloneSoFar
    <3>3. ASSUME ~crowded' PROVE Linux!RestageInv' /\ Linux!ReconcilerAlone'
      <4>1. ~crowded /\ Linux!ReconcilerAlone'
        BY <3>1, <3>3, Zenon
      <4> QED BY <3>1, <4>1, Linux!StepKeeps DEF AloneSoFar
    <3> QED BY <3>2, <3>3 DEF AloneSoFar
  <2>2. CASE UNCHANGED <<linuxVars, crowded>>
    <3>1. UNCHANGED Linux!vars /\ crowded' = crowded
      BY <2>2 DEF linuxVars, Linux!vars
    <3>2. Linux!RestageInv => Linux!RestageInv'
      BY <3>1, Linux!StutterKeeps
    <3>3. Linux!ReconcilerAlone => Linux!ReconcilerAlone'
      BY <3>1 DEF Linux!vars, Linux!ReconcilerAlone
    <3> QED BY <3>1, <3>2, <3>3 DEF AloneSoFar
  <2> QED BY <2>1, <2>2 DEF BothNext, WindowsStep, bothVars
<1> QED BY <1>1, <1>2, PTL DEF BothSpec

(* Any number of attempts on Linux, of deaths and of faults: as long as no *)
(* third attempt was on its way while one cleaned up after a dead one,     *)
(* what is left beside the target is named by the recovery record or the   *)
(* journal, unless the code swallowed the failed removal of a directory it *)
(* had just made: linux_archive_restage.cc, CreateRecoverableDirectoryAt,  *)
(* PersistRecoveryRecord, ReconcileRecoveryRecord.                         *)
THEOREM RemainsStayNamed == BothSpec => []RemainsAreNamed
<1>1. AloneSoFar => RemainsAreNamed
  BY Linux!InvNamesRemains DEF AloneSoFar, RemainsAreNamed
<1> QED BY <1>1, AloneUntilCrowded, PTL

(* Any number of attempts on Linux: as long as no third one was on its way *)
(* while one cleaned up after a dead one, the attempt whose trees the      *)
(* journal owns made and sealed them itself, from an archive that passed   *)
(* every check (RestageLinuxSignedZip).                                    *)
THEOREM RestagedStaysIntact == BothSpec => []RestagedIsIntact
<1>1. AloneSoFar => RestagedIsIntact
  BY LinuxRestageAssumption, Linux!InvIsIntact DEF AloneSoFar, RestagedIsIntact
<1> QED BY <1>1, AloneUntilCrowded, PTL

(* Any number of attempts on Linux, whatever they do at the same time:     *)
(* none changes a directory that another, alive, has marked                *)
(* (OwnerProcessIsLive, VerifyCleanupCookieDirectory, the identities of    *)
(* the record), but for the removal in CreateRecoverableDirectoryAt.       *)
THEOREM LiveWorkIsSpared == BothSpec => LiveWorkSurvives
<1>1. Linux!Spec => Linux!LiveWorkSurvives
  BY LinuxRestageAssumption, Linux!LiveWorkIsSpared
<1> QED BY <1>1, BothRunLinux, PTL DEF LiveWorkSurvives
=============================================================================
