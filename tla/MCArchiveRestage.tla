-------------------------- MODULE MCArchiveRestage --------------------------
(***************************************************************************)
(* One instance for both restages: the platform is chosen at the start and *)
(* the other platform's state stays as it is.  crowded is a history of the *)
(* Linux attempts: an attempt was on its way while another cleaned up      *)
(* after a dead one.  Nothing in the code keeps a third one away then, and *)
(* the shared name of the record's temporary file lets it publish another  *)
(* attempt's record (see the README).                                      *)
(***************************************************************************)
EXTENDS WindowsArchiveRestage, TLC

CONSTANTS LinuxAttempts, LinuxDeaths, LinuxFaults

VARIABLES platform, lDefect, lNext, lRecord, lPayload, lControl, lJournal,
          lProc, lStray, lDeaths, lFaults, crowded

linuxVars == <<lDefect, lNext, lRecord, lPayload, lControl, lJournal, lProc,
               lStray, lDeaths, lFaults>>

Linux == INSTANCE LinuxArchiveRestageProofs WITH
    Attempts <- LinuxAttempts, MaxDeaths <- LinuxDeaths,
    MaxFaults <- LinuxFaults,
    defect <- lDefect, next <- lNext, record <- lRecord, payload <- lPayload,
    control <- lControl, journal <- lJournal, proc <- lProc,
    stray <- lStray, deaths <- lDeaths, faults <- lFaults

(* What the theorems about the Linux restage ask of its constants.         *)
ASSUME LinuxRestageAssumption == Linux!Counted

BothInit ==
    /\ Linux!Init /\ Init /\ crowded = FALSE
    /\ \/ platform = "linux" /\ defect = "none"
       \/ platform = "windows" /\ lDefect = "none"

LinuxStep ==
    /\ platform = "linux" /\ Linux!Next
    /\ crowded' = (crowded \/ ~Linux!ReconcilerAlone')
    /\ UNCHANGED <<platform, vars>>

WindowsStep ==
    platform = "windows" /\ Next /\ UNCHANGED <<platform, linuxVars, crowded>>

BothNext == LinuxStep \/ WindowsStep

bothVars == <<platform, linuxVars, crowded, vars>>

BothSpec == BothInit /\ [][BothNext]_bothVars

(* The Linux attempts differ in nothing but their names.                   *)
AttemptSymmetry == Permutations(LinuxAttempts)

(* Linux: unless a third attempt was on its way while one cleaned up after *)
(* a dead one, what is left beside the target is named by a record or by   *)
(* the journal (PersistRecoveryRecord, ReconcileRecoveryRecord).           *)
RemainsAreNamed == crowded \/ Linux!RemainsAreNamed

(* Linux: unless a third attempt was on its way while one cleaned up after *)
(* a dead one, what is handed to the transaction is whole, sealed and      *)
(* sound (RestageLinuxSignedZip, ArmForRecovery).                          *)
RestagedIsIntact == crowded \/ Linux!RestagedIsIntact

(* Linux: no attempt changes what another, live one has marked, but for    *)
(* the removal in CreateRecoverableDirectoryAt of what took the place of   *)
(* the directory it had just made; crowded or not.                         *)
LiveWorkSurvives == Linux!LiveWorkSurvives
=============================================================================
