--------------------- MODULE WindowsInstallServiceProofs ---------------------
(***************************************************************************)
(* Proofs about one update on Windows, for any set of resolvers and any    *)
(* number of deaths.  What a record says of the target is proved for the   *)
(* portable store, which compares what it replaces, and for Inno; of a     *)
(* protected directory as long as two resolvers are not at work together   *)
(* before the owner has its journal.                                       *)
(***************************************************************************)
EXTENDS WindowsInstallService, TLAPS

-----------------------------------------------------------------------------
(* The inductive invariant.                                                *)

(* The owner before there is a record, and before its journal is complete. *)
Unregistered == {"idle", "opening", "provisioning", "authorizing", "restaging",
                 "binding", "preparing"}

Unjournaled == Unregistered \cup {"arming", "starting", "locking"}

Early == Unjournaled \cup {"staging"}

(* Where a process that works on a directory has the lock file open.       *)
Holding == {"staging", "PersistActive", "reserved", "MarkCommitAccepted", "committed",
            "swapping", "rollingBack", "MarkCancelling", "inspecting",
            "PersistCleanupPending", "releasing"}

(* After a terminal record; the last steps before the app is started.      *)
Done == {"settled", "claiming", "consuming", "MarkRelaunchAttempting", "launching",
         "PersistRelaunchOutcome", "relaunched", "disarming"}

Starting == {"MarkRelaunchAttempting", "launching"}

Shared == {"idle", "locking", "MarkCancelling", "swapping", "rollingBack",
           "PersistCleanupPending", "releasing", "PersistTerminal", "ended"}
          \cup (Done \ {"disarming"})

OwnerPcs == Shared \cup Early \cup
            {"PersistActive", "reserved", "MarkCommitAccepted", "committed", "installing",
             "disarming"}

RecoveryPcs == Shared \cup {"waiting", "recovering", "lookingUp", "MarkRelaunchPending", "announcing",
                            "acknowledged", "inspecting", "answering"}

(* What a process has chosen fits where it is.                             *)
ProcessFits(p) ==
    LET q == proc[p] IN
    /\ q.pc \in IF p = "owner" THEN OwnerPcs ELSE RecoveryPcs
    /\ q.pc = "installing" => ~Directory
    /\ q.pc \in {"lookingUp", "locking"} => Directory
    /\ q.pc = "MarkCancelling" =>
          IF Directory THEN q.then \in {"rollingBack", "inspecting"}
          ELSE q.then = "PersistCleanupPending" /\ q.out = "rolledBack"
    /\ q.pc = "MarkCancelling" /\ p = "owner" => q.then # "inspecting"
    /\ q.pc \in {"PersistCleanupPending", "releasing"} => q.out \in {"completed", "rolledBack"}
    /\ q.pc \in {"PersistTerminal", "settled"} =>
          q.out \in {"completed", "rolledBack", "manualActionRequired"}
    /\ q.pc = "PersistRelaunchOutcome" => q.then \in {"launched", "launchFailed"}
    /\ q.seen # NoRecord =>
          /\ q.pc \in Operations /\ q.seen.state # "none"
          /\ q.pc = "MarkCommitAccepted" => q.seen.state = "commitAccepted"
          /\ q.pc = "MarkCancelling" => q.seen.state = "cancelling"
          /\ q.pc = "PersistTerminal" => q.seen.state = q.out

LocalFits == \A p \in Processes : ProcessFits(p)

(* There is a record only when it can be found, and nobody but the owner   *)
(* works before there is one.                                              *)
ReachFits ==
    LET o == proc["owner"].pc IN
    /\ kind # "portable" => endpoint = "stable"
    /\ record.state # "none" => locator /\ endpoint = "stable" /\ marker
    /\ o \in {"authorizing", "restaging", "binding", "preparing"} => endpoint = "stable"
    /\ o \in {"restaging", "binding", "preparing"} => marker
    /\ o = "preparing" => locator
    /\ o \in Unregistered => record.state = "none"
    /\ record.state = "none" =>
          /\ record = NoRecord /\ ~armed /\ o \in Unregistered \cup {"ended"}
          /\ \A p \in Processes \ {"owner"} : proc[p].pc = "idle"

(* Whoever is about to start the app is alone and has used up the claim.   *)
ClaimFits ==
    /\ launches <= 1
    /\ claim.state # "consumed" => launches = 0
    /\ \A p \in Processes : proc[p].pc \in Starting => launches = 0 /\ claim.state = "consumed"
    /\ \A p, q \in Processes : proc[p].pc \in Starting /\ proc[q].pc \in Starting => p = q

ServiceInv == TypeOK /\ LocalFits /\ ReachFits /\ ClaimFits

(* For a portable transaction.  A terminal record is final, and the task   *)
(* is given up only then.                                                  *)
Terminal == record.state \in TerminalStates

ArmFits ==
    /\ proc["owner"].pc \in {"starting", "locking", "staging"} => armed \/ Terminal
    /\ journal # "none" => armed \/ Terminal

LockFits ==
    /\ lock.holder # "none" => lock.file
    /\ proc["owner"].pc \in Unjournaled => journal = "none"

Completed == {"completed", "completedCleanupPending"}

RolledBack == {"rolledBack", "rolledBackCleanupPending"}

Cancelled == RolledBack \cup {"cancelling", "manualActionRequired"}

(* The swap will not be made: its journal is gone, or nobody may start it. *)
SwapIsOff ==
    /\ target = "old"
    /\ \/ journal = "none" /\ proc["owner"].pc \notin Early
       \/ /\ record.state \in Cancelled /\ proc["owner"].pc # "committed"
          /\ \A p \in Processes : /\ proc[p].pc # "swapping"
                                  /\ p # "owner" => proc[p].base # "commitAccepted"

SwapFits ==
    /\ proc["owner"].pc \in Early => record.state # "commitAccepted"
    /\ record.state \in Completed => target = "new"
    /\ record.state \in RolledBack => SwapIsOff

(* The lock file is open in the one process that works on the tree; before *)
(* the owner's journal is complete nobody knows of a commit; who records   *)
(* an outcome has seen it.                                                 *)
PortableFits(p) ==
    LET q == proc[p] IN
    /\ q.pc \in Done => Terminal
    /\ p = "host" /\ q.pc = "answering"
          /\ q.out \in {"completed", "rolledBack", "relaunchFailure"} => Terminal
    /\ lock.holder = p <=> q.pc \in Holding
    /\ proc["owner"].pc \in Early =>
          q.seen.state # "commitAccepted" /\ (p # "owner" => q.base # "commitAccepted")
    /\ q.pc = "inspecting" /\ q.base # "commitAccepted" => record.state \in Cancelled
    /\ \/ q.seen.state \in Completed
       \/ q.pc = "PersistCleanupPending" /\ q.out = "completed"
       => target = "new"
    /\ \/ q.seen.state \in RolledBack
       \/ q.pc = "PersistCleanupPending" /\ q.out = "rolledBack"
       => SwapIsOff

PortableInv == kind = "portable" =>
    ArmFits /\ LockFits /\ SwapFits /\ \A p \in Processes : PortableFits(p)

UpdateInv == ServiceInv /\ PortableInv

-----------------------------------------------------------------------------
(* What the operators of the model do to the variables.                    *)

ProcType == [pc : Pcs, seen : Records, base : RecordStates \cup {"ran"}, out : Outs,
             then : Pcs \cup {"none", "launched", "launchFailed"}, created : BOOLEAN]

ClaimType == [by : Processes \cup {"none"}, state : {"none", "claimed", "consumed"},
              live : BOOLEAN]

LockType == [file : BOOLEAN, holder : Processes \cup {"none"}]

(* Only process p moves, and where to.                                     *)
Moves(p) ==
    /\ proc' \in [Processes -> ProcType]
    /\ \A q \in Processes \ {p} : proc'[q] = proc[q]

Enters(p, pc, seen, base, out, then) ==
    /\ Moves(p)
    /\ proc'[p].pc = pc /\ proc'[p].seen = seen /\ proc'[p].base = base
    /\ proc'[p].out = out /\ proc'[p].then = then

(* It goes to pc, with the outcome given.                                  *)
Passes(p, pc, out) == Enters(p, pc, proc[p].seen, proc[p].base, out, proc[p].then)

Restarts(p, pc) == Enters(p, pc, NoRecord, "none", "none", "none")

(* The claim is used exactly when it was.                                  *)
ClaimStays == claim' \in ClaimType /\ (claim'.state = "consumed" <=> claim.state = "consumed")

LEMMA RecordFacts ==
    /\ NoRecord \in Records /\ NoRecord.state = "none"
    /\ \A r \in Records : r.state = "none" /\ r.relaunch = "notRequested" => r = NoRecord
  BY DEF NoRecord, Records, RecordStates, RelaunchStates

LEMMA GotoEffect ==
    ASSUME TypeOK, NEW p \in Processes, NEW pc \in Pcs, Goto(p, pc)
    PROVE  Passes(p, pc, proc[p].out)
  <1> DEFINE r == [proc[p] EXCEPT !.pc = pc]
  <1>1. r \in ProcType /\ proc' = [proc EXCEPT ![p] = r]
    BY DEF TypeOK, Goto, ProcType
  <1> QED
    BY <1>1 DEF TypeOK, Passes, Enters, Moves, ProcType

LEMMA ContinueEffect ==
    ASSUME TypeOK, NEW p \in Processes, NEW pc \in Pcs, NEW out \in Outs,
           Continue(p, pc, out)
    PROVE  Passes(p, pc, out)
  <1> DEFINE r == [proc[p] EXCEPT !.pc = pc, !.out = out]
  <1>1. r \in ProcType /\ proc' = [proc EXCEPT ![p] = r]
    BY DEF TypeOK, Continue, ProcType
  <1> QED
    BY <1>1 DEF TypeOK, Passes, Enters, Moves, ProcType

LEMMA RestartEffect ==
    ASSUME TypeOK, NEW p \in Processes, NEW pc \in Pcs,
           proc' = [proc EXCEPT ![p] = [Fresh EXCEPT !.pc = pc]]
    PROVE  Restarts(p, pc)
  <1>1. [Fresh EXCEPT !.pc = pc] \in ProcType
    BY RecordFacts DEF Fresh, ProcType, Pcs, RecordStates, Outs
  <1> QED
    BY <1>1 DEF TypeOK, Restarts, Enters, Moves, ProcType, Fresh

LEMMA ReleasedEffect ==
    ASSUME TypeOK, NEW p \in Processes
    PROVE  /\ Released(p) \in LockType /\ Released(p).holder # p
           /\ lock.holder # p => Released(p) = lock
           /\ lock.holder = p => Released(p).holder = "none"
  BY ServiceAssumption DEF TypeOK, Released, LockType, Processes

LEMMA NamesDiffer == "owner" \in Processes /\ "host" \in Processes /\ "none" \notin Processes
                     /\ \A r \in Resolvers : r \in Processes /\ r # "owner" /\ r # "host"
  BY ServiceAssumption DEF Processes

(* A step of a process keeps the types when what it writes has its type.   *)
LEMMA TypeKept ==
    ASSUME TypeOK, NEW p, Moves(p), UNCHANGED fixed,
           record' \in Records, claim' \in ClaimType, lock' \in LockType,
           target' \in {"old", "away", "new"}, stage' \in {"staged", "prepared", "gone"},
           journal' \in {"none", "prepared", "moved"},
           armed' \in BOOLEAN, token' \in BOOLEAN, caller' \in BOOLEAN,
           launches' \in 0..2, deaths' \in 0..MaxDeaths
    PROVE  TypeOK'
  BY DEF TypeOK, Moves, ProcType, ClaimType, LockType, fixed, Processes

LEMMA UnlockedType == Unlocked \in LockType /\ Unlocked.holder = "none"
  BY DEF Unlocked, LockType
-----------------------------------------------------------------------------
(* What every step of a process p guarantees to the others, and that this  *)
(* is enough: p's own part of the invariant is all that is left to show.   *)

(* Only the owner's first steps come before the record.                    *)
ReachStep(p) ==
    /\ UNCHANGED fixed
    /\ p = "owner" => proc'[p].pc \notin Unregistered
    /\ IF record.state = "none"
       THEN p = "owner" /\ proc'[p].pc = "ended" /\ record' = record /\ armed' = armed
       ELSE record'.state # "none"

ClaimStep(p) ==
    /\ launches' = launches /\ ClaimStays
    /\ proc'[p].pc \in Starting => proc[p].pc \in Starting

(* The steps that lead to a swap are the owner's with its journal, and     *)
(* those of a recovery that loaded a commit.                               *)
SwapStep(p) ==
    /\ \A q \in Processes \ {p} : lock'.holder = q <=> lock.holder = q
    /\ Terminal => Terminal'
    /\ record.state \in Cancelled => record'.state \in Cancelled
    /\ p = "owner" /\ proc'[p].pc \in Early => proc[p].pc \in Early
    /\ target' = target \/ (target # "new" /\ journal # "none" /\ proc[p].pc = "swapping")
    /\ journal = "none" => journal' = "none" \/ (p = "owner" /\ proc[p].pc = "staging")
    /\ p = "owner" /\ proc'[p].pc = "committed" => record'.state = "commitAccepted"
    /\ proc'[p].pc = "swapping" =>
          \/ proc[p].pc = "swapping"
          \/ p = "owner" /\ proc[p].pc = "committed"
          \/ p # "owner" /\ proc[p].base = "commitAccepted"
    /\ p # "owner" /\ proc'[p].base = "commitAccepted" =>
          proc[p].base = "commitAccepted" \/ record.state = "commitAccepted"

(* The task stays while the journal or the owner needs it.                 *)
ArmStep(p) ==
    /\ armed => armed' \/ Terminal
    /\ journal' # "none" => journal # "none" \/ (p = "owner" /\ proc[p].pc = "staging")
    /\ p = "owner" /\ proc'[p].pc \in {"starting", "locking", "staging"} =>
          armed' \/ proc[p].pc \in {"starting", "locking", "staging"}

LockStep(p) ==
    /\ lock'.holder # "none" => lock'.file
    /\ p = "owner" /\ proc'[p].pc \in Unjournaled => journal' = "none"
    /\ p # "owner" /\ journal = "none" => journal' = "none"

LEMMA LocalKept ==
    ASSUME LocalFits, NEW p \in Processes, Moves(p), kind' = kind, ProcessFits(p)'
    PROVE  LocalFits'
  <1> SUFFICES ASSUME NEW q \in Processes PROVE ProcessFits(q)'
    BY DEF LocalFits, Processes
  <1>1. CASE q = p
    BY <1>1
  <1>2. CASE q # p
    <2>1. proc'[q] = proc[q] /\ ProcessFits(q)
      BY <1>2 DEF Moves, LocalFits
    <2> QED
      BY <2>1 DEF ProcessFits, Directory
  <1> QED
    BY <1>1, <1>2

LEMMA ReachKept ==
    ASSUME ReachFits, NEW p \in Processes, Moves(p), ReachStep(p)
    PROVE  ReachFits'
  <1>1. CASE record.state = "none"
    <2>1. \A q \in Processes \ {"owner"} : proc'[q].pc = "idle"
      BY <1>1 DEF ReachFits, ReachStep, Moves
    <2>2. /\ record' = record /\ armed' = armed /\ proc'["owner"].pc = "ended"
          /\ kind' = kind /\ endpoint' = endpoint
      BY <1>1 DEF ReachStep, fixed
    <2> QED
      BY <1>1, <2>1, <2>2 DEF ReachFits, Unregistered, Processes
  <1>2. CASE record.state # "none"
    <2>1. /\ record'.state # "none" /\ kind' = kind /\ endpoint' = endpoint
          /\ locator' = locator /\ marker' = marker
      BY <1>2 DEF ReachStep, fixed
    <2>2. proc'["owner"].pc \notin Unregistered
      BY <1>2, NamesDiffer DEF ReachFits, ReachStep, Moves
    <2> QED
      BY <1>2, <2>1, <2>2 DEF ReachFits, Unregistered
  <1> QED
    BY <1>1, <1>2

LEMMA ClaimKept ==
    ASSUME ClaimFits, NEW p \in Processes, Moves(p), ClaimStep(p)
    PROVE  ClaimFits'
  <1>1. \A q \in Processes : proc'[q].pc \in Starting => proc[q].pc \in Starting
    BY DEF Moves, ClaimStep
  <1>2. launches' = launches /\ (claim'.state = "consumed" <=> claim.state = "consumed")
    BY DEF ClaimStep, ClaimStays
  <1>3. Processes' = Processes
    BY DEF Processes
  <1> QED
    BY <1>1, <1>2, <1>3 DEF ClaimFits

LEMMA OffStays ==
    ASSUME NEW p \in Processes, Moves(p), SwapStep(p), SwapIsOff
    PROVE  SwapIsOff'
  <1>1. CASE journal = "none" /\ proc["owner"].pc \notin Early
    <2>1. proc'["owner"].pc \notin Early
      BY <1>1, NamesDiffer DEF Moves, SwapStep
    <2>2. target' = "old" /\ journal' = "none"
      BY <1>1 DEF SwapStep, SwapIsOff, Early
    <2> QED
      BY <2>1, <2>2 DEF SwapIsOff
  <1>2. CASE /\ record.state \in Cancelled /\ proc["owner"].pc # "committed"
             /\ \A q \in Processes : /\ proc[q].pc # "swapping"
                                     /\ q # "owner" => proc[q].base # "commitAccepted"
    <2>1. target' = "old" /\ record'.state \in Cancelled
      BY <1>2 DEF SwapStep, SwapIsOff
    <2>2. proc'["owner"].pc # "committed"
      BY <1>2, <2>1, NamesDiffer DEF Moves, SwapStep, Cancelled, RolledBack
    <2>3. record.state # "commitAccepted"
      BY <1>2 DEF Cancelled, RolledBack
    <2>4. /\ proc'[p].pc # "swapping"
          /\ p # "owner" => proc'[p].base # "commitAccepted"
      BY <1>2, <2>3 DEF SwapStep
    <2>5. \A q \in Processes : /\ proc'[q].pc # "swapping"
                               /\ q # "owner" => proc'[q].base # "commitAccepted"
      BY <1>2, <2>4 DEF Moves
    <2> QED
      BY <2>1, <2>2, <2>5 DEF SwapIsOff, Processes
  <1> QED
    BY <1>1, <1>2 DEF SwapIsOff

LEMMA OthersFit ==
    ASSUME NEW p \in Processes, Moves(p), SwapStep(p),
           NEW q \in Processes, q # p, PortableFits(q)
    PROVE  PortableFits(q)'
  <1>1. proc'[q] = proc[q] /\ (lock'.holder = q <=> lock.holder = q)
    BY DEF Moves, SwapStep
  <1>2. proc'["owner"].pc \in Early => proc["owner"].pc \in Early
    BY NamesDiffer DEF Moves, SwapStep
  <1>3. /\ Terminal => Terminal'
        /\ record.state \in Cancelled => record'.state \in Cancelled
        /\ target = "new" => target' = "new"
    BY DEF SwapStep
  <1> QED
    BY <1>1, <1>2, <1>3, OffStays DEF PortableFits

(* With the record as it is, what it says of the target stays true.        *)
LEMMA SameRecord ==
    ASSUME PortableInv, kind = "portable", NEW p \in Processes, Moves(p), SwapStep(p),
           record' = record
    PROVE  SwapFits'
  <1>1. proc'["owner"].pc \in Early => proc["owner"].pc \in Early
    BY NamesDiffer DEF Moves, SwapStep
  <1> QED
    BY <1>1, OffStays DEF SwapFits, PortableInv, SwapStep

LEMMA PortableKept ==
    ASSUME PortableInv, kind = "portable", NEW p \in Processes, Moves(p),
           SwapStep(p), ArmStep(p), LockStep(p), PortableFits(p)', SwapFits'
    PROVE  PortableInv'
  <1>1. \A q \in Processes : PortableFits(q)'
    BY OthersFit DEF PortableInv
  <1>2. Terminal => Terminal'
    BY DEF SwapStep
  <1>3. p # "owner" => proc'["owner"] = proc["owner"]
    BY NamesDiffer DEF Moves
  <1>4. ArmFits'
    BY <1>2, <1>3 DEF ArmFits, PortableInv, ArmStep
  <1>5. LockFits'
    BY <1>3 DEF LockFits, PortableInv, LockStep
  <1> QED
    BY <1>1, <1>4, <1>5 DEF PortableInv, Processes

(* All that a step of p has to satisfy.                                    *)
Works(p) ==
    /\ Moves(p) /\ ReachStep(p) /\ ProcessFits(p)'
    /\ kind = "portable" =>
          SwapStep(p) /\ ArmStep(p) /\ LockStep(p) /\ PortableFits(p)' /\ SwapFits'

LEMMA WorkKept ==
    ASSUME UpdateInv, NEW p \in Processes, TypeOK', Works(p), ClaimFits'
    PROVE  UpdateInv'
  <1>1. LocalFits' /\ ReachFits' /\ kind' = kind
    BY LocalKept, ReachKept DEF UpdateInv, ServiceInv, Works, ReachStep, fixed
  <1>2. PortableInv'
    <2>1. CASE kind = "portable"
      BY <2>1, PortableKept DEF UpdateInv, Works
    <2>2. CASE kind # "portable"
      BY <1>1, <2>2 DEF PortableInv
    <2> QED
      BY <2>1, <2>2
  <1> QED
    BY <1>1, <1>2 DEF UpdateInv, ServiceInv
(* What such a step leaves alone, and what it may do with the lock.        *)
Rests(p) ==
    /\ UNCHANGED <<fixed, record, target, armed>>
    /\ journal' \in {journal, "none"}
    /\ kind = "portable" =>
          /\ \A q \in Processes \ {p} : lock'.holder = q <=> lock.holder = q
          /\ lock'.holder # "none" => lock'.file

Steady(p) == Rests(p) /\ launches' = launches /\ ClaimStays

LEMMA RecordThere ==
    ASSUME UpdateInv, NEW p \in Processes, proc[p].pc \notin Unregistered \cup {"ended"}
    PROVE  record.state # "none"
  <1>1. proc[p].pc # "idle"
    BY DEF Unregistered
  <1> QED
    BY <1>1, NamesDiffer DEF UpdateInv, ServiceInv, ReachFits

(* Lock, claim and process change; the owner is past its journal.          *)
LEMMA WalkWorks ==
    ASSUME UpdateInv, NEW p \in Processes, Moves(p), Rests(p), ProcessFits(p)',
           record.state # "none", proc'[p].pc \notin Early \ {"idle", "locking"},
           p = "owner" /\ proc'[p].pc = "locking" => proc[p].pc = "starting",
           p = "owner" => proc'[p].pc \notin {"idle", "committed"},
           kind = "portable" =>
              /\ PortableFits(p)'
              /\ proc'[p].pc = "swapping" =>
                    \/ p = "owner" /\ proc[p].pc = "committed"
                    \/ p # "owner" /\ proc[p].base = "commitAccepted"
              /\ p # "owner" /\ proc'[p].base = "commitAccepted" =>
                    proc[p].base = "commitAccepted" \/ record.state = "commitAccepted"
    PROVE  Works(p)
  <1>1. ReachStep(p) /\ record' = record
    BY DEF ReachStep, Rests, Early, Unjournaled, Unregistered
  <1>2. ASSUME kind = "portable" PROVE SwapStep(p) /\ ArmStep(p) /\ LockStep(p)
    <2>1. Terminal => Terminal'
      BY <1>1 DEF Terminal
    <2>2. SwapStep(p)
      BY <1>1, <1>2, <2>1 DEF SwapStep, Rests, Early, Unjournaled
    <2>3. ArmStep(p)
      BY <1>1, <1>2 DEF ArmStep, Rests, Early, Unjournaled
    <2>4. p = "owner" /\ proc'[p].pc \in Unjournaled => journal' = "none"
      BY <1>2 DEF Rests, UpdateInv, PortableInv, LockFits, Early, Unjournaled, Unregistered
    <2> QED
      BY <1>2, <2>2, <2>3, <2>4 DEF LockStep, Rests
  <1>3. kind = "portable" => SwapFits'
    BY <1>1, <1>2, SameRecord DEF UpdateInv
  <1> QED
    BY <1>1, <1>2, <1>3 DEF Works

LEMMA WalkKept ==
    ASSUME UpdateInv, NEW p \in Processes, TypeOK', Moves(p), Steady(p), ProcessFits(p)',
           record.state # "none", proc'[p].pc \notin Early \ {"idle", "locking"},
           p = "owner" /\ proc'[p].pc = "locking" => proc[p].pc = "starting",
           p = "owner" => proc'[p].pc \notin {"idle", "committed"},
           proc'[p].pc \in Starting => proc[p].pc \in Starting,
           kind = "portable" =>
              /\ PortableFits(p)'
              /\ proc'[p].pc = "swapping" =>
                    \/ p = "owner" /\ proc[p].pc = "committed"
                    \/ p # "owner" /\ proc[p].base = "commitAccepted"
              /\ p # "owner" /\ proc'[p].base = "commitAccepted" =>
                    proc[p].base = "commitAccepted" \/ record.state = "commitAccepted"
    PROVE  UpdateInv'
  <1>1. Works(p)
    BY WalkWorks DEF Steady
  <1>2. ClaimFits'
    BY ClaimKept DEF ClaimStep, Steady, UpdateInv, ServiceInv
  <1> QED
    BY <1>1, <1>2, WorkKept

(* The simple case: nothing depends on where the process arrives but that  *)
(* a record is final after a terminal state.                               *)
Simple == {"recovering", "answering", "waiting", "announcing", "acknowledged", "ended",
           "settled", "PersistTerminal", "claiming", "consuming", "relaunched", "disarming",
           "reserved", "MarkCommitAccepted", "MarkRelaunchPending", "PersistActive"}

LEMMA PassKept ==
    ASSUME UpdateInv, NEW p \in Processes, TypeOK', Steady(p), record.state # "none",
           NEW pc \in Simple, NEW base, NEW out, NEW then,
           Enters(p, pc, NoRecord, base, out, then),
           pc \in IF p = "owner" THEN OwnerPcs ELSE RecoveryPcs,
           pc \in {"PersistTerminal", "settled"} =>
              out \in {"completed", "rolledBack", "manualActionRequired"},
           kind = "portable" =>
              /\ p # "owner" => base # "commitAccepted" \/ proc[p].base = "commitAccepted"
              /\ lock'.holder = p <=> pc \in Holding
              /\ pc \in Done => Terminal
              /\ p = "host" /\ pc = "answering"
                    /\ out \in {"completed", "rolledBack", "relaunchFailure"} => Terminal
    PROVE  UpdateInv'
  <1>1. /\ Moves(p) /\ proc'[p].pc = pc /\ proc'[p].seen = NoRecord
        /\ proc'[p].base = base /\ proc'[p].out = out
    BY DEF Enters
  <1>2. ProcessFits(p)'
    BY <1>1, RecordFacts DEF ProcessFits, Simple
  <1>3. /\ proc'[p].pc \notin Early /\ proc'[p].pc \notin {"committed", "swapping"}
        /\ proc'[p].pc \notin Starting
    BY <1>1 DEF Simple, Early, Unjournaled, Unregistered, Starting
  <1>4. ASSUME kind = "portable" PROVE PortableFits(p)'
    <2>1. Terminal' = Terminal
      BY DEF Terminal, Steady, Rests
    <2>2. proc["owner"].pc \in Early => p = "owner" \/ proc[p].base # "commitAccepted"
      BY <1>4 DEF UpdateInv, PortableInv, PortableFits
    <2>3. proc'["owner"].pc \in Early => p = "owner" \/ base # "commitAccepted"
      BY <1>1, <1>3, <1>4, <2>2, NamesDiffer DEF Moves
    <2>4. /\ pc # "inspecting" /\ pc # "PersistCleanupPending"
          /\ NoRecord.state = "none"
      BY RecordFacts DEF Simple
    <2> QED
      BY <1>1, <1>4, <2>1, <2>3, <2>4 DEF PortableFits, Completed, RolledBack
  <1> QED
    BY <1>1, <1>2, <1>3, <1>4, WalkKept DEF Early, Unjournaled, Unregistered
(* A process stops, and whatever it had open is closed.                    *)
Leaves(p) ==
    /\ Moves(p)
    /\ proc'[p].pc \in IF p = "owner" THEN {"ended"} ELSE {"ended", "idle", "answering"}
    /\ proc'[p].seen = NoRecord /\ proc'[p].base \in {proc[p].base, "none"}
    /\ UNCHANGED <<fixed, record, target, launches>> /\ ClaimStays
    /\ journal' \in {journal, "none"}
    /\ kind = "portable" =>
          /\ \A q \in Processes \ {p} : lock'.holder = q <=> lock.holder = q
          /\ lock'.holder # p /\ (lock.file /\ lock'.holder # "none" => lock'.file)
    /\ record.state = "none" => armed' = armed

LEMMA LeaveKept ==
    ASSUME UpdateInv, NEW p \in Processes, Alive(p), TypeOK', Leaves(p),
           kind = "portable" =>
              /\ armed => armed' \/ Terminal
              /\ p = "host" /\ proc'[p].pc = "answering"
                    /\ proc'[p].out \in {"completed", "rolledBack", "relaunchFailure"}
                    => Terminal
    PROVE  UpdateInv'
  <1>1. record.state = "none" => p = "owner"
    BY DEF UpdateInv, ServiceInv, ReachFits, Alive
  <1>2. ReachStep(p)
    BY <1>1, RecordFacts DEF ReachStep, Leaves, Unregistered
  <1>3. ClaimFits'
    BY ClaimKept DEF ClaimStep, Leaves, UpdateInv, ServiceInv, Starting
  <1>4. ProcessFits(p)'
    BY RecordFacts DEF ProcessFits, Leaves, OwnerPcs, RecoveryPcs, Shared
  <1>5. ASSUME kind = "portable"
        PROVE  SwapStep(p) /\ ArmStep(p) /\ LockStep(p) /\ PortableFits(p)'
    <2>1. Terminal' = Terminal /\ record' = record
      BY DEF Terminal, Leaves
    <2>2. SwapStep(p)
      BY <1>5, <2>1 DEF SwapStep, Leaves, Early, Unjournaled, Unregistered
    <2>3. ArmStep(p)
      BY <1>5 DEF ArmStep, Leaves
    <2>4. lock.holder # "none" => lock.file
      BY <1>5 DEF UpdateInv, PortableInv, LockFits
    <2>5. LockStep(p)
      <3>1. lock'.holder # "none" => lock.holder # "none"
        BY <1>5, NamesDiffer DEF Leaves, UpdateInv, ServiceInv, TypeOK
      <3> QED
        BY <1>5, <2>4, <3>1 DEF LockStep, Leaves, Unjournaled, Unregistered
    <2>6. proc["owner"].pc \in Early => p = "owner" \/ proc[p].base # "commitAccepted"
      BY <1>5 DEF UpdateInv, PortableInv, PortableFits
    <2>7. proc'["owner"].pc \in Early => p # "owner" /\ proc["owner"].pc \in Early
      BY NamesDiffer DEF Leaves, Moves, Early, Unjournaled, Unregistered
    <2>8. /\ proc'[p].pc \notin Done /\ proc'[p].pc \notin Holding
          /\ proc'[p].pc \notin {"inspecting", "PersistCleanupPending"}
          /\ proc'[p].seen.state = "none"
      BY RecordFacts DEF Leaves, Done, Holding
    <2>9. proc'["owner"].pc \in Early =>
             p # "owner" /\ proc'[p].base # "commitAccepted"
      BY <2>6, <2>7 DEF Leaves
    <2>10. lock'.holder # p
      BY <1>5 DEF Leaves
    <2>11. PortableFits(p)'
      BY <1>5, <2>1, <2>8, <2>9, <2>10 DEF PortableFits, Completed, RolledBack
    <2> QED
      BY <2>2, <2>3, <2>5, <2>11
  <1>6. Works(p)
    BY <1>2, <1>4, <1>5, SameRecord DEF Works, Leaves, UpdateInv
  <1> QED
    BY <1>3, <1>6, WorkKept

LEMMA ClaimDropped ==
    ASSUME TypeOK, NEW p,
           claim' = IF claim.by = p THEN [claim EXCEPT !.live = FALSE] ELSE claim
    PROVE  ClaimStays
  <1>1. claim' \in ClaimType
    BY DEF TypeOK, ClaimType
  <1> QED
    BY <1>1 DEF TypeOK, ClaimStays

LEMMA DieKept ==
    ASSUME UpdateInv, NEW p \in Processes, Die(p)
    PROVE  UpdateInv'
  <1> DEFINE pc == IF p = "host" THEN "idle" ELSE "ended"
  <1>1. TypeOK
    BY DEF UpdateInv, ServiceInv
  <1>2. Restarts(p, pc)
    <2>1. pc \in Pcs /\ proc' = [proc EXCEPT ![p] = [Fresh EXCEPT !.pc = pc]]
      BY DEF Die, Pcs
    <2> HIDE DEF pc
    <2> QED
      BY <1>1, <2>1, RestartEffect
  <1>3. ClaimStays
    BY <1>1, ClaimDropped DEF Die
  <1>4. TypeOK'
    <2>1. lock' \in LockType /\ deaths' \in 0..MaxDeaths
      BY <1>1, ReleasedEffect, ServiceAssumption DEF Die, TypeOK
    <2> QED
      BY <1>1, <1>2, <1>3, <2>1
         DEF TypeOK, Die, Restarts, Enters, Moves, ClaimStays, ClaimType, LockType, ProcType,
             fixed, Processes
  <1>5. Leaves(p)
    <2>1. \A q \in Processes \ {p} : lock'.holder = q <=> lock.holder = q
      BY <1>1, ReleasedEffect, NamesDiffer DEF Die
    <2>2. lock'.holder # p /\ (lock.file /\ lock'.holder # "none" => lock'.file)
      BY <1>1, ReleasedEffect, NamesDiffer DEF Die
    <2> QED
      BY <1>2, <1>3, <2>1, <2>2 DEF Leaves, Restarts, Enters, Die
  <1> QED
    BY <1>2, <1>4, <1>5, LeaveKept DEF Die, Restarts, Enters
(* An exception, wherever it is thrown.                                    *)
LEMMA ThrowKept ==
    ASSUME UpdateInv, NEW p \in Processes, Alive(p), Throw(p),
           UNCHANGED <<fixed, record, target, token, caller, launches, deaths>>,
           armed' = armed \/ (armed' = TRUE /\ proc[p].pc = "arming")
    PROVE  UpdateInv'
  <1>1. TypeOK /\ ProcessFits(p) /\ (kind = "portable" => PortableFits(p))
    BY DEF UpdateInv, ServiceInv, LocalFits, PortableInv
  <1>2. proc[p].pc = "arming" => record.state # "none"
    BY RecordThere DEF Unregistered
  <1>3. kind = "portable" /\ lock.holder # "none" => lock.file
    BY DEF UpdateInv, PortableInv, LockFits
  <1>4. CASE p = "owner" /\ At(p, "MarkCommitAccepted")
    <2> DEFINE then == IF Directory THEN "rollingBack" ELSE "PersistCleanupPending"
               r == [proc[p] EXCEPT !.pc = "MarkCancelling", !.seen = NoRecord,
                                    !.out = "rolledBack", !.then = then]
    <2>1. proc' = [proc EXCEPT ![p].pc = "MarkCancelling", ![p].seen = NoRecord,
                               ![p].out = "rolledBack", ![p].then = then]
      BY <1>4 DEF Throw
    <2>2. UNCHANGED effects /\ armed' = armed
      BY <1>4 DEF Throw, At
    <2>3. then \in Pcs /\ "MarkCancelling" \in Pcs /\ "rolledBack" \in Outs
      BY DEF Pcs, Operations, Outs
    <2>4. Enters(p, "MarkCancelling", NoRecord, proc[p].base, "rolledBack", then)
      <3> HIDE DEF then
      <3>1. r \in ProcType
        BY <1>1, <2>3, RecordFacts DEF TypeOK, ProcType
      <3>2. proc' = [proc EXCEPT ![p] = r]
        BY <1>1, <2>1 DEF TypeOK
      <3> QED
        BY <1>1, <3>1, <3>2 DEF TypeOK, Enters, Moves, ProcType
    <2>5. /\ Moves(p) /\ proc'[p].pc = "MarkCancelling" /\ proc'[p].seen = NoRecord
          /\ proc'[p].out = "rolledBack" /\ proc'[p].base = proc[p].base
          /\ proc'[p].then = then
      BY <2>4 DEF Enters
    <2>6. TypeOK'
      BY <1>1, <2>2, <2>5, TypeKept DEF TypeOK, effects, ClaimType, LockType
    <2>7. Steady(p)
      BY <1>1, <1>3, <2>2 DEF Steady, Rests, effects, ClaimStays, TypeOK, ClaimType
    <2>8. ProcessFits(p)'
      BY <1>4, <2>5, RecordFacts DEF ProcessFits, OwnerPcs, Shared, Directory, fixed
    <2>9. record.state # "none"
      BY <1>4, RecordThere DEF At, Unregistered
    <2>10. ASSUME kind = "portable" PROVE PortableFits(p)'
      <3>1. lock' = lock /\ lock.holder = p
        BY <1>1, <1>4, <2>2, <2>10 DEF PortableFits, At, Holding, effects
      <3>2. proc'["owner"].pc \notin Early
        BY <1>4, <2>5 DEF Early, Unjournaled, Unregistered
      <3> QED
        BY <2>5, <3>1, <3>2, RecordFacts DEF PortableFits, Done, Holding, Completed, RolledBack
    <2> QED
      BY <1>4, <2>5, <2>6, <2>7, <2>8, <2>9, <2>10, WalkKept
         DEF Early, Unjournaled, Unregistered, Starting
  <1>5. CASE p = "owner" /\ ~At(p, "MarkCommitAccepted")
    <2>1. Restarts(p, "ended")
      <3>1. proc' = [proc EXCEPT ![p] = [Fresh EXCEPT !.pc = "ended"]]
        BY <1>5 DEF Throw
      <3> QED
        BY <1>1, <3>1, RestartEffect DEF Pcs
    <2>2. ClaimStays
      <3>1. claim' = IF claim.by = p THEN [claim EXCEPT !.live = FALSE] ELSE claim
        BY <1>5 DEF Throw
      <3> QED
        BY <1>1, <3>1, ClaimDropped
    <2>3. stage' \in {"gone", stage} /\ journal' \in {"none", journal}
      BY <1>5 DEF Throw
    <2>4. lock' = Released(p)
      BY <1>5 DEF Throw
    <2>5. /\ lock' \in LockType /\ lock'.holder # p
          /\ \A q \in Processes \ {p} : lock'.holder = q <=> lock.holder = q
          /\ lock.file /\ lock'.holder # "none" => lock'.file
      BY <1>1, <2>4, ReleasedEffect, NamesDiffer
    <2>6. TypeOK'
      BY <1>1, <2>1, <2>2, <2>3, <2>5, TypeKept
         DEF TypeOK, Restarts, Enters, ClaimStays
    <2>7. Leaves(p)
      BY <1>2, <1>5, <2>1, <2>2, <2>3, <2>5 DEF Leaves, Restarts, Enters
    <2> QED
      BY <1>5, <2>1, <2>6, <2>7, LeaveKept DEF Restarts, Enters
  <1>6. CASE p # "owner"
    <2> DEFINE out == ThrownOut(p)
               r == [proc[p] EXCEPT !.pc = "answering", !.seen = NoRecord, !.out = out]
    <2>1. /\ proc' = [proc EXCEPT ![p].pc = "answering", ![p].seen = NoRecord,
                                  ![p].out = out]
          /\ lock' = Released(p) /\ UNCHANGED <<claim, stage, journal>>
      BY <1>6 DEF Throw
    <2>2. out \in Outs /\ "answering" \in Pcs
      BY DEF ThrownOut, Pcs, Outs
    <2>3. Enters(p, "answering", NoRecord, proc[p].base, out, proc[p].then)
      <3> HIDE DEF out
      <3>1. r \in ProcType
        BY <1>1, <2>2, RecordFacts DEF TypeOK, ProcType
      <3>2. proc' = [proc EXCEPT ![p] = r]
        BY <1>1, <2>1 DEF TypeOK
      <3> QED
        BY <1>1, <3>1, <3>2 DEF TypeOK, Enters, Moves, ProcType
    <2>4. /\ lock' \in LockType /\ lock'.holder # p
          /\ \A q \in Processes \ {p} : lock'.holder = q <=> lock.holder = q
          /\ lock.file /\ lock'.holder # "none" => lock'.file
      BY <1>1, <2>1, ReleasedEffect, NamesDiffer
    <2>5. ClaimStays
      BY <1>1, <2>1 DEF ClaimStays, TypeOK, ClaimType
    <2>6. TypeOK'
      <3>1. Moves(p) /\ UNCHANGED <<stage, journal>>
        BY <2>1, <2>3 DEF Enters
      <3> HIDE DEF out
      <3> QED
        BY <1>1, <2>4, <2>5, <3>1, TypeKept DEF TypeOK, ClaimStays
    <2>7. Leaves(p)
      BY <1>2, <1>6, <2>1, <2>3, <2>4, <2>5 DEF Leaves, Enters
    <2>8. kind = "portable" /\ out \in {"completed", "rolledBack", "relaunchFailure"}
             => Terminal
      BY <1>1 DEF ThrownOut, PortableFits, Done
    <2> QED
      BY <1>6, <2>3, <2>6, <2>7, <2>8, LeaveKept DEF Enters
  <1> QED
    BY <1>4, <1>5, <1>6
-----------------------------------------------------------------------------
(* The index: what an operation writes, and where it goes on.              *)

LEMMA UpdatedState ==
    ASSUME TypeOK, NEW p \in Processes, ProcessFits(p), proc[p].pc \in Operations,
           NEW r \in Records
    PROVE  /\ Updated(p, r) \in Records
           /\ At(p, "PersistActive") => Updated(p, r).state = "prepared"
           /\ At(p, "MarkCommitAccepted") => Updated(p, r).state = "commitAccepted"
           /\ At(p, "MarkCancelling") => Updated(p, r).state = "cancelling"
           /\ At(p, "PersistCleanupPending") =>
                 Updated(p, r).state = CleanupStateOf(proc[p].out)
           /\ At(p, "PersistTerminal") => Updated(p, r).state = proc[p].out
           /\ proc[p].pc \in {"MarkRelaunchPending", "MarkRelaunchAttempting",
                              "PersistRelaunchOutcome"} => Updated(p, r).state = r.state
  <1>1. CASE At(p, "PersistActive")
    BY <1>1 DEF Updated, At, Records, RecordStates
  <1>2. CASE At(p, "MarkCommitAccepted")
    BY <1>2 DEF Updated, At, Records, RecordStates, RelaunchStates
  <1>3. CASE At(p, "MarkCancelling")
    BY <1>3 DEF Updated, At, Records, RecordStates
  <1>4. CASE At(p, "MarkRelaunchPending")
    BY <1>4 DEF Updated, At, Records, RelaunchStates
  <1>5. CASE At(p, "MarkRelaunchAttempting")
    BY <1>5 DEF Updated, At, Records, RelaunchStates
  <1>6. CASE At(p, "PersistRelaunchOutcome")
    BY <1>6 DEF Updated, At, Records, RelaunchStates, ProcessFits
  <1>7. CASE At(p, "PersistCleanupPending")
    BY <1>7 DEF Updated, At, Records, RecordStates, CleanupStates, CleanupStateOf
  <1>8. CASE At(p, "PersistTerminal")
    BY <1>8 DEF Updated, At, Records, RecordStates, TerminalStates, ProcessFits
  <1> QED
    BY <1>1, <1>2, <1>3, <1>4, <1>5, <1>6, <1>7, <1>8 DEF Operations, At

(* A process that has done its operation.                                  *)
LEMMA AfterFits ==
    ASSUME UpdateInv, NEW p \in Processes, proc[p].pc \in Operations,
           Enters(p, After(p), NoRecord, proc[p].base, proc[p].out, proc[p].then),
           UNCHANGED <<fixed, lock, journal, target>>,
           kind = "portable" /\ Terminal => Terminal',
           At(p, "MarkCancelling") => record'.state = "cancelling",
           At(p, "PersistTerminal") => record'.state = proc[p].out
    PROVE  /\ ProcessFits(p)' /\ (kind = "portable" => PortableFits(p)')
           /\ proc'[p].pc \notin Early \cup {"swapping"}
           /\ p = "owner" /\ proc'[p].pc = "committed" => At(p, "MarkCommitAccepted")
           /\ proc'[p].pc \in Starting => proc[p].pc \in Starting
  <1>1. ProcessFits(p) /\ (kind = "portable" => PortableFits(p))
    BY DEF UpdateInv, ServiceInv, LocalFits, PortableInv
  <1>2. /\ Moves(p) /\ proc'[p].pc = After(p) /\ proc'[p].seen = NoRecord
        /\ proc'[p].base = proc[p].base /\ proc'[p].out = proc[p].out
        /\ proc'[p].then = proc[p].then /\ NoRecord.state = "none" /\ kind' = kind
    BY RecordFacts DEF Enters, fixed
  <1>3. CASE At(p, "PersistActive") \/ At(p, "MarkCommitAccepted")
    <2>1. After(p) = IF At(p, "PersistActive") THEN "reserved" ELSE "committed"
      BY <1>3 DEF After, At
    <2>2. p = "owner"
      BY <1>1, <1>3 DEF ProcessFits, At, RecoveryPcs, Shared, Done
    <2>3. ProcessFits(p)'
      BY <1>2, <2>1, <2>2 DEF ProcessFits, OwnerPcs
    <2>4. kind = "portable" => PortableFits(p)'
      BY <1>1, <1>2, <1>3, <2>1, <2>2
         DEF PortableFits, At, Holding, Done, Early, Unjournaled, Unregistered, Completed,
             RolledBack
    <2> QED
      BY <1>2, <1>3, <2>1, <2>3, <2>4 DEF Early, Unjournaled, Unregistered, Starting, At
  <1>4. CASE At(p, "MarkCancelling")
    <2>1. After(p) = proc[p].then
      BY <1>4 DEF After, At
    <2>2. /\ proc[p].then \in {"rollingBack", "inspecting", "PersistCleanupPending"}
          /\ kind = "portable" => proc[p].then # "PersistCleanupPending"
          /\ proc[p].then = "PersistCleanupPending" => proc[p].out = "rolledBack"
          /\ proc[p].then = "inspecting" => p # "owner"
      BY <1>1, <1>4 DEF ProcessFits, At, Directory
    <2>3. ProcessFits(p)'
      BY <1>2, <2>1, <2>2 DEF ProcessFits, OwnerPcs, RecoveryPcs, Shared
    <2>4. ASSUME kind = "portable" PROVE PortableFits(p)'
      <3>1. lock' = lock /\ lock.holder = p
        BY <1>1, <1>4, <2>4 DEF PortableFits, At, Holding
      <3>2. proc'["owner"].pc \in Early => p # "owner" /\ proc["owner"].pc \in Early
        BY <1>2, <2>1, <2>2, NamesDiffer DEF Moves, Early, Unjournaled, Unregistered
      <3>3. proc'["owner"].pc \in Early => p # "owner" /\ proc[p].base # "commitAccepted"
        BY <1>1, <2>4, <3>2 DEF PortableFits
      <3>4. record'.state \in Cancelled
        BY <1>4 DEF Cancelled
      <3> QED
        BY <1>2, <2>1, <2>2, <2>4, <3>1, <3>3, <3>4
           DEF PortableFits, Holding, Done, Completed, RolledBack
    <2> QED
      BY <1>2, <2>1, <2>2, <2>3, <2>4 DEF Early, Unjournaled, Unregistered, Starting
  <1>5. CASE At(p, "MarkRelaunchPending") \/ At(p, "PersistCleanupPending")
    <2>1. After(p) = IF At(p, "MarkRelaunchPending") THEN "announcing" ELSE "releasing"
      BY <1>5 DEF After, At
    <2>2. ProcessFits(p)'
      BY <1>1, <1>2, <1>5, <2>1
         DEF ProcessFits, At, OwnerPcs, RecoveryPcs, Shared, Done, Early, Unjournaled,
             Unregistered
    <2>3. ASSUME kind = "portable" PROVE PortableFits(p)'
      <3>1. lock' = lock /\ (lock.holder = p <=> After(p) \in Holding)
        BY <1>1, <1>5, <2>1, <2>3 DEF PortableFits, At, Holding
      <3>2. proc'["owner"].pc \in Early => p # "owner" /\ proc["owner"].pc \in Early
        BY <1>2, <2>1, NamesDiffer DEF Moves, Early, Unjournaled, Unregistered
      <3>3. proc'["owner"].pc \in Early => p # "owner" /\ proc[p].base # "commitAccepted"
        BY <1>1, <2>3, <3>2 DEF PortableFits
      <3> QED
        BY <1>2, <2>1, <3>1, <3>3 DEF PortableFits, Done, Completed, RolledBack
    <2> QED
      BY <1>2, <2>1, <2>2, <2>3 DEF Early, Unjournaled, Unregistered, Starting
  <1>6. CASE At(p, "MarkRelaunchAttempting") \/ At(p, "PersistRelaunchOutcome")
             \/ At(p, "PersistTerminal")
    <2>1. After(p) = CASE At(p, "MarkRelaunchAttempting") -> "launching"
                       [] At(p, "PersistRelaunchOutcome") -> "relaunched"
                       [] OTHER -> "settled"
      BY <1>6 DEF After, At
    <2>2. /\ After(p) \in {"launching", "relaunched", "settled"}
          /\ After(p) = "launching" => At(p, "MarkRelaunchAttempting")
          /\ After(p) = "settled" => At(p, "PersistTerminal")
      BY <1>6, <2>1 DEF At
    <2>3. ProcessFits(p)'
      BY <1>1, <1>2, <2>2 DEF ProcessFits, At, OwnerPcs, RecoveryPcs, Shared, Done
    <2>4. ASSUME kind = "portable" PROVE PortableFits(p)'
      <3>1. lock' = lock /\ lock.holder # p
        BY <1>1, <1>6, <2>4 DEF PortableFits, At, Holding
      <3>2. proc'["owner"].pc \in Early => p # "owner" /\ proc["owner"].pc \in Early
        BY <1>2, <2>2, NamesDiffer DEF Moves, Early, Unjournaled, Unregistered
      <3>3. proc'["owner"].pc \in Early => p # "owner" /\ proc[p].base # "commitAccepted"
        BY <1>1, <2>4, <3>2 DEF PortableFits
      <3>4. Terminal'
        BY <1>1, <1>6, <2>4 DEF PortableFits, At, Done, ProcessFits, Terminal, TerminalStates
      <3> QED
        BY <1>2, <2>2, <3>1, <3>3, <3>4 DEF PortableFits, Holding, Completed, RolledBack
    <2> QED
      BY <1>2, <2>2, <2>3, <2>4 DEF Early, Unjournaled, Unregistered, Starting, At
  <1> QED
    BY <1>3, <1>4, <1>5, <1>6 DEF Operations, At

LEMMA OperationIsLate ==
    ASSUME NEW p, proc[p].pc \in Operations
    PROVE  Alive(p) /\ proc[p].pc \notin Early \cup {"ended", "committed", "swapping"}
  BY DEF Operations, Alive, Early, Unjournaled, Unregistered

LEMMA AfterIsPc ==
    ASSUME TypeOK, NEW p \in Processes, ProcessFits(p), proc[p].pc \in Operations
    PROVE  After(p) \in Pcs
  BY DEF Operations, After, At, Pcs, ProcessFits

LEMMA LoadKept ==
    ASSUME UpdateInv, NEW p \in Processes, LoadIndex(p)
    PROVE  UpdateInv'
  <1>1. TypeOK /\ ProcessFits(p) /\ (kind = "portable" => PortableFits(p))
    BY DEF UpdateInv, ServiceInv, LocalFits, PortableInv
  <1>2. /\ proc[p].pc \in Operations /\ proc[p].seen = NoRecord
        /\ UNCHANGED <<fixed, record, target, world>>
    BY DEF LoadIndex
  <1>3. record.state # "none" /\ Alive(p)
    BY <1>2, RecordThere, OperationIsLate DEF Early, Unjournaled
  <1>4. kind = "portable" /\ lock.holder # "none" => lock.file
    BY DEF UpdateInv, PortableInv, LockFits
  <1>5. CASE AlreadyDone(p, record) /\ Goto(p, After(p)) /\ UNCHANGED effects
    <2>1. Enters(p, After(p), NoRecord, proc[p].base, proc[p].out, proc[p].then)
      BY <1>1, <1>2, <1>5, AfterIsPc, GotoEffect DEF Passes
    <2>2. Moves(p)
      BY <2>1 DEF Enters
    <2>3. TypeOK'
      BY <1>1, <1>2, <1>5, <2>2, TypeKept DEF TypeOK, effects, world, ClaimType, LockType
    <2>4. Updated(p, record) = record /\ ~At(p, "MarkCommitAccepted")
      BY <1>5 DEF AlreadyDone, At
    <2>5. /\ At(p, "MarkCancelling") => record'.state = "cancelling"
          /\ At(p, "PersistTerminal") => record'.state = proc[p].out
      BY <1>1, <1>2, <2>4, UpdatedState DEF TypeOK
    <2>6. /\ ProcessFits(p)' /\ (kind = "portable" => PortableFits(p)')
          /\ proc'[p].pc \notin Early \cup {"swapping"}
          /\ p = "owner" => proc'[p].pc # "committed"
          /\ proc'[p].pc \in Starting => proc[p].pc \in Starting
      BY <1>2, <1>5, <2>1, <2>4, <2>5, AfterFits DEF effects, Terminal
    <2>7. Steady(p)
      BY <1>1, <1>2, <1>4, <1>5 DEF Steady, Rests, effects, world, ClaimStays, TypeOK, ClaimType
    <2>8. proc'[p].base = proc[p].base /\ proc'[p].pc \notin {"idle", "locking"}
      BY <2>1, <2>6 DEF Enters, Early, Unjournaled, Unregistered
    <2> QED
      BY <1>3, <2>2, <2>3, <2>6, <2>7, <2>8, WalkKept
  <1>6. CASE /\ Allows(p, record) /\ UNCHANGED effects
             /\ proc' = [proc EXCEPT ![p].seen = Updated(p, record)]
    <2> DEFINE seen == Updated(p, record)
               r == [proc[p] EXCEPT !.seen = seen]
    <2>1. seen \in Records /\ record \in Records
      BY <1>1, <1>2, UpdatedState DEF TypeOK
    <2>2. Enters(p, proc[p].pc, seen, proc[p].base, proc[p].out, proc[p].then)
      <3>1. proc' = [proc EXCEPT ![p].seen = seen]
        BY <1>6
      <3> HIDE DEF seen
      <3>2. r \in ProcType /\ proc' = [proc EXCEPT ![p] = r]
        BY <1>1, <2>1, <3>1 DEF TypeOK, ProcType
      <3> QED
        BY <1>1, <3>2 DEF TypeOK, Enters, Moves, ProcType
    <2>3. /\ Moves(p) /\ proc'[p].pc = proc[p].pc /\ proc'[p].seen = seen
          /\ proc'[p].base = proc[p].base /\ proc'[p].out = proc[p].out
          /\ proc'[p].then = proc[p].then /\ kind' = kind
      BY <1>2, <2>2 DEF Enters, fixed
    <2>4. TypeOK'
      BY <1>1, <1>2, <1>6, <2>3, TypeKept DEF TypeOK, effects, world, ClaimType, LockType
    <2>5. Steady(p)
      BY <1>1, <1>2, <1>4, <1>6 DEF Steady, Rests, effects, world, ClaimStays, TypeOK, ClaimType
    <2>6. /\ At(p, "PersistActive") => seen.state = "prepared"
          /\ At(p, "MarkCommitAccepted") => seen.state = "commitAccepted"
          /\ At(p, "MarkCancelling") => seen.state = "cancelling"
          /\ At(p, "PersistCleanupPending") => seen.state = CleanupStateOf(proc[p].out)
          /\ At(p, "PersistTerminal") => seen.state = proc[p].out
          /\ proc[p].pc \in {"MarkRelaunchPending", "MarkRelaunchAttempting",
                             "PersistRelaunchOutcome"} => seen.state = record.state
      BY <1>1, <1>2, <2>1, UpdatedState
    <2>7. seen.state # "none"
      BY <1>1, <1>2, <1>3, <2>6 DEF Operations, At, CleanupStateOf, ProcessFits
    <2> HIDE DEF seen
    <2>8. ProcessFits(p)'
      BY <1>1, <1>2, <2>3, <2>6, <2>7 DEF ProcessFits, At, Directory
    <2>9. ASSUME kind = "portable" PROVE PortableFits(p)'
      <3>1. /\ lock' = lock /\ target' = target /\ journal' = journal
            /\ Terminal' = Terminal /\ record' = record
        BY <1>2, <1>6 DEF effects, Terminal
      <3>2. proc'["owner"].pc = proc["owner"].pc
        BY <2>3, NamesDiffer DEF Moves
      <3>3. SwapFits
        BY <2>9 DEF UpdateInv, PortableInv
      <3>4. SwapIsOff => SwapIsOff'
        <4>1. \A q \in Processes : /\ proc'[q].pc = proc[q].pc /\ proc'[q].base = proc[q].base
          BY <2>3 DEF Moves
        <4> QED
          BY <3>1, <4>1, NamesDiffer DEF SwapIsOff, Processes
      <3>5. At(p, "PersistTerminal") =>
               /\ seen.state = "completed" => record.state = "completedCleanupPending"
               /\ seen.state = "rolledBack" => record.state = "rolledBackCleanupPending"
        BY <1>6, <2>6 DEF Allows, At, PersistTerminalAllows, CleanupStateOf
      <3>6. proc["owner"].pc \in Early => seen.state # "commitAccepted"
        <4>1. At(p, "MarkCommitAccepted") => p = "owner" /\ proc["owner"].pc \notin Early
          BY <1>1 DEF ProcessFits, RecoveryPcs, Shared, Done, At, Early, Unjournaled,
                      Unregistered
        <4> QED
          BY <1>1, <1>2, <2>6, <3>3, <4>1
             DEF SwapFits, Operations, At, CleanupStateOf, ProcessFits
      <3>7. seen.state \in Completed => target = "new"
        BY <1>1, <1>2, <2>6, <2>9, <3>3, <3>5
           DEF PortableFits, SwapFits, Operations, At, CleanupStateOf, Completed, ProcessFits
      <3>8. seen.state \in RolledBack => SwapIsOff
        BY <1>1, <1>2, <2>6, <2>9, <3>3, <3>5
           DEF PortableFits, SwapFits, Operations, At, CleanupStateOf, RolledBack, ProcessFits
      <3> QED
        BY <1>1, <2>3, <2>9, <3>1, <3>2, <3>4, <3>6, <3>7, <3>8 DEF PortableFits
    <2>10. /\ proc'[p].pc \notin Early \cup {"committed", "swapping"}
           /\ proc'[p].pc \notin {"idle", "locking"}
      BY <1>2, <2>3, OperationIsLate DEF Early, Unjournaled, Unregistered
    <2> QED
      BY <1>3, <2>3, <2>4, <2>5, <2>8, <2>9, <2>10, WalkKept
  <1>7. CASE Throw(p)
    BY <1>2, <1>3, <1>7, ThrowKept DEF world
  <1> QED
    BY <1>5, <1>6, <1>7 DEF LoadIndex

(* What the portable store accepts moves a record only forward.            *)
LEMMA ForwardOnly ==
    ASSUME NEW old \in Records, NEW new \in Records, IsRecordForwardTransition(old, new)
    PROVE  /\ old.state \in TerminalStates => new.state = old.state
           /\ old.state \in Cancelled => new.state \in Cancelled
  BY DEF IsRecordForwardTransition, TerminalStates, Cancelled, RolledBack

LEMMA WriteKept ==
    ASSUME UpdateInv, NEW p \in Processes, WriteIndex(p)
    PROVE  UpdateInv'
  <1>1. TypeOK /\ ProcessFits(p) /\ (kind = "portable" => PortableFits(p))
    BY DEF UpdateInv, ServiceInv, LocalFits, PortableInv
  <1>2. /\ proc[p].pc \in Operations /\ proc[p].seen # NoRecord
        /\ UNCHANGED <<fixed, target, world>>
    BY DEF WriteIndex
  <1>3. record.state # "none" /\ Alive(p)
    BY <1>2, RecordThere, OperationIsLate DEF Early, Unjournaled
  <1>4. CASE /\ WriteAccepts(record, proc[p].seen) /\ record' = proc[p].seen
             /\ proc' = [proc EXCEPT ![p].pc = After(p), ![p].seen = NoRecord]
             /\ UNCHANGED effects
    <2> DEFINE r == [proc[p] EXCEPT !.pc = After(p), !.seen = NoRecord]
    <2>1. Enters(p, After(p), NoRecord, proc[p].base, proc[p].out, proc[p].then)
      <3>1. After(p) \in Pcs
        BY <1>1, <1>2, AfterIsPc
      <3>2. r \in ProcType
        BY <1>1, <3>1, RecordFacts DEF TypeOK, ProcType
      <3>3. proc' = [proc EXCEPT ![p] = r]
        BY <1>1, <1>4 DEF TypeOK
      <3> QED
        BY <1>1, <3>2, <3>3 DEF TypeOK, Enters, Moves, ProcType
    <2>2. Moves(p) /\ proc'[p].base = proc[p].base
      BY <2>1 DEF Enters
    <2>3. record' \in Records /\ record \in Records
      BY <1>1, <1>4 DEF TypeOK
    <2>4. TypeOK'
      BY <1>1, <1>2, <1>4, <2>2, <2>3, TypeKept DEF TypeOK, effects, world, ClaimType, LockType
    <2>5. /\ record'.state # "none"
          /\ At(p, "MarkCancelling") => record'.state = "cancelling"
          /\ At(p, "PersistTerminal") => record'.state = proc[p].out
          /\ At(p, "MarkCommitAccepted") => record'.state = "commitAccepted"
      BY <1>1, <1>2, <1>4 DEF ProcessFits, At
    <2>6. kind = "portable" =>
             /\ Terminal => Terminal'
             /\ record.state \in Cancelled => record'.state \in Cancelled
      BY <1>4, <2>3, ForwardOnly DEF WriteAccepts, Terminal
    <2>7. /\ ProcessFits(p)' /\ (kind = "portable" => PortableFits(p)')
          /\ proc'[p].pc \notin Early \cup {"swapping"}
          /\ p = "owner" /\ proc'[p].pc = "committed" => At(p, "MarkCommitAccepted")
          /\ proc'[p].pc \in Starting => proc[p].pc \in Starting
      BY <1>2, <1>4, <2>1, <2>5, <2>6, AfterFits DEF effects
    <2>8. ReachStep(p)
      BY <1>2, <1>3, <2>5, <2>7 DEF ReachStep, Early, Unjournaled
    <2>9. ClaimFits'
      BY <1>1, <1>2, <1>4, <2>2, <2>7, ClaimKept
         DEF ClaimStep, ClaimStays, effects, world, UpdateInv, ServiceInv, TypeOK, ClaimType
    <2>10. ASSUME kind = "portable"
           PROVE  SwapStep(p) /\ ArmStep(p) /\ LockStep(p) /\ SwapFits'
      <3>1. SwapStep(p)
        BY <1>2, <1>4, <2>2, <2>5, <2>6, <2>7, <2>10 DEF SwapStep, effects
      <3>2. ArmStep(p) /\ LockStep(p)
        BY <1>2, <1>4, <2>7, <2>10
           DEF ArmStep, LockStep, effects, world, Early, Unjournaled, UpdateInv, PortableInv,
               LockFits
      <3>3. /\ record'.state \in Completed => target' = "new"
            /\ record'.state \in RolledBack => SwapIsOff'
        BY <1>1, <1>2, <1>4, <2>2, <2>10, <3>1, OffStays DEF PortableFits
      <3>4. proc'["owner"].pc \in Early => record'.state # "commitAccepted"
        BY <1>1, <1>4, <2>2, <2>7, <2>10, NamesDiffer DEF PortableFits, Moves
      <3> QED
        BY <3>1, <3>2, <3>3, <3>4 DEF SwapFits
    <2> QED
      BY <2>2, <2>4, <2>7, <2>8, <2>9, <2>10, WorkKept DEF Works
  <1>5. CASE Throw(p) /\ UNCHANGED record
    BY <1>2, <1>3, <1>5, ThrowKept DEF world
  <1> QED
    BY <1>4, <1>5 DEF WriteIndex
-----------------------------------------------------------------------------
(* The steps of the relaunch, and others that only move the process.       *)

LEMMA NothingSeen ==
    ASSUME UpdateInv, NEW p \in Processes, proc[p].pc \notin Operations
    PROVE  proc[p].seen = NoRecord
  BY DEF UpdateInv, ServiceInv, LocalFits, ProcessFits

(* The world but for p's place.                                            *)
Still == UNCHANGED <<fixed, index, tree, world>>

LEMMA StillSteady ==
    ASSUME UpdateInv, NEW p \in Processes, Still
    PROVE  Steady(p) /\ lock' = lock /\ (Moves(p) => TypeOK')
  <1>1. TypeOK
    BY DEF UpdateInv, ServiceInv
  <1>2. kind = "portable" /\ lock.holder # "none" => lock.file
    BY DEF UpdateInv, PortableInv, LockFits
  <1>3. Steady(p) /\ lock' = lock
    BY <1>1, <1>2 DEF Still, Steady, Rests, index, tree, world, ClaimStays, TypeOK, ClaimType
  <1>4. Moves(p) => TypeOK'
    BY <1>1, TypeKept DEF Still, TypeOK, index, tree, world, ClaimType, LockType
  <1> QED
    BY <1>3, <1>4

LEMMA GoKept ==
    ASSUME UpdateInv, NEW p \in Processes, Still, record.state # "none",
           NEW pc \in Simple, NEW out \in Outs, Passes(p, pc, out),
           proc[p].pc \notin Operations,
           pc \in IF p = "owner" THEN OwnerPcs ELSE RecoveryPcs,
           pc \in {"PersistTerminal", "settled"} =>
              out \in {"completed", "rolledBack", "manualActionRequired"},
           pc \in Holding <=> proc[p].pc \in Holding,
           kind = "portable" /\ pc \in Done => Terminal,
           kind = "portable" /\ p = "host" /\ pc = "answering"
              /\ out \in {"completed", "rolledBack", "relaunchFailure"} => Terminal
    PROVE  UpdateInv'
  <1>1. Enters(p, pc, NoRecord, proc[p].base, out, proc[p].then) /\ Moves(p)
    BY NothingSeen DEF Passes, Enters
  <1>2. Steady(p) /\ lock' = lock /\ TypeOK'
    BY <1>1, StillSteady
  <1>3. kind = "portable" => (lock'.holder = p <=> pc \in Holding)
    BY <1>2 DEF UpdateInv, PortableInv, PortableFits
  <1>4. p # "owner" => proc[p].base # "commitAccepted" \/ proc[p].base = "commitAccepted"
    OBVIOUS
  <1> QED
    BY <1>1, <1>2, <1>3, PassKept

LEMMA SettledKept ==
    ASSUME UpdateInv, NEW p \in Processes, Settled(p)
    PROVE  UpdateInv'
  <1>1. TypeOK /\ ProcessFits(p) /\ (kind = "portable" => Terminal)
    BY DEF UpdateInv, ServiceInv, LocalFits, PortableInv, PortableFits, Settled, At, Done
  <1>2. proc[p].pc = "settled" /\ Still /\ proc[p].out \in Outs
    BY <1>1 DEF Settled, At, Still, TypeOK
  <1>3. record.state # "none"
    BY <1>2, RecordThere DEF Unregistered
  <1>4. PICK pc \in {"ended", "claiming", "disarming", "answering"}, out \in Outs :
           /\ Passes(p, pc, out) /\ (pc = "answering" => p # "owner")
           /\ pc \in {"ended", "disarming"} => p = "owner"
    <2>1. CASE p = "owner" /\ Goto(p, OwnerContinues)
      BY <1>1, <1>2, <2>1, GotoEffect DEF OwnerContinues, Pcs
    <2>2. CASE p # "owner" /\ Goto(p, "claiming")
      BY <1>1, <1>2, <2>2, GotoEffect DEF Pcs
    <2>3. CASE p # "owner" /\ Continue(p, "answering", "relaunchFailure")
      BY <1>1, <1>2, <2>3, ContinueEffect DEF Pcs, Outs
    <2>4. CASE p # "owner" /\ Goto(p, "answering")
      BY <1>1, <1>2, <2>4, GotoEffect DEF Pcs
    <2> QED
      BY <2>1, <2>2, <2>3, <2>4, NamesDiffer DEF Settled
  <1> QED
    BY <1>1, <1>2, <1>3, <1>4, GoKept
       DEF Simple, Operations, Holding, OwnerPcs, RecoveryPcs, Shared, Done

LEMMA RelaunchedKept ==
    ASSUME UpdateInv, NEW p \in Processes, Relaunched(p)
    PROVE  UpdateInv'
  <1>1. TypeOK /\ ProcessFits(p) /\ (kind = "portable" => Terminal)
    BY DEF UpdateInv, ServiceInv, LocalFits, PortableInv, PortableFits, Relaunched, At, Done
  <1>2. proc[p].pc = "relaunched" /\ Still /\ proc[p].out \in Outs
    BY <1>1 DEF Relaunched, At, Still, TypeOK
  <1>3. record.state # "none"
    BY <1>2, RecordThere DEF Unregistered
  <1>4. PICK pc \in {"ended", "disarming", "answering"}, out \in Outs :
           /\ Passes(p, pc, out)
           /\ pc \in {"ended", "disarming"} <=> p = "owner"
    <2>1. CASE p = "owner"
      <3>1. PICK pc \in {"ended", "disarming"} : Goto(p, pc)
        BY <2>1 DEF Relaunched
      <3> QED
        BY <1>1, <1>2, <2>1, <3>1, GotoEffect DEF Pcs
    <2>2. CASE p # "owner"
      <3>1. PICK out \in {"relaunchFailure", proc[p].out} : Continue(p, "answering", out)
        BY <2>2 DEF Relaunched
      <3> QED
        BY <1>1, <1>2, <2>2, <3>1, ContinueEffect DEF Pcs, Outs
    <2> QED
      BY <2>1, <2>2
  <1> QED
    BY <1>1, <1>2, <1>3, <1>4, GoKept
       DEF Simple, Operations, Holding, OwnerPcs, RecoveryPcs, Shared, Done

LEMMA ClaimAsType ==
    ASSUME NEW p \in Processes
    PROVE  ClaimAs(p) \in ClaimType /\ ClaimAs(p).state = "claimed"
  BY DEF ClaimAs, ClaimType

LEMMA ClaimResolverKept ==
    ASSUME UpdateInv, NEW p \in Processes, ClaimResolver(p)
    PROVE  UpdateInv'
  <1>1. TypeOK /\ ProcessFits(p) /\ (kind = "portable" => Terminal)
    BY DEF UpdateInv, ServiceInv, LocalFits, PortableInv, PortableFits, ClaimResolver, At, Done
  <1>2. /\ proc[p].pc = "claiming" /\ proc[p].out \in Outs
        /\ UNCHANGED <<fixed, record, target, world>>
    BY <1>1 DEF ClaimResolver, At, TypeOK
  <1>3. record.state # "none" /\ Alive(p)
    BY <1>2, RecordThere DEF Unregistered, Alive
  <1>4. CASE /\ DecideResolverClaim(p) = "own" /\ claim' = ClaimAs(p)
             /\ Goto(p, "consuming") /\ UNCHANGED <<lock, stage, journal>>
    <2>1. Enters(p, "consuming", NoRecord, proc[p].base, proc[p].out, proc[p].then)
      BY <1>1, <1>2, <1>4, GotoEffect, NothingSeen DEF Passes, Pcs, Operations
    <2>2. ClaimStays
      BY <1>4, ClaimAsType DEF ClaimStays, DecideResolverClaim
    <2>3. TypeOK'
      BY <1>1, <1>2, <1>4, <2>1, <2>2, TypeKept DEF TypeOK, world, ClaimStays, LockType, Enters
    <2>4. kind = "portable" =>
             /\ lock.holder # "none" => lock.file
             /\ lock.holder # p
      BY <1>2 DEF UpdateInv, PortableInv, LockFits, PortableFits, Holding
    <2>5. Steady(p)
      BY <1>2, <1>4, <2>2, <2>4 DEF Steady, Rests, world
    <2> QED
      BY <1>1, <1>3, <1>4, <2>1, <2>3, <2>4, <2>5, PassKept
         DEF Simple, OwnerPcs, RecoveryPcs, Shared, Done, Holding
  <1>5. CASE Throw(p)
    BY <1>2, <1>3, <1>5, ThrowKept DEF world
  <1>6. CASE p # "owner" /\ UNCHANGED effects
             /\ \E out \in Outs : Continue(p, "answering", out) \/ Goto(p, "answering")
    <2>1. PICK out \in Outs : Passes(p, "answering", out)
      BY <1>1, <1>2, <1>6, GotoEffect, ContinueEffect DEF Pcs
    <2>2. Still
      BY <1>2, <1>6 DEF Still, index, tree, effects
    <2> QED
      BY <1>1, <1>2, <1>3, <1>6, <2>1, <2>2, GoKept
         DEF Simple, Operations, Holding, RecoveryPcs, Done
  <1>7. CASE /\ p = "host" /\ UNCHANGED effects
             /\ Continue(p, "answering",
                   CASE DecideResolverClaim(p) = "follow" -> "recoveryRequired"
                     [] /\ DecideResolverClaim(p) = "consumed"
                        /\ record.relaunch = "launched" -> proc[p].out
                     [] OTHER -> "relaunchFailure")
    BY <1>2, <1>6, <1>7 DEF Outs
  <1> QED
    BY <1>2, <1>4, <1>5, <1>6, <1>7, NamesDiffer DEF ClaimResolver

(* Consuming the claim: nobody was about to start the app, and nobody else *)
(* will be.                                                                *)
LEMMA ConsumeKept ==
    ASSUME UpdateInv, NEW p \in Processes, ConsumeResolverClaim(p)
    PROVE  UpdateInv'
  <1>1. TypeOK /\ ProcessFits(p) /\ (kind = "portable" => Terminal /\ PortableFits(p))
    BY DEF UpdateInv, ServiceInv, LocalFits, PortableInv, PortableFits, ConsumeResolverClaim,
           At, Done
  <1>2. proc[p].pc = "consuming" /\ UNCHANGED <<fixed, record, target, world>>
    BY DEF ConsumeResolverClaim, At
  <1>3. record.state # "none" /\ Alive(p)
    BY <1>2, RecordThere DEF Unregistered, Alive
  <1>4. CASE /\ claim = ClaimAs(p) /\ claim' = [claim EXCEPT !.state = "consumed"]
             /\ Goto(p, "MarkRelaunchAttempting") /\ UNCHANGED <<lock, stage, journal>>
    <2>1. Enters(p, "MarkRelaunchAttempting", NoRecord, proc[p].base, proc[p].out,
                 proc[p].then)
      BY <1>1, <1>2, <1>4, GotoEffect, NothingSeen DEF Passes, Pcs, Operations
    <2>2. claim' \in ClaimType /\ claim'.state = "consumed" /\ claim.state = "claimed"
      BY <1>4, ClaimAsType DEF ClaimType
    <2>3. /\ Moves(p) /\ proc'[p].pc = "MarkRelaunchAttempting" /\ proc'[p].seen = NoRecord
          /\ proc'[p].base = proc[p].base /\ proc'[p].out = proc[p].out
          /\ NoRecord.state = "none"
      BY <2>1, RecordFacts DEF Enters
    <2>4. TypeOK'
      BY <1>1, <1>2, <1>4, <2>2, <2>3, TypeKept DEF TypeOK, world, LockType
    <2>5. kind = "portable" =>
             /\ lock.holder # "none" => lock.file
             /\ lock.holder # p
      BY <1>2 DEF UpdateInv, PortableInv, LockFits, PortableFits, Holding
    <2>6. Rests(p)
      BY <1>2, <1>4, <2>5 DEF Rests, world
    <2>7. ProcessFits(p)'
      BY <2>3 DEF ProcessFits, OwnerPcs, RecoveryPcs, Shared, Done
    <2>8. ASSUME kind = "portable" PROVE PortableFits(p)'
      <3>1. Terminal' = Terminal /\ lock' = lock
        BY <1>2, <1>4 DEF Terminal
      <3>2. proc'["owner"].pc \in Early => p # "owner" /\ proc["owner"].pc \in Early
        BY <2>3, NamesDiffer DEF Moves, Early, Unjournaled, Unregistered
      <3> QED
        BY <1>1, <2>3, <2>5, <2>8, <3>1, <3>2 DEF PortableFits, Holding, Completed, RolledBack
    <2>9. Works(p)
      BY <1>3, <2>3, <2>6, <2>7, <2>8, WalkWorks DEF Early, Unjournaled, Unregistered
    <2>10. ClaimFits'
      <3>1. /\ launches' = 0
            /\ \A q \in Processes : proc'[q].pc \in Starting => q = p
        BY <1>2, <2>2, <2>3 DEF UpdateInv, ServiceInv, ClaimFits, Moves, world
      <3> QED
        BY <2>2, <3>1 DEF ClaimFits, Processes
    <2> QED
      BY <2>4, <2>9, <2>10, WorkKept
  <1>5. CASE Throw(p)
    BY <1>2, <1>3, <1>5, ThrowKept DEF world
  <1> QED
    BY <1>4, <1>5 DEF ConsumeResolverClaim

LEMMA LaunchKept ==
    ASSUME UpdateInv, NEW p \in Processes, Launch(p)
    PROVE  UpdateInv'
  <1>1. TypeOK /\ ProcessFits(p) /\ (kind = "portable" => Terminal /\ PortableFits(p))
    BY DEF UpdateInv, ServiceInv, LocalFits, PortableInv, PortableFits, Launch, At, Done
  <1>2. /\ proc[p].pc = "launching"
        /\ UNCHANGED <<fixed, index, tree, armed, token, caller, deaths>>
    BY DEF Launch, At
  <1>3. record.state # "none" /\ launches = 0 /\ claim.state = "consumed"
    BY <1>2, RecordThere DEF Unregistered, UpdateInv, ServiceInv, ClaimFits, Starting
  <1>4. PICK then \in {"launched", "launchFailed"} :
           proc' = [proc EXCEPT ![p].pc = "PersistRelaunchOutcome", ![p].then = then]
    BY DEF Launch
  <1>5. launches' \in {0, 1}
    BY <1>3 DEF Launch
  <1>6. Enters(p, "PersistRelaunchOutcome", NoRecord, proc[p].base, proc[p].out, then)
    <2> DEFINE r == [proc[p] EXCEPT !.pc = "PersistRelaunchOutcome", !.then = then]
    <2>1. "PersistRelaunchOutcome" \in Pcs /\ proc[p].seen = NoRecord
      BY <1>2, NothingSeen DEF Pcs, Operations
    <2>2. r \in ProcType
      BY <1>1, <2>1 DEF TypeOK, ProcType
    <2>3. proc' = [proc EXCEPT ![p] = r]
      BY <1>1, <1>4 DEF TypeOK
    <2> QED
      BY <1>1, <2>1, <2>2, <2>3 DEF TypeOK, Enters, Moves, ProcType
  <1>7. /\ Moves(p) /\ proc'[p].pc = "PersistRelaunchOutcome" /\ proc'[p].seen = NoRecord
        /\ proc'[p].base = proc[p].base /\ proc'[p].out = proc[p].out
        /\ proc'[p].then = then /\ NoRecord.state = "none"
    BY <1>6, RecordFacts DEF Enters
  <1>8. TypeOK'
    BY <1>1, <1>2, <1>5, <1>7, TypeKept DEF TypeOK, index, tree, ClaimType, LockType
  <1>9. kind = "portable" =>
           /\ lock.holder # "none" => lock.file
           /\ lock.holder # p
    BY <1>2 DEF UpdateInv, PortableInv, LockFits, PortableFits, Holding
  <1>10. Rests(p)
    BY <1>2, <1>9 DEF Rests, index, tree
  <1>11. ProcessFits(p)'
    BY <1>7 DEF ProcessFits, OwnerPcs, RecoveryPcs, Shared, Done
  <1>12. ASSUME kind = "portable" PROVE PortableFits(p)'
    <2>1. Terminal' = Terminal /\ lock' = lock
      BY <1>2 DEF Terminal, index, tree
    <2>2. proc'["owner"].pc \in Early => p # "owner" /\ proc["owner"].pc \in Early
      BY <1>7, NamesDiffer DEF Moves, Early, Unjournaled, Unregistered
    <2> QED
      BY <1>1, <1>7, <1>9, <1>12, <2>1, <2>2 DEF PortableFits, Holding, Completed, RolledBack
  <1>13. Works(p)
    BY <1>3, <1>7, <1>10, <1>11, <1>12, WalkWorks DEF Early, Unjournaled, Unregistered
  <1>14. ClaimFits'
    <2>1. \A q \in Processes : proc'[q].pc \notin Starting
      BY <1>2, <1>7 DEF UpdateInv, ServiceInv, ClaimFits, Moves, Starting
    <2>2. launches' <= 1 /\ claim'.state = "consumed"
      BY <1>2, <1>3, <1>5 DEF index
    <2> QED
      BY <2>1, <2>2 DEF ClaimFits, Processes
  <1> QED
    BY <1>8, <1>13, <1>14, WorkKept
-----------------------------------------------------------------------------
(* The steps on the tree.                                                  *)

LEMMA SwapTreeKept ==
    ASSUME UpdateInv, NEW p \in Processes, SwapTree(p)
    PROVE  UpdateInv'
  <1>1. TypeOK /\ ProcessFits(p) /\ (kind = "portable" => PortableFits(p))
    BY DEF UpdateInv, ServiceInv, LocalFits, PortableInv
  <1>2. /\ proc[p].pc = "swapping" /\ journal # "none"
        /\ UNCHANGED <<fixed, index, lock, world>>
    BY DEF SwapTree, At
  <1>3. record.state # "none"
    BY <1>2, RecordThere DEF Unregistered
  <1>4. kind = "portable" /\ lock.holder # "none" => lock.file
    BY DEF UpdateInv, PortableInv, LockFits
  <1>5. CASE UNCHANGED proc
    <2>1. Moves(p) /\ proc' = proc
      BY <1>1, <1>5 DEF TypeOK, Moves, ProcType
    <2>2. /\ target' \in {"away", "new"} /\ target # "new"
          /\ stage' \in {"prepared", "gone"} /\ journal' \in {"moved", journal}
      <3>1. CASE target = "new" /\ Continue(p, "PersistCleanupPending", "completed")
        <4>1. proc'[p].pc = "PersistCleanupPending"
          BY <1>1, <3>1, ContinueEffect DEF Passes, Enters, Pcs, Operations, Outs
        <4> QED
          BY <1>2, <2>1, <4>1
      <3> QED
        BY <3>1 DEF SwapTree
    <2>3. TypeOK'
      BY <1>1, <1>2, <2>1, <2>2, TypeKept DEF TypeOK, index, world, ClaimType, LockType
    <2>4. ProcessFits(p)'
      BY <1>1, <1>2, <2>1 DEF ProcessFits, Directory, fixed
    <2>5. ReachStep(p)
      BY <1>2, <1>3, <2>1 DEF ReachStep, index, Unregistered
    <2>6. ClaimFits'
      BY <1>1, <1>2, <2>1, ClaimKept
         DEF ClaimStep, ClaimStays, index, world, UpdateInv, ServiceInv, TypeOK, ClaimType
    <2>7. ASSUME kind = "portable"
          PROVE  SwapStep(p) /\ ArmStep(p) /\ LockStep(p) /\ PortableFits(p)' /\ SwapFits'
      <3>1. SwapStep(p) /\ record' = record
        BY <1>2, <2>1, <2>2 DEF SwapStep, index, Terminal, Early, Unjournaled, Unregistered
      <3>2. ArmStep(p) /\ LockStep(p)
        BY <1>2, <1>4, <2>1, <2>2, <2>7
           DEF ArmStep, LockStep, world, Unjournaled, Unregistered
      <3>3. PortableFits(p)'
        BY <1>1, <1>2, <2>1, <2>2, <2>7, <3>1, OffStays DEF PortableFits, Terminal
      <3> QED
        BY <2>1, <2>7, <3>1, <3>2, <3>3, SameRecord DEF UpdateInv
    <2> QED
      BY <2>1, <2>3, <2>4, <2>5, <2>6, <2>7, WorkKept DEF Works
  <1>6. CASE /\ target = "new" /\ journal' = "none" /\ UNCHANGED <<target, stage>>
             /\ Continue(p, "PersistCleanupPending", "completed")
    <2>1. /\ Moves(p) /\ proc'[p].pc = "PersistCleanupPending" /\ proc'[p].seen = NoRecord
          /\ proc'[p].base = proc[p].base /\ proc'[p].out = "completed"
          /\ NoRecord.state = "none"
      BY <1>1, <1>2, <1>6, ContinueEffect, NothingSeen, RecordFacts
         DEF Passes, Enters, Pcs, Operations, Outs
    <2>2. TypeOK'
      BY <1>1, <1>2, <1>6, <2>1, TypeKept DEF TypeOK, index, world, ClaimType, LockType
    <2>3. Steady(p)
      BY <1>1, <1>2, <1>4, <1>6
         DEF Steady, Rests, index, world, ClaimStays, TypeOK, ClaimType
    <2>4. ProcessFits(p)'
      BY <2>1 DEF ProcessFits, OwnerPcs, RecoveryPcs, Shared
    <2>5. ASSUME kind = "portable" PROVE PortableFits(p)'
      <3>1. proc'["owner"].pc \in Early => p # "owner" /\ proc["owner"].pc \in Early
        BY <2>1, NamesDiffer DEF Moves, Early, Unjournaled, Unregistered
      <3> QED
        BY <1>1, <1>2, <1>6, <2>1, <2>5, <3>1
           DEF PortableFits, Holding, Done, Completed, RolledBack
    <2> QED
      BY <1>3, <2>1, <2>2, <2>3, <2>4, <2>5, WalkKept
         DEF Early, Unjournaled, Unregistered, Starting
  <1> QED
    BY <1>5, <1>6 DEF SwapTree

LEMMA RollBackTreeKept ==
    ASSUME UpdateInv, NEW p \in Processes, RollBackTree(p)
    PROVE  UpdateInv'
  <1>1. TypeOK /\ ProcessFits(p) /\ (kind = "portable" => PortableFits(p))
    BY DEF UpdateInv, ServiceInv, LocalFits, PortableInv
  <1>2. proc[p].pc = "rollingBack" /\ UNCHANGED <<fixed, record, target, world>>
    BY DEF RollBackTree, At
  <1>3. record.state # "none" /\ Alive(p)
    BY <1>2, RecordThere DEF Unregistered, Alive
  <1>4. CASE /\ journal = "prepared" /\ target = "old" /\ stage' = "staged" /\ journal' = "none"
             /\ Continue(p, "PersistCleanupPending", "rolledBack")
             /\ UNCHANGED <<lock, claim>>
    <2>1. /\ Moves(p) /\ proc'[p].pc = "PersistCleanupPending" /\ proc'[p].seen = NoRecord
          /\ proc'[p].base = proc[p].base /\ proc'[p].out = "rolledBack"
          /\ NoRecord.state = "none"
      BY <1>1, <1>2, <1>4, ContinueEffect, NothingSeen, RecordFacts
         DEF Passes, Enters, Pcs, Operations, Outs
    <2>2. TypeOK'
      BY <1>1, <1>2, <1>4, <2>1, TypeKept DEF TypeOK, world, ClaimType, LockType
    <2>3. Steady(p)
      BY <1>1, <1>2, <1>4
         DEF Steady, Rests, world, ClaimStays, TypeOK, ClaimType, UpdateInv, PortableInv, LockFits
    <2>4. ProcessFits(p)'
      BY <2>1 DEF ProcessFits, OwnerPcs, RecoveryPcs, Shared
    <2>5. ASSUME kind = "portable" PROVE PortableFits(p)'
      <3>1. lock.holder = p
        BY <1>1, <1>2, <2>5 DEF PortableFits, Holding
      <3>2. proc["owner"].pc \notin Unjournaled
        BY <1>4, <2>5 DEF UpdateInv, PortableInv, LockFits
      <3>3. p # "owner" => proc["owner"].pc # "staging"
        BY <2>5, <3>1, NamesDiffer DEF UpdateInv, PortableInv, PortableFits, Holding
      <3>4. proc'["owner"].pc \notin Early
        BY <2>1, <3>2, <3>3, NamesDiffer DEF Moves, Early, Unjournaled, Unregistered
      <3>5. SwapIsOff'
        BY <1>2, <1>4, <3>4 DEF SwapIsOff
      <3> QED
        BY <1>4, <2>1, <3>1, <3>4, <3>5 DEF PortableFits, Holding, Done, Completed
    <2> QED
      BY <1>3, <2>1, <2>2, <2>3, <2>4, <2>5, WalkKept
         DEF Early, Unjournaled, Unregistered, Starting
  <1>5. CASE Throw(p)
    BY <1>2, <1>3, <1>5, ThrowKept DEF world
  <1> QED
    BY <1>4, <1>5 DEF RollBackTree

LEMMA ReleaseKept ==
    ASSUME UpdateInv, NEW p \in Processes, ReleaseOwnership(p)
    PROVE  UpdateInv'
  <1>1. TypeOK /\ ProcessFits(p) /\ (kind = "portable" => PortableFits(p))
    BY DEF UpdateInv, ServiceInv, LocalFits, PortableInv
  <1>2. /\ proc[p].pc = "releasing" /\ Goto(p, "PersistTerminal")
        /\ UNCHANGED <<fixed, index, target, stage, world>>
    BY DEF ReleaseOwnership, At
  <1>3. record.state # "none"
    BY <1>2, RecordThere DEF Unregistered
  <1>4. Enters(p, "PersistTerminal", NoRecord, proc[p].base, proc[p].out, proc[p].then)
    BY <1>1, <1>2, GotoEffect, NothingSeen DEF Passes, Pcs, Operations
  <1>5. lock' \in {Unlocked, lock} /\ journal' \in {"none", journal}
    BY DEF ReleaseOwnership
  <1>6. kind = "portable" => lock' = Unlocked /\ lock.holder = p
    BY <1>1, <1>2 DEF ReleaseOwnership, PortableFits, Holding, Directory
  <1>7. TypeOK'
    BY <1>1, <1>2, <1>4, <1>5, UnlockedType, TypeKept
       DEF TypeOK, index, world, ClaimType, LockType, Enters
  <1>8. Steady(p)
    BY <1>1, <1>2, <1>5, <1>6, UnlockedType, NamesDiffer
       DEF Steady, Rests, index, world, ClaimStays, TypeOK, ClaimType
  <1>9. proc[p].out \in {"completed", "rolledBack"}
    BY <1>1, <1>2 DEF ProcessFits
  <1>10. kind = "portable" => lock'.holder # p
    BY <1>6, UnlockedType, NamesDiffer
  <1> QED
    BY <1>3, <1>4, <1>7, <1>8, <1>9, <1>10, PassKept
       DEF Simple, OwnerPcs, RecoveryPcs, Shared, Holding, Done
-----------------------------------------------------------------------------
(* The steps of a recovery.                                                *)

LEMMA OwnerActiveKept ==
    ASSUME UpdateInv, NEW p \in Processes, p # "owner",
           proc[p].pc \in {"recovering", "locking"}, OwnerActive(p), Still
    PROVE  UpdateInv'
  <1>1. TypeOK
    BY DEF UpdateInv, ServiceInv
  <1>2. PICK pc \in {"answering", "recovering"} : Continue(p, pc, "recoveryRequired")
    BY DEF OwnerActive, Continue
  <1>3. Passes(p, pc, "recoveryRequired")
    BY <1>1, <1>2, ContinueEffect DEF Pcs, Outs
  <1>4. record.state # "none"
    <2>1. proc[p].pc # "idle"
      OBVIOUS
    <2> QED
      BY <2>1 DEF UpdateInv, ServiceInv, ReachFits
  <1> QED
    BY <1>3, <1>4, GoKept DEF Simple, Outs, Operations, RecoveryPcs, Holding, Done

LEMMA Recovering ==
    ASSUME UpdateInv, NEW p \in Processes, At(p, "recovering")
    PROVE  /\ p # "owner" /\ proc[p].seen = NoRecord /\ record.state # "none"
           /\ proc[p].pc \notin Operations \cup Holding
           /\ kind = "portable" => lock.holder # p
  <1>1. p # "owner"
    BY DEF At, UpdateInv, ServiceInv, LocalFits, ProcessFits, OwnerPcs, Shared, Early,
           Unjournaled, Unregistered, Done
  <1>2. proc[p].pc \notin Operations \cup Holding
    BY DEF At, Operations, Holding
  <1>3. record.state # "none"
    BY RecordThere DEF At, Unregistered
  <1> QED
    BY <1>1, <1>2, <1>3, NothingSeen DEF UpdateInv, PortableInv, PortableFits

LEMMA RecoverManualKept ==
    ASSUME UpdateInv, NEW p \in Processes, RecoverManual(p)
    PROVE  UpdateInv'
  <1>1. TypeOK
    BY DEF UpdateInv, ServiceInv
  <1>2. At(p, "recovering") /\ Still /\ Continue(p, "answering", "manualActionRequired")
    BY DEF RecoverManual, Still
  <1>3. Passes(p, "answering", "manualActionRequired")
    BY <1>1, <1>2, ContinueEffect DEF Pcs, Outs
  <1> QED
    BY <1>2, <1>3, Recovering, GoKept
       DEF Simple, Outs, Operations, RecoveryPcs, Holding, Done

LEMMA RecoverTerminalKept ==
    ASSUME UpdateInv, NEW p \in Processes, RecoverTerminal(p)
    PROVE  UpdateInv'
  <1>1. TypeOK
    BY DEF UpdateInv, ServiceInv
  <1>2. /\ At(p, "recovering") /\ record.state \in {"completed", "rolledBack"}
        /\ Continue(p, "settled", record.state)
        /\ UNCHANGED <<fixed, index, target, stage, world>>
    BY DEF RecoverTerminal
  <1>3. /\ p # "owner" /\ record.state # "none"
        /\ Enters(p, "settled", NoRecord, proc[p].base, record.state, proc[p].then)
    BY <1>1, <1>2, Recovering, ContinueEffect DEF Passes, Pcs, Outs
  <1>4. journal' \in {"none", journal}
    BY DEF RecoverTerminal
  <1>5. lock' = lock \/ (lock.holder = "none" /\ lock' = Unlocked)
    BY DEF RecoverTerminal
  <1>6. TypeOK'
    BY <1>1, <1>2, <1>3, <1>4, <1>5, UnlockedType, TypeKept
       DEF TypeOK, index, world, ClaimType, LockType, Enters
  <1>7. Steady(p)
    BY <1>1, <1>2, <1>4, <1>5, UnlockedType, NamesDiffer
       DEF Steady, Rests, index, world, ClaimStays, TypeOK, ClaimType, UpdateInv, PortableInv,
           LockFits
  <1>8. kind = "portable" => lock'.holder # p
    BY <1>2, <1>5, UnlockedType, Recovering, NamesDiffer
  <1> QED
    BY <1>2, <1>3, <1>6, <1>7, <1>8, PassKept
       DEF Simple, RecoveryPcs, Shared, Holding, Done, Terminal, TerminalStates

LEMMA RecoverCleanupKept ==
    ASSUME UpdateInv, NEW p \in Processes, RecoverCleanupPending(p)
    PROVE  UpdateInv'
  <1>1. TypeOK
    BY DEF UpdateInv, ServiceInv
  <1>2. /\ At(p, "recovering") /\ record.state \in CleanupStates
        /\ UNCHANGED <<fixed, index, target, stage, world>>
    BY DEF RecoverCleanupPending
  <1>3. /\ p # "owner" /\ record.state # "none" /\ proc[p].seen = NoRecord
        /\ kind = "portable" => lock.holder # p
    BY <1>2, Recovering
  <1>4. CASE OwnerActive(p) /\ UNCHANGED journal
    <2>1. Still
      BY <1>2, <1>4 DEF Still, tree, OwnerActive
    <2> QED
      BY <1>2, <1>3, <1>4, <2>1, OwnerActiveKept DEF At
  <1>5. ASSUME NEW out \in {"completed", "rolledBack"},
               proc' = [proc EXCEPT ![p].pc = "PersistTerminal", ![p].out = out,
                                    ![p].base = record.state],
               journal' \in {"none", journal},
               lock' = lock \/ (Directory /\ ~HeldElsewhere(p) /\ lock' = Unlocked)
        PROVE  UpdateInv'
    <2>1. Enters(p, "PersistTerminal", NoRecord, record.state, out, proc[p].then)
      <3> DEFINE r == [proc[p] EXCEPT !.pc = "PersistTerminal", !.out = out,
                                      !.base = record.state]
      <3>1. "PersistTerminal" \in Pcs /\ out \in Outs /\ record.state \in RecordStates
        BY <1>1 DEF Pcs, Operations, Outs, TypeOK, Records
      <3>2. r \in ProcType
        BY <1>1, <3>1 DEF TypeOK, ProcType
      <3>3. proc' = [proc EXCEPT ![p] = r]
        BY <1>1, <1>5 DEF TypeOK
      <3> QED
        BY <1>1, <1>3, <3>2, <3>3 DEF TypeOK, Enters, Moves, ProcType
    <2>2. TypeOK'
      BY <1>1, <1>2, <1>5, <2>1, UnlockedType, TypeKept
         DEF TypeOK, index, world, ClaimType, LockType, Enters
    <2>3. kind = "portable" => lock' = lock \/ (lock.holder = "none" /\ lock' = Unlocked)
      BY <1>3, <1>5 DEF HeldElsewhere
    <2>4. Steady(p)
      BY <1>1, <1>2, <1>5, <2>3, UnlockedType, NamesDiffer
         DEF Steady, Rests, index, world, ClaimStays, TypeOK, ClaimType, UpdateInv, PortableInv,
             LockFits
    <2>5. kind = "portable" => lock'.holder # p
      BY <1>3, <2>3, UnlockedType, NamesDiffer
    <2>6. record.state # "commitAccepted"
      BY <1>2 DEF CleanupStates
    <2> QED
      BY <1>3, <1>5, <2>1, <2>2, <2>4, <2>5, <2>6, PassKept
         DEF Simple, RecoveryPcs, Shared, Holding, Done
  <1>6. VerifiedOutcome(record.state) \in {"completed", "rolledBack"}
    BY DEF VerifiedOutcome
  <1>7. CASE Continue(p, "answering", "manualActionRequired") /\ UNCHANGED <<journal, lock>>
    <2>1. Still
      BY <1>2, <1>7 DEF Still, tree
    <2>2. Passes(p, "answering", "manualActionRequired")
      BY <1>1, <1>7, ContinueEffect DEF Pcs, Outs
    <2> QED
      BY <1>2, <1>3, <2>1, <2>2, Recovering, GoKept
         DEF Simple, Outs, Operations, RecoveryPcs, Holding, Done
  <1> QED
    BY <1>4, <1>5, <1>6, <1>7 DEF RecoverCleanupPending

LEMMA LoadForRecoveryKept ==
    ASSUME UpdateInv, NEW p \in Processes, LoadForRecovery(p)
    PROVE  UpdateInv'
  <1>1. TypeOK /\ (kind = "portable" => PortableFits(p) /\ SwapFits)
    BY DEF UpdateInv, ServiceInv, PortableInv
  <1>2. /\ At(p, "recovering") /\ Still
        /\ proc' = [proc EXCEPT ![p].pc = "lookingUp", ![p].base = record.state]
    BY DEF LoadForRecovery, Still
  <1>3. /\ p # "owner" /\ record.state # "none" /\ proc[p].seen = NoRecord
        /\ kind = "portable" => lock.holder # p
    BY <1>2, Recovering
  <1>4. Enters(p, "lookingUp", NoRecord, record.state, proc[p].out, proc[p].then)
    <2> DEFINE r == [proc[p] EXCEPT !.pc = "lookingUp", !.base = record.state]
    <2>1. "lookingUp" \in Pcs /\ record.state \in RecordStates
      BY <1>1 DEF Pcs, TypeOK, Records
    <2>2. r \in ProcType
      BY <1>1, <2>1 DEF TypeOK, ProcType
    <2>3. proc' = [proc EXCEPT ![p] = r]
      BY <1>1, <1>2 DEF TypeOK
    <2> QED
      BY <1>1, <1>3, <2>2, <2>3 DEF TypeOK, Enters, Moves, ProcType
  <1>5. /\ Moves(p) /\ proc'[p].pc = "lookingUp" /\ proc'[p].seen = NoRecord
        /\ proc'[p].base = record.state /\ NoRecord.state = "none"
    BY <1>4, RecordFacts DEF Enters
  <1>6. TypeOK' /\ Steady(p) /\ lock' = lock
    BY <1>2, <1>5, StillSteady
  <1>7. ProcessFits(p)'
    <2>1. Directory'
      BY DEF LoadForRecovery, Directory, fixed
    <2> QED
      BY <1>3, <1>5, <2>1 DEF ProcessFits, RecoveryPcs, Shared
  <1>8. ASSUME kind = "portable" PROVE PortableFits(p)'
    <2>1. proc'["owner"] = proc["owner"]
      BY <1>3, <1>5, NamesDiffer DEF Moves
    <2> QED
      BY <1>1, <1>3, <1>5, <1>6, <1>8, <2>1
         DEF PortableFits, SwapFits, Holding, Done, Completed, RolledBack
  <1> QED
    BY <1>3, <1>5, <1>6, <1>7, <1>8, WalkKept DEF Early, Unjournaled, Unregistered, Starting

(* The outcome of an interrupted installer.                                *)
LEMMA RecoverInnoKept ==
    ASSUME UpdateInv, NEW p \in Processes, RecoverInno(p)
    PROVE  UpdateInv'
  <1> DEFINE out == DecideInnoRecovery(record.state)
             pc == CASE out = "completed" -> "PersistCleanupPending"
                     [] out = "rolledBack" -> "MarkCancelling"
                     [] OTHER -> "PersistTerminal"
             r == [proc[p] EXCEPT !.base = record.state, !.out = out,
                                  !.then = "PersistCleanupPending", !.pc = pc]
  <1>1. TypeOK
    BY DEF UpdateInv, ServiceInv
  <1>2. /\ At(p, "recovering") /\ ~Directory
        /\ UNCHANGED <<fixed, index, target, stage, journal, world>>
    BY DEF RecoverInno
  <1>3. p # "owner" /\ record.state # "none" /\ proc[p].seen = NoRecord
    BY <1>2, Recovering
  <1>4. CASE OwnerActive(p)
    <2>1. Still
      BY <1>2, <1>4 DEF Still, tree, OwnerActive
    <2> QED
      BY <1>2, <1>3, <1>4, <2>1, OwnerActiveKept DEF At
  <1>5. CASE /\ UNCHANGED lock
             /\ proc' = [proc EXCEPT ![p].base = record.state, ![p].out = out,
                            ![p].then = "PersistCleanupPending", ![p].pc = pc]
    <2>1. Still
      BY <1>2, <1>5 DEF Still, tree
    <2>2. /\ out \in {"completed", "rolledBack", "manualActionRequired"}
          /\ pc \in {"PersistCleanupPending", "MarkCancelling", "PersistTerminal"}
          /\ pc = "PersistCleanupPending" => out = "completed"
          /\ pc = "MarkCancelling" => out = "rolledBack"
      BY DEF DecideInnoRecovery
    <2>3. proc' = [proc EXCEPT ![p].base = record.state, ![p].out = out,
                      ![p].then = "PersistCleanupPending", ![p].pc = pc]
      BY <1>5
    <2> HIDE DEF out, pc
    <2>4. /\ pc \in Pcs /\ out \in Outs /\ record.state \in RecordStates
          /\ "PersistCleanupPending" \in Pcs
      BY <1>1, <2>2 DEF Pcs, Operations, Outs, TypeOK, Records
    <2>5. Enters(p, pc, NoRecord, record.state, out, "PersistCleanupPending")
      <3>1. r \in ProcType
        BY <1>1, <2>4 DEF TypeOK, ProcType
      <3>2. proc' = [proc EXCEPT ![p] = r]
        BY <1>1, <2>3 DEF TypeOK
      <3> QED
        BY <1>1, <1>3, <3>1, <3>2 DEF TypeOK, Enters, Moves, ProcType
    <2>6. /\ Moves(p) /\ proc'[p].pc = pc /\ proc'[p].seen = NoRecord
          /\ proc'[p].out = out /\ proc'[p].then = "PersistCleanupPending"
      BY <2>5 DEF Enters
    <2>7. TypeOK' /\ Steady(p)
      BY <2>1, <2>6, StillSteady
    <2>8. ~Directory'
      BY <1>2 DEF Directory, fixed
    <2>9. ProcessFits(p)'
      BY <1>3, <2>2, <2>6, <2>8 DEF ProcessFits, RecoveryPcs, Shared
    <2>10. kind # "portable"
      BY <1>2 DEF Directory
    <2> QED
      BY <1>3, <2>2, <2>6, <2>7, <2>9, <2>10, WalkKept
         DEF Early, Unjournaled, Unregistered, Starting
  <1> QED
    BY <1>4, <1>5 DEF RecoverInno

LEMMA LockingFacts ==
    ASSUME UpdateInv, NEW p \in Processes, p # "owner", proc[p].pc \in {"lookingUp", "locking"}
    PROVE  /\ proc[p].seen = NoRecord /\ record.state # "none"
           /\ proc[p].pc \notin Operations \cup Holding /\ Directory
           /\ kind = "portable" => lock.holder # p
  <1>1. proc[p].pc # "idle" /\ proc[p].pc \notin Operations \cup Holding
    BY DEF Operations, Holding
  <1>2. Directory
    BY DEF UpdateInv, ServiceInv, LocalFits, ProcessFits
  <1> QED
    BY <1>1, <1>2, NothingSeen
       DEF UpdateInv, ServiceInv, ReachFits, PortableInv, PortableFits

(* Who recovers a directory has looked at the journal.                     *)
LEMMA LookKept ==
    ASSUME UpdateInv, NEW p \in Processes, p # "owner",
           proc[p].pc \in {"lookingUp", "locking"},
           UNCHANGED <<fixed, index, target, stage, journal, world>>,
           lock' = lock \/ (~HeldElsewhere(p) /\ lock' = Unlocked),
           NEW then \in {"rollingBack", "inspecting"},
           proc' = [proc EXCEPT ![p] = [proc[p] EXCEPT !.pc = "locking", !.then = then]]
    PROVE  UpdateInv'
  <1>1. TypeOK /\ (kind = "portable" => PortableFits(p))
    BY DEF UpdateInv, ServiceInv, PortableInv
  <1>2. /\ proc[p].seen = NoRecord /\ record.state # "none" /\ Directory
        /\ kind = "portable" => lock.holder # p
    BY LockingFacts
  <1>3. Enters(p, "locking", NoRecord, proc[p].base, proc[p].out, then)
    <2>1. then \in Pcs /\ "locking" \in Pcs
      BY DEF Pcs
    <2>2. [proc[p] EXCEPT !.pc = "locking", !.then = then] \in ProcType
      BY <1>1, <2>1 DEF TypeOK, ProcType
    <2> QED
      BY <1>1, <1>2, <2>2 DEF TypeOK, Enters, Moves, ProcType
  <1>4. /\ Moves(p) /\ proc'[p].pc = "locking" /\ proc'[p].seen = NoRecord
        /\ proc'[p].base = proc[p].base /\ NoRecord.state = "none"
    BY <1>3, RecordFacts DEF Enters
  <1>5. TypeOK'
    BY <1>1, <1>4, UnlockedType, TypeKept DEF TypeOK, index, world, ClaimType, LockType
  <1>6. kind = "portable" => lock' = lock \/ (lock.holder = "none" /\ lock' = Unlocked)
    BY <1>2 DEF HeldElsewhere
  <1>7. Steady(p)
    BY <1>1, <1>6, UnlockedType, NamesDiffer
       DEF Steady, Rests, index, world, ClaimStays, TypeOK, ClaimType, UpdateInv, PortableInv,
           LockFits
  <1>8. ProcessFits(p)'
    BY <1>2, <1>4 DEF ProcessFits, RecoveryPcs, Shared, Directory, fixed
  <1>9. ASSUME kind = "portable" PROVE PortableFits(p)'
    <2>1. proc'["owner"] = proc["owner"]
      BY <1>4, NamesDiffer DEF Moves
    <2>2. lock'.holder # p
      BY <1>2, <1>6, <1>9, UnlockedType, NamesDiffer
    <2> QED
      BY <1>1, <1>4, <1>9, <2>1, <2>2
         DEF PortableFits, Holding, Done, Completed, RolledBack
  <1> QED
    BY <1>2, <1>4, <1>5, <1>7, <1>8, <1>9, WalkKept
       DEF Early, Unjournaled, Unregistered, Starting

LEMMA LookingUp ==
    ASSUME UpdateInv, NEW p \in Processes, At(p, "lookingUp")
    PROVE  p # "owner"
  BY DEF At, UpdateInv, ServiceInv, LocalFits, ProcessFits, OwnerPcs, Shared, Early,
         Unjournaled, Unregistered, Done

LEMMA LoadCurrentJournalKept ==
    ASSUME UpdateInv, NEW p \in Processes, LoadCurrentJournal(p)
    PROVE  UpdateInv'
  <1>1. TypeOK
    BY DEF UpdateInv, ServiceInv
  <1>2. At(p, "lookingUp") /\ Still /\ p # "owner" /\ proc[p].pc = "lookingUp"
    BY LookingUp DEF LoadCurrentJournal, Still, At
  <1>3. CASE Continue(p, "answering", "manualActionRequired")
    <2>1. Passes(p, "answering", "manualActionRequired")
      BY <1>1, <1>3, ContinueEffect DEF Pcs, Outs
    <2> QED
      BY <1>2, <2>1, LockingFacts, GoKept DEF Simple, Outs, Operations, RecoveryPcs, Holding, Done
  <1>4. ASSUME NEW then \in {"rollingBack", "inspecting"},
               proc' = [proc EXCEPT ![p].pc = "locking", ![p].then = then]
        PROVE  UpdateInv'
    <2>1. proc' = [proc EXCEPT ![p] = [proc[p] EXCEPT !.pc = "locking", !.then = then]]
      BY <1>1, <1>4 DEF TypeOK
    <2> QED
      BY <1>2, <2>1, LookKept DEF Still, tree
  <1> QED
    BY <1>3, <1>4 DEF LoadCurrentJournal

(* Who recovers takes the free lock.                                       *)
LEMMA RecoveryLocks ==
    ASSUME UpdateInv, NEW p \in Processes, p # "owner", At(p, "locking"),
           lock.holder = "none", lock' = [file |-> TRUE, holder |-> p],
           UNCHANGED <<fixed, index, target, stage, journal, world>>,
           NEW pc \in {"swapping", "MarkCancelling", "inspecting"},
           NEW then \in {"rollingBack", "inspecting"},
           Enters(p, pc, NoRecord, proc[p].base, proc[p].out, then),
           pc \in {"swapping", "inspecting"} => proc[p].base = "commitAccepted",
           pc = "MarkCancelling" => Directory
    PROVE  UpdateInv'
  <1>1. TypeOK /\ (kind = "portable" => PortableFits(p))
    BY DEF UpdateInv, ServiceInv, PortableInv
  <1>2. /\ Moves(p) /\ proc'[p].pc = pc /\ proc'[p].seen = NoRecord
        /\ proc'[p].base = proc[p].base /\ proc'[p].then = then /\ NoRecord.state = "none"
    BY RecordFacts DEF Enters
  <1>3. record.state # "none"
    <2>1. proc[p].pc # "idle"
      BY DEF At
    <2> QED
      BY <2>1 DEF UpdateInv, ServiceInv, ReachFits
  <1>4. lock' \in LockType /\ lock'.holder = p /\ lock'.file
    BY DEF LockType
  <1>5. TypeOK'
    <2>1. /\ record' \in Records /\ claim' \in ClaimType /\ target' \in {"old", "away", "new"}
          /\ stage' \in {"staged", "prepared", "gone"}
          /\ journal' \in {"none", "prepared", "moved"}
          /\ armed' \in BOOLEAN /\ token' \in BOOLEAN /\ caller' \in BOOLEAN
          /\ launches' \in 0..2 /\ deaths' \in 0..MaxDeaths
      BY <1>1 DEF TypeOK, index, world, ClaimType
    <2> QED
      BY <1>1, <1>2, <1>4, <2>1, TypeKept
  <1>6. Steady(p)
    BY <1>1, <1>4, NamesDiffer DEF Steady, Rests, index, world, ClaimStays, TypeOK, ClaimType
  <1>7. ProcessFits(p)'
    BY <1>2 DEF ProcessFits, RecoveryPcs, Shared, Directory, fixed
  <1>8. ASSUME kind = "portable" PROVE PortableFits(p)'
    <2>1. proc'["owner"] = proc["owner"]
      BY <1>2, NamesDiffer DEF Moves
    <2> QED
      BY <1>1, <1>2, <1>4, <1>8, <2>1 DEF PortableFits, Holding, Done, Completed, RolledBack
  <1> QED
    BY <1>2, <1>3, <1>5, <1>6, <1>7, <1>8, WalkKept
       DEF Early, Unjournaled, Unregistered, Starting

LEMMA RecoverWithJournalKept ==
    ASSUME UpdateInv, NEW p \in Processes, RecoverWithJournal(p)
    PROVE  UpdateInv'
  <1>1. TypeOK
    BY DEF UpdateInv, ServiceInv
  <1>2. /\ At(p, "locking") /\ p # "owner" /\ proc[p].pc = "locking"
        /\ proc[p].then = "rollingBack"
        /\ UNCHANGED <<fixed, index, target, stage, journal, world>>
    BY DEF RecoverWithJournal, At
  <1>3. /\ proc[p].seen = NoRecord /\ record.state # "none"
        /\ proc[p].pc \notin Operations \cup Holding /\ Directory
    BY <1>2, LockingFacts
  <1>4. UNCHANGED lock => Still
    BY <1>2 DEF Still, tree
  <1>5. CASE OwnerActive(p)
    BY <1>2, <1>4, <1>5, OwnerActiveKept DEF OwnerActive, At
  <1>6. CASE Continue(p, "answering", "manualActionRequired") /\ UNCHANGED lock
    <2>1. Passes(p, "answering", "manualActionRequired")
      BY <1>1, <1>6, ContinueEffect DEF Pcs, Outs
    <2> QED
      BY <1>2, <1>3, <1>4, <1>6, <2>1, GoKept DEF Simple, Outs, RecoveryPcs, Holding, Done
  <1>7. CASE /\ lock = [file |-> TRUE, holder |-> "none"]
             /\ lock' = [lock EXCEPT !.holder = p]
             /\ Goto(p, IF RecoveryIntent(p) = "swapping" THEN "swapping"
                        ELSE "MarkCancelling")
    <2> DEFINE pc == IF RecoveryIntent(p) = "swapping" THEN "swapping" ELSE "MarkCancelling"
               r == [proc[p] EXCEPT !.pc = pc]
    <2>1. /\ pc \in {"swapping", "MarkCancelling"}
          /\ pc = "swapping" => proc[p].base = "commitAccepted"
      BY DEF RecoveryIntent
    <2>2. proc' = [proc EXCEPT ![p].pc = pc]
      BY <1>7 DEF Goto
    <2> HIDE DEF pc
    <2>3. pc \in Pcs
      BY <2>1 DEF Pcs, Operations
    <2>4. Enters(p, pc, NoRecord, proc[p].base, proc[p].out, "rollingBack")
      <3>1. r \in ProcType
        BY <1>1, <2>3 DEF TypeOK, ProcType
      <3>2. proc' = [proc EXCEPT ![p] = r]
        BY <1>1, <2>2 DEF TypeOK
      <3> QED
        BY <1>1, <1>2, <1>3, <3>1, <3>2 DEF TypeOK, Enters, Moves, ProcType
    <2>5. lock.holder = "none" /\ lock' = [file |-> TRUE, holder |-> p]
      BY <1>7
    <2> QED
      BY <1>2, <1>3, <2>1, <2>4, <2>5, RecoveryLocks
  <1>8. CASE /\ ~HeldElsewhere(p) /\ lock' = Unlocked
             /\ proc' = [proc EXCEPT ![p].then = "inspecting"]
    <2>1. proc' = [proc EXCEPT ![p] = [proc[p] EXCEPT !.pc = "locking", !.then = "inspecting"]]
      <3>1. proc[p] \in ProcType
        BY <1>1 DEF TypeOK, ProcType
      <3> QED
        BY <1>1, <1>2, <1>8, <3>1 DEF TypeOK, ProcType
    <2> QED
      BY <1>2, <1>8, <2>1, LookKept
  <1> QED
    BY <1>5, <1>6, <1>7, <1>8 DEF RecoverWithJournal

LEMMA RecoverWithoutJournalKept ==
    ASSUME UpdateInv, NEW p \in Processes, RecoverWithoutJournal(p)
    PROVE  UpdateInv'
  <1>1. TypeOK
    BY DEF UpdateInv, ServiceInv
  <1>2. /\ At(p, "locking") /\ p # "owner" /\ proc[p].pc = "locking"
        /\ proc[p].then = "inspecting"
        /\ UNCHANGED <<fixed, index, target, stage, journal, world>>
    BY DEF RecoverWithoutJournal, At
  <1>3. proc[p].seen = NoRecord /\ Directory
    BY <1>2, LockingFacts
  <1>4. CASE OwnerActive(p)
    <2>1. Still
      BY <1>2, <1>4 DEF Still, tree, OwnerActive
    <2> QED
      BY <1>2, <1>4, <2>1, OwnerActiveKept DEF At
  <1>5. CASE /\ lock.holder = "none" /\ lock' = [file |-> TRUE, holder |-> p]
             /\ proc' = [proc EXCEPT ![p].created = ~lock.file,
                            ![p].pc = IF proc[p].base = "commitAccepted" THEN "inspecting"
                                      ELSE "MarkCancelling"]
    <2> DEFINE pc == IF proc[p].base = "commitAccepted" THEN "inspecting"
                     ELSE "MarkCancelling"
               created == ~lock.file
               r == [proc[p] EXCEPT !.created = created, !.pc = pc]
    <2>1. /\ pc \in {"inspecting", "MarkCancelling"}
          /\ pc = "inspecting" => proc[p].base = "commitAccepted"
          /\ created \in BOOLEAN
      OBVIOUS
    <2>2. proc' = [proc EXCEPT ![p].created = created, ![p].pc = pc]
      BY <1>5
    <2> HIDE DEF pc, created
    <2>3. pc \in Pcs
      BY <2>1 DEF Pcs, Operations
    <2>4. Enters(p, pc, NoRecord, proc[p].base, proc[p].out, "inspecting")
      <3>1. r \in ProcType
        BY <1>1, <2>1, <2>3 DEF TypeOK, ProcType
      <3>2. proc' = [proc EXCEPT ![p] = r]
        BY <1>1, <2>2 DEF TypeOK
      <3> QED
        BY <1>1, <1>2, <1>3, <3>1, <3>2 DEF TypeOK, Enters, Moves, ProcType
    <2> QED
      BY <1>2, <1>3, <1>5, <2>1, <2>4, RecoveryLocks
  <1> QED
    BY <1>4, <1>5 DEF RecoverWithoutJournal

LEMMA FinalFacts ==
    /\ FinalTopology = "completed" => journal = "none" /\ target = "new"
    /\ FinalTopology = "rolledBack" => journal = "none" /\ target = "old"
  BY DEF FinalTopology

(* A tree that was found final: the swap has happened, or it is off.       *)
LEMMA InspectKept ==
    ASSUME UpdateInv, NEW p \in Processes, InspectTopology(p)
    PROVE  UpdateInv'
  <1>1. TypeOK /\ ProcessFits(p) /\ (kind = "portable" => PortableFits(p))
    BY DEF UpdateInv, ServiceInv, LocalFits, PortableInv
  <1>2. /\ proc[p].pc = "inspecting"
        /\ UNCHANGED <<fixed, index, target, stage, journal, world>>
    BY DEF InspectTopology, At
  <1>3. p # "owner"
    BY <1>1, <1>2 DEF ProcessFits, OwnerPcs, Shared, Early, Unjournaled, Unregistered, Done
  <1>4. record.state # "none" /\ proc[p].seen = NoRecord /\ Alive(p)
    BY <1>2, RecordThere, NothingSeen DEF Unregistered, Operations, Alive
  <1>5. CASE /\ FinalTopology = PromisedOutcome(p) /\ UNCHANGED lock
             /\ Continue(p, "PersistCleanupPending", PromisedOutcome(p))
    <2>1. PromisedOutcome(p) \in {"completed", "rolledBack"}
      BY DEF PromisedOutcome
    <2>2. Still
      BY <1>2, <1>5 DEF Still, tree
    <2>3. Passes(p, "PersistCleanupPending", PromisedOutcome(p))
      BY <1>1, <1>5, <2>1, ContinueEffect DEF Pcs, Operations, Outs
    <2>4. /\ Moves(p) /\ proc'[p].pc = "PersistCleanupPending" /\ proc'[p].seen = NoRecord
          /\ proc'[p].base = proc[p].base /\ proc'[p].out = PromisedOutcome(p)
          /\ NoRecord.state = "none"
      BY <1>4, <2>3, RecordFacts DEF Passes, Enters
    <2>5. TypeOK' /\ Steady(p) /\ lock' = lock
      BY <2>2, <2>4, StillSteady
    <2>6. ProcessFits(p)'
      BY <1>3, <2>1, <2>4 DEF ProcessFits, RecoveryPcs, Shared
    <2>7. ASSUME kind = "portable" PROVE PortableFits(p)'
      <3>1. lock.holder = p /\ proc'["owner"] = proc["owner"]
        BY <1>1, <1>2, <1>3, <2>4, <2>7, NamesDiffer DEF PortableFits, Holding, Moves
      <3>2. PromisedOutcome(p) = "completed" => target' = "new"
        BY <1>2, <1>5, FinalFacts
      <3>3. ASSUME PromisedOutcome(p) = "rolledBack" PROVE SwapIsOff'
        <4>1. journal' = "none" /\ target' = "old"
          BY <1>2, <1>5, <3>3, FinalFacts
        <4>2. CASE proc["owner"].pc \notin Early
          BY <3>1, <4>1, <4>2 DEF SwapIsOff
        <4>3. CASE proc["owner"].pc \in Early
          <5>1. record'.state \in Cancelled
            BY <1>1, <1>2, <2>7, <3>3 DEF PortableFits, PromisedOutcome, index
          <5>2. proc'["owner"].pc # "committed"
            BY <3>1, <4>3 DEF Early, Unjournaled, Unregistered
          <5>3. \A q \in Processes : /\ q # "owner" => proc'[q].base # "commitAccepted"
            BY <2>4, <2>7, <4>3 DEF UpdateInv, PortableInv, PortableFits, Moves
          <5>4. \A q \in Processes : proc'[q].pc # "swapping"
            <6> SUFFICES ASSUME NEW q \in Processes, q # p PROVE proc[q].pc # "swapping"
              BY <2>4 DEF Moves
            <6> QED
              BY <2>7, <3>1 DEF UpdateInv, PortableInv, PortableFits, Holding
          <5> QED
            BY <4>1, <5>1, <5>2, <5>3, <5>4 DEF SwapIsOff, Processes
        <4> QED
          BY <4>2, <4>3
      <3> QED
        BY <1>1, <1>3, <2>4, <2>5, <2>7, <3>1, <3>2, <3>3
           DEF PortableFits, Holding, Done, Completed, RolledBack
    <2> QED
      BY <1>3, <1>4, <2>4, <2>5, <2>6, <2>7, WalkKept
         DEF Early, Unjournaled, Unregistered, Starting
  <1>6. CASE /\ lock' = IF proc[p].created THEN Unlocked ELSE Released(p)
             /\ Continue(p, "answering", "manualActionRequired")
    <2>1. Enters(p, "answering", NoRecord, proc[p].base, "manualActionRequired", proc[p].then)
      BY <1>1, <1>4, <1>6, ContinueEffect DEF Passes, Pcs, Outs
    <2>2. lock' \in LockType /\ lock'.holder # p
      BY <1>1, <1>6, UnlockedType, ReleasedEffect, NamesDiffer
    <2>3. TypeOK'
      BY <1>1, <1>2, <2>1, <2>2, TypeKept DEF TypeOK, index, world, ClaimType, Enters
    <2>4. kind = "portable" => lock.holder = p /\ lock'.holder = "none"
      BY <1>1, <1>2, <1>6, UnlockedType, ReleasedEffect DEF PortableFits, Holding
    <2>5. Steady(p)
      BY <1>1, <1>2, <2>4, NamesDiffer
         DEF Steady, Rests, index, world, ClaimStays, TypeOK, ClaimType
    <2> QED
      BY <1>3, <1>4, <2>1, <2>2, <2>3, <2>5, PassKept
         DEF Simple, RecoveryPcs, Holding, Done
  <1> QED
    BY <1>5, <1>6 DEF InspectTopology
-----------------------------------------------------------------------------
(* The recovery host, the resolvers and the caller.                        *)

LEMMA HostStartsKept ==
    ASSUME UpdateInv, HostStarts
    PROVE  UpdateInv'
  <1>1. TypeOK
    BY DEF UpdateInv, ServiceInv
  <1>2. /\ proc["host"].pc = "idle" /\ armed /\ token' = caller /\ "host" \in Processes
        /\ UNCHANGED <<fixed, index, tree, armed, caller, launches, deaths>>
    BY NamesDiffer DEF HostStarts, At
  <1>3. Restarts("host", "waiting")
    BY <1>1, <1>2, RestartEffect DEF HostStarts, Pcs
  <1>4. record.state # "none"
    BY <1>2 DEF UpdateInv, ServiceInv, ReachFits
  <1>5. TypeOK'
    BY <1>1, <1>2, <1>3, TypeKept
       DEF TypeOK, index, tree, ClaimType, LockType, Restarts, Enters
  <1>6. Steady("host")
    BY <1>1, <1>2
       DEF Steady, Rests, index, tree, ClaimStays, TypeOK, ClaimType, UpdateInv, PortableInv,
           LockFits
  <1>7. kind = "portable" => lock'.holder # "host"
    BY <1>2 DEF UpdateInv, PortableInv, PortableFits, Holding, tree
  <1> QED
    BY <1>2, <1>3, <1>4, <1>5, <1>6, <1>7, PassKept
       DEF Restarts, Simple, RecoveryPcs, Holding, Done

(* The rest of the moves from one place to another.                        *)
LEMMA ActorsExitedKept ==
    ASSUME UpdateInv, ActorsExited
    PROVE  UpdateInv'
  <1>1. TypeOK
    BY DEF UpdateInv, ServiceInv
  <1>2. proc["host"].pc = "waiting" /\ Still /\ Goto("host", "recovering")
    BY DEF ActorsExited, At, Still
  <1>3. record.state # "none" /\ "host" \in Processes
    BY <1>2, RecordThere, NamesDiffer DEF Unregistered
  <1>4. Passes("host", "recovering", proc["host"].out) /\ proc["host"].out \in Outs
    BY <1>1, <1>2, <1>3, GotoEffect DEF Pcs, TypeOK
  <1> QED
    BY <1>2, <1>3, <1>4, GoKept DEF Simple, RecoveryPcs, Operations, Holding, Done

LEMMA BeginResolveKept ==
    ASSUME UpdateInv, NEW r \in Resolvers, BeginResolve(r)
    PROVE  UpdateInv'
  <1>1. TypeOK /\ r \in Processes /\ r # "owner"
    BY NamesDiffer DEF UpdateInv, ServiceInv
  <1>2. /\ proc[r].pc = "idle" /\ Still /\ Query = "recoveryRequired"
        /\ Goto(r, IF wants THEN "MarkRelaunchPending" ELSE "announcing")
    BY DEF BeginResolve, At, Still
  <1>3. record.state # "none"
    BY <1>2 DEF Query
  <1>4. PICK pc \in {"MarkRelaunchPending", "announcing"} : Goto(r, pc)
    BY <1>2
  <1>5. Passes(r, pc, proc[r].out) /\ proc[r].out \in Outs
    BY <1>1, <1>4, GotoEffect DEF Pcs, Operations, TypeOK
  <1> QED
    BY <1>1, <1>2, <1>3, <1>5, GoKept, NamesDiffer
       DEF Simple, RecoveryPcs, Operations, Holding, Done

LEMMA AnnounceKept ==
    ASSUME UpdateInv, NEW r \in Resolvers, Announce(r)
    PROVE  UpdateInv'
  <1>1. TypeOK /\ r \in Processes /\ r # "owner" /\ r # "host"
    BY NamesDiffer DEF UpdateInv, ServiceInv
  <1>2. proc[r].pc = "announcing" /\ UNCHANGED <<fixed, record, tree, world>>
    BY DEF Announce, At
  <1>3. record.state # "none" /\ proc[r].out \in Outs
    BY <1>1, <1>2, RecordThere DEF Unregistered, TypeOK
  <1>4. CASE /\ DecideResolverClaim(r) = "own" /\ claim' = ClaimAs(r)
             /\ Goto(r, "acknowledged")
    <2>1. Enters(r, "acknowledged", NoRecord, proc[r].base, proc[r].out, proc[r].then)
      BY <1>1, <1>2, <1>4, GotoEffect, NothingSeen DEF Passes, Pcs, Operations
    <2>2. ClaimStays
      BY <1>1, <1>4, ClaimAsType DEF ClaimStays, DecideResolverClaim
    <2>3. TypeOK'
      BY <1>1, <1>2, <2>1, <2>2, TypeKept DEF TypeOK, tree, world, ClaimStays, LockType, Enters
    <2>4. Steady(r)
      BY <1>2, <2>2
         DEF Steady, Rests, tree, world, UpdateInv, PortableInv, LockFits
    <2>5. kind = "portable" => lock'.holder # r
      BY <1>1, <1>2 DEF UpdateInv, PortableInv, PortableFits, Holding, tree
    <2> QED
      BY <1>1, <1>3, <2>1, <2>3, <2>4, <2>5, PassKept DEF Simple, RecoveryPcs, Holding, Done
  <1>5. CASE /\ UNCHANGED claim
             /\ \/ Goto(r, "acknowledged")
                \/ Continue(r, "answering", "manualActionRequired")
    <2>1. PICK pc \in {"acknowledged", "answering"}, out \in Outs : Passes(r, pc, out)
      BY <1>1, <1>3, <1>5, GotoEffect, ContinueEffect DEF Pcs, Outs
    <2>2. Still
      BY <1>2, <1>5 DEF Still, index
    <2> QED
      BY <1>1, <1>2, <1>3, <2>1, <2>2, GoKept DEF Simple, RecoveryPcs, Operations, Holding, Done
  <1> QED
    BY <1>4, <1>5 DEF Announce

LEMMA ResolverCallerExitsKept ==
    ASSUME UpdateInv, NEW r \in Resolvers, ResolverCallerExits(r)
    PROVE  UpdateInv'
  <1>1. TypeOK /\ r \in Processes /\ r # "owner" /\ r # "host"
    BY NamesDiffer DEF UpdateInv, ServiceInv
  <1>2. proc[r].pc = "acknowledged" /\ Still /\ Goto(r, "recovering")
    BY DEF ResolverCallerExits, At, Still
  <1>3. record.state # "none" /\ proc[r].out \in Outs
    BY <1>1, <1>2, RecordThere DEF Unregistered, TypeOK
  <1>4. Passes(r, "recovering", proc[r].out)
    BY <1>1, <1>2, GotoEffect DEF Pcs
  <1> QED
    BY <1>1, <1>2, <1>3, <1>4, GoKept DEF Simple, RecoveryPcs, Operations, Holding, Done

(* The host gives the task up only for a terminal record.                  *)
LEMMA HostEndsKept ==
    ASSUME UpdateInv, HostEnds
    PROVE  UpdateInv'
  <1>1. TypeOK
    BY DEF UpdateInv, ServiceInv
  <1>2. /\ proc["host"].pc = "answering" /\ "host" \in Processes
        /\ UNCHANGED <<fixed, record, tree, token, caller, launches, deaths>>
    BY NamesDiffer DEF HostEnds, At
  <1>3. Restarts("host", "idle")
    <2>1. Fresh \in ProcType /\ proc' = [proc EXCEPT !["host"] = Fresh]
      BY RecordFacts DEF Fresh, ProcType, Pcs, RecordStates, Outs, HostEnds
    <2> QED
      BY <1>1, <1>2, <2>1 DEF TypeOK, Restarts, Enters, Moves, ProcType, Fresh
  <1>4. ClaimStays
    BY <1>1, ClaimDropped DEF HostEnds
  <1>5. armed' \in {armed, FALSE}
    BY DEF HostEnds
  <1>6. TypeOK'
    BY <1>1, <1>2, <1>3, <1>4, <1>5, TypeKept
       DEF TypeOK, tree, ClaimStays, LockType, Restarts, Enters
  <1>7. record.state # "none" /\ Alive("host")
    BY <1>2, RecordThere DEF Unregistered, Alive
  <1>8. kind = "portable" =>
           /\ lock.holder # "host"
           /\ armed => armed' \/ Terminal
    <2>1. ASSUME kind = "portable" PROVE lock.holder # "host"
      BY <1>2, <2>1 DEF UpdateInv, PortableInv, PortableFits, Holding
    <2>2. ASSUME kind = "portable", armed, ~armed' PROVE Terminal
      BY <1>2, <2>2 DEF UpdateInv, PortableInv, PortableFits, HostEnds, ShouldDisarm
    <2> QED
      BY <2>1, <2>2
  <1>9. Leaves("host")
    BY <1>2, <1>3, <1>4, <1>7, <1>8 DEF Leaves, Restarts, Enters, tree
  <1> QED
    BY <1>2, <1>3, <1>6, <1>7, <1>8, <1>9, LeaveKept DEF Restarts, Enters

LEMMA ResolverEndsKept ==
    ASSUME UpdateInv, NEW r \in Resolvers, ResolverEnds(r)
    PROVE  UpdateInv'
  <1>1. TypeOK /\ r \in Processes /\ r # "owner" /\ r # "host"
    BY NamesDiffer DEF UpdateInv, ServiceInv
  <1>2. proc[r].pc = "answering" /\ UNCHANGED <<fixed, record, tree, world>>
    BY DEF ResolverEnds, At
  <1>3. Restarts(r, "ended")
    BY <1>1, RestartEffect DEF ResolverEnds, Pcs
  <1>4. ClaimStays
    BY <1>1, ClaimDropped DEF ResolverEnds
  <1>5. TypeOK'
    BY <1>1, <1>2, <1>3, <1>4, TypeKept
       DEF TypeOK, tree, world, ClaimStays, LockType, Restarts, Enters
  <1>6. kind = "portable" => lock.holder # r
    BY <1>1, <1>2 DEF UpdateInv, PortableInv, PortableFits, Holding
  <1>7. Leaves(r) /\ Alive(r)
    BY <1>1, <1>2, <1>3, <1>4, <1>6 DEF Leaves, Restarts, Enters, tree, world, Alive
  <1> QED
    BY <1>1, <1>2, <1>3, <1>5, <1>7, LeaveKept DEF world

LEMMA CallerExitsKept ==
    ASSUME UpdateInv, CallerExits
    PROVE  UpdateInv'
  <1>1. UNCHANGED <<fixed, index, tree, armed, token, launches, deaths, proc>>
        /\ caller' = FALSE
    BY DEF CallerExits
  <1>2. TypeOK'
    <2>1. TypeOK /\ Moves("owner")
      BY <1>1 DEF UpdateInv, ServiceInv, TypeOK, Moves, ProcType
    <2>2. caller' \in BOOLEAN
      BY <1>1
    <2> QED
      BY <1>1, <2>1, <2>2, TypeKept DEF TypeOK, index, tree, ClaimType, LockType
  <1>3. LocalFits'
    BY <1>1 DEF UpdateInv, ServiceInv, LocalFits, ProcessFits, Directory, fixed, Processes
  <1>4. ReachFits' /\ ClaimFits'
    BY <1>1 DEF UpdateInv, ServiceInv, ReachFits, ClaimFits, fixed, index, Processes
  <1>5. PortableInv'
    BY <1>1 DEF UpdateInv, PortableInv, ArmFits, LockFits, SwapFits, PortableFits, SwapIsOff,
                Terminal, fixed, index, tree, Processes
  <1> QED
    BY <1>2, <1>3, <1>4, <1>5 DEF UpdateInv, ServiceInv
-----------------------------------------------------------------------------
(* The owner, up to the record.                                            *)

LEMMA OwnerEarly ==
    ASSUME UpdateInv, proc["owner"].pc \in Unregistered, TypeOK', Moves("owner"),
           proc'["owner"].pc \in Unregistered \cup {"ended"}, proc'["owner"].seen = NoRecord,
           UNCHANGED <<kind, index, target, lock, armed, launches>>,
           kind = "portable" => journal' = journal, ReachFits'
    PROVE  UpdateInv'
  <1>1. "owner" \in Processes /\ NoRecord.state = "none" /\ record.state = "none"
    BY NamesDiffer, RecordFacts DEF UpdateInv, ServiceInv, ReachFits
  <1>2. ProcessFits("owner")'
    BY <1>1 DEF ProcessFits, OwnerPcs, Shared, Early, Unjournaled, Unregistered
  <1>3. LocalFits'
    BY <1>1, <1>2, LocalKept DEF UpdateInv, ServiceInv
  <1>4. ClaimFits'
    BY <1>1, ClaimKept
       DEF ClaimStep, ClaimStays, UpdateInv, ServiceInv, TypeOK, ClaimType, index, Starting,
           Unregistered
  <1>5. ASSUME kind = "portable" PROVE PortableInv'
    <2>1. record' = record
      BY DEF index
    <2>2. SwapStep("owner")
      BY <1>5, <2>1 DEF SwapStep, Terminal, Unregistered, Early, Unjournaled
    <2>3. ArmStep("owner") /\ LockStep("owner")
      BY <1>5 DEF ArmStep, LockStep, Unregistered, Unjournaled, UpdateInv, PortableInv, LockFits
    <2>4. lock'.holder # "owner"
      BY <1>1, <1>5 DEF UpdateInv, PortableInv, PortableFits, Holding, Unregistered
    <2>5. PortableFits("owner")'
      BY <1>1, <2>4 DEF PortableFits, Holding, Done, Unregistered, Completed, RolledBack
    <2> QED
      BY <1>1, <1>5, <2>1, <2>2, <2>3, <2>5, SameRecord, PortableKept DEF UpdateInv
  <1>6. kind # "portable" => PortableInv'
    BY DEF PortableInv
  <1> QED
    BY <1>3, <1>4, <1>5, <1>6 DEF UpdateInv, ServiceInv

(* An attempt that ends there has written nothing.                         *)
LEMMA OwnerEndsKept ==
    ASSUME UpdateInv, proc["owner"].pc \in Unregistered, OwnerEnds,
           UNCHANGED <<fixed, index, tree, world>>
    PROVE  UpdateInv'
  <1>1. TypeOK /\ "owner" \in Processes
    BY NamesDiffer DEF UpdateInv, ServiceInv
  <1>2. Restarts("owner", "ended")
    BY <1>1, RestartEffect DEF OwnerEnds, Pcs
  <1>3. /\ Moves("owner") /\ proc'["owner"].pc = "ended" /\ proc'["owner"].seen = NoRecord
    BY <1>2 DEF Restarts, Enters
  <1>4. TypeOK'
    BY <1>1, <1>3, TypeKept DEF TypeOK, index, tree, world, ClaimType, LockType
  <1>5. ReachFits'
    BY <1>3, RecordFacts
       DEF UpdateInv, ServiceInv, ReachFits, Unregistered, Moves, fixed, index, world, Processes
  <1> QED
    BY <1>3, <1>4, <1>5, OwnerEarly DEF fixed, tree, world

LEMMA OwnerGoes ==
    ASSUME UpdateInv, proc["owner"].pc \in Unregistered,
           NEW pc \in Unregistered, Goto("owner", pc)
    PROVE  /\ Moves("owner") /\ proc'["owner"].pc = pc /\ proc'["owner"].seen = NoRecord
  <1>1. TypeOK /\ "owner" \in Processes /\ pc \in Pcs
    BY NamesDiffer DEF UpdateInv, ServiceInv, Unregistered, Pcs
  <1>2. proc["owner"].seen = NoRecord
    BY <1>1, NothingSeen DEF Unregistered, Operations
  <1> QED
    BY <1>1, <1>2, GotoEffect DEF Passes, Enters

LEMMA OwnerOnlyType ==
    ASSUME TypeOK, Moves("owner"), OwnerOnly, endpoint' \in {"none", "incomplete", "stable"},
           locator' \in BOOLEAN, marker' \in BOOLEAN
    PROVE  TypeOK'
  BY DEF TypeOK, Moves, ProcType, OwnerOnly, index, tree, world, Processes

LEMMA FirstStepsKept ==
    ASSUME UpdateInv, PrepareInstall \/ OpenSession
    PROVE  UpdateInv'
  <1>1. TypeOK /\ "owner" \in Processes
    BY NamesDiffer DEF UpdateInv, ServiceInv
  <1>2. /\ proc["owner"].pc \in {"idle", "opening"}
        /\ OwnerOnly /\ UNCHANGED <<endpoint, locator, marker>>
    BY DEF PrepareInstall, OpenSession, At
  <1>3. UNCHANGED <<fixed, index, tree, world>>
    BY <1>2 DEF OwnerOnly, fixed
  <1>4. CASE OwnerEnds
    BY <1>2, <1>3, <1>4, OwnerEndsKept DEF Unregistered
  <1>5. ASSUME NEW pc \in {"opening", "provisioning", "authorizing"}, Goto("owner", pc),
               pc = "authorizing" => kind # "portable"
        PROVE  UpdateInv'
    <2>1. Moves("owner") /\ proc'["owner"].pc = pc /\ proc'["owner"].seen = NoRecord
      BY <1>2, <1>5, OwnerGoes DEF Unregistered
    <2>2. TypeOK'
      BY <1>1, <1>3, <2>1, TypeKept DEF TypeOK, index, tree, world, ClaimType, LockType
    <2>3. ReachFits'
      BY <1>2, <1>3, <1>5, <2>1
         DEF UpdateInv, ServiceInv, ReachFits, Unregistered, Moves, fixed, index, world, Processes
    <2> QED
      BY <1>2, <1>3, <2>1, <2>2, <2>3, OwnerEarly DEF fixed, tree, world, Unregistered
  <1> QED
    BY <1>4, <1>5 DEF PrepareInstall, OpenSession, Portable

(* The endpoint is touched only before there is a record.                  *)
LEMMA ProvisionKept ==
    ASSUME UpdateInv, ProvisionPortableWindowsRecoveryHost
    PROVE  UpdateInv'
  <1>1. TypeOK /\ "owner" \in Processes /\ ReachFits
    BY NamesDiffer DEF UpdateInv, ServiceInv
  <1>2. /\ proc["owner"].pc = "provisioning" /\ proc["owner"].seen = NoRecord
        /\ OwnerOnly /\ UNCHANGED <<locator, marker>>
    BY <1>1, NothingSeen DEF ProvisionPortableWindowsRecoveryHost, At, Operations
  <1>3. record.state = "none"
    BY <1>1, <1>2 DEF ReachFits, Unregistered
  <1>4. kind = "portable" \/ endpoint = "stable"
    BY <1>1 DEF ReachFits
  <1>5. ASSUME Moves("owner"), proc'["owner"].seen = NoRecord,
               NEW pc \in {"provisioning", "authorizing"}, proc'["owner"].pc = pc,
               endpoint' \in {"none", "incomplete", "stable"},
               endpoint' = "stable" \/ (pc = "provisioning" /\ kind = "portable")
        PROVE  UpdateInv'
    <2>1. TypeOK'
      BY <1>1, <1>2, <1>5, OwnerOnlyType DEF TypeOK
    <2>2. ReachFits'
      BY <1>1, <1>2, <1>3, <1>5
         DEF ReachFits, Unregistered, Moves, OwnerOnly, index, world, Processes
    <2> QED
      BY <1>2, <1>5, <2>1, <2>2, OwnerEarly DEF OwnerOnly, tree, world, Unregistered
  <1>6. CASE endpoint' = "incomplete" /\ DecidePortableWindowsStableEndpoint = "create"
             /\ proc' = [proc EXCEPT !["owner"].created = TRUE]
    <2>1. Moves("owner") /\ proc'["owner"].pc = "provisioning" /\ proc'["owner"].seen = NoRecord
      <3> DEFINE r == [proc["owner"] EXCEPT !.created = TRUE]
      <3>1. r \in ProcType /\ proc' = [proc EXCEPT !["owner"] = r]
        BY <1>1, <1>6 DEF TypeOK, ProcType
      <3> QED
        BY <1>1, <1>2, <3>1 DEF TypeOK, Moves, ProcType
    <2>2. endpoint # "stable"
      BY <1>6 DEF DecidePortableWindowsStableEndpoint
    <2> QED
      BY <1>4, <1>5, <1>6, <2>1, <2>2
  <1>7. CASE /\ endpoint' = "none" /\ UNCHANGED proc
             /\ DecidePortableWindowsStableEndpoint = "quarantineAndRecreate"
    <2>1. Moves("owner") /\ proc'["owner"].pc = "provisioning" /\ proc'["owner"].seen = NoRecord
      BY <1>1, <1>2, <1>7 DEF TypeOK, Moves, ProcType
    <2>2. endpoint # "stable"
      BY <1>7 DEF DecidePortableWindowsStableEndpoint
    <2> QED
      BY <1>4, <1>5, <1>7, <2>1, <2>2
  <1>8. CASE /\ endpoint' = "stable"
             /\ proc' = [proc EXCEPT !["owner"].created = FALSE,
                                     !["owner"].pc = "authorizing"]
    <2>1. Moves("owner") /\ proc'["owner"].pc = "authorizing" /\ proc'["owner"].seen = NoRecord
      <3> DEFINE r == [proc["owner"] EXCEPT !.created = FALSE, !.pc = "authorizing"]
      <3>1. "authorizing" \in Pcs
        BY DEF Pcs
      <3>2. r \in ProcType
        BY <1>1, <3>1 DEF TypeOK, ProcType
      <3>3. proc' = [proc EXCEPT !["owner"] = r]
        BY <1>1, <1>8 DEF TypeOK
      <3> QED
        BY <1>1, <1>2, <3>2, <3>3 DEF TypeOK, Moves, ProcType
    <2> QED
      BY <1>5, <1>8, <2>1
  <1>9. CASE /\ DecidePortableWindowsStableEndpoint = "reuse" /\ UNCHANGED endpoint
             /\ Goto("owner", "authorizing")
    <2>1. Moves("owner") /\ proc'["owner"].pc = "authorizing" /\ proc'["owner"].seen = NoRecord
      BY <1>2, <1>9, OwnerGoes DEF Unregistered
    <2>2. endpoint' = "stable"
      BY <1>1, <1>9 DEF DecidePortableWindowsStableEndpoint, TypeOK
    <2> QED
      BY <1>5, <2>1, <2>2
  <1> QED
    BY <1>6, <1>7, <1>8, <1>9 DEF ProvisionPortableWindowsRecoveryHost

LEMMA AuthorizeKept ==
    ASSUME UpdateInv, Authorize
    PROVE  UpdateInv'
  <1>1. TypeOK /\ ReachFits
    BY DEF UpdateInv, ServiceInv
  <1>2. /\ proc["owner"].pc = "authorizing" /\ OwnerOnly /\ UNCHANGED <<endpoint, locator>>
    BY DEF Authorize, At
  <1>3. CASE marker' = TRUE /\ Goto("owner", "restaging")
    <2>1. Moves("owner") /\ proc'["owner"].pc = "restaging" /\ proc'["owner"].seen = NoRecord
      BY <1>2, <1>3, OwnerGoes DEF Unregistered
    <2>2. TypeOK'
      BY <1>1, <1>2, <1>3, <2>1, OwnerOnlyType DEF TypeOK
    <2>3. ReachFits'
      BY <1>1, <1>2, <1>3, <2>1
         DEF ReachFits, Unregistered, Moves, OwnerOnly, index, world, Processes
    <2> QED
      BY <1>2, <2>1, <2>2, <2>3, OwnerEarly DEF OwnerOnly, tree, world, Unregistered
  <1>4. CASE OwnerEnds /\ UNCHANGED marker
    BY <1>2, <1>4, OwnerEndsKept DEF OwnerOnly, fixed, Unregistered
  <1> QED
    BY <1>3, <1>4 DEF Authorize

LEMMA RestageKept ==
    ASSUME UpdateInv, RestagePayload
    PROVE  UpdateInv'
  <1>1. TypeOK /\ ReachFits
    BY DEF UpdateInv, ServiceInv
  <1>2. /\ proc["owner"].pc = "restaging" /\ UNCHANGED <<fixed, index, target, lock, world>>
    BY DEF RestagePayload, At
  <1>3. CASE /\ stage' = IF Directory THEN "staged" ELSE stage
             /\ journal' = IF Directory THEN journal ELSE "prepared"
             /\ Goto("owner", "binding")
    <2>1. Moves("owner") /\ proc'["owner"].pc = "binding" /\ proc'["owner"].seen = NoRecord
      BY <1>2, <1>3, OwnerGoes DEF Unregistered
    <2>2. stage' \in {"staged", stage} /\ journal' \in {"prepared", journal}
      BY <1>3
    <2>3. TypeOK'
      BY <1>1, <1>2, <2>1, <2>2, TypeKept DEF TypeOK, index, world, ClaimType, LockType
    <2>4. ReachFits'
      BY <1>1, <1>2, <2>1
         DEF ReachFits, Unregistered, Moves, fixed, index, world, Processes
    <2>5. kind = "portable" => journal' = journal
      BY <1>3 DEF Directory
    <2> QED
      BY <1>2, <2>1, <2>3, <2>4, <2>5, OwnerEarly DEF fixed, world, Unregistered
  <1>4. CASE OwnerEnds /\ UNCHANGED <<stage, journal>>
    BY <1>2, <1>4, OwnerEndsKept DEF tree, Unregistered
  <1> QED
    BY <1>3, <1>4 DEF RestagePayload

LEMMA BindEndpointKept ==
    ASSUME UpdateInv, BindEndpoint
    PROVE  UpdateInv'
  <1>1. TypeOK /\ ReachFits
    BY DEF UpdateInv, ServiceInv
  <1>2. /\ proc["owner"].pc = "binding"
        /\ UNCHANGED <<kind, wants, endpoint, marker, record, target, world>>
    BY DEF BindEndpoint, At
  <1>3. CASE locator' = TRUE /\ Goto("owner", "preparing") /\ UNCHANGED effects
    <2>1. Moves("owner") /\ proc'["owner"].pc = "preparing" /\ proc'["owner"].seen = NoRecord
      BY <1>2, <1>3, OwnerGoes DEF Unregistered
    <2>2. OwnerOnly
      BY <1>2, <1>3 DEF OwnerOnly, effects, index, tree
    <2>3. TypeOK'
      BY <1>1, <1>2, <1>3, <2>1, <2>2, OwnerOnlyType DEF TypeOK
    <2>4. ReachFits'
      BY <1>1, <1>2, <1>3, <2>1 DEF ReachFits, Unregistered, Moves, world, Processes
    <2> QED
      BY <1>2, <2>1, <2>2, <2>3, <2>4, OwnerEarly DEF OwnerOnly, tree, world, Unregistered
  <1>4. CASE Throw("owner") /\ UNCHANGED locator
    BY <1>2, <1>4, ThrowKept, NamesDiffer DEF fixed, world, Alive
  <1> QED
    BY <1>3, <1>4 DEF BindEndpoint

(* The record appears when everything it needs is there.                   *)
LEMMA PersistPreparingKept ==
    ASSUME UpdateInv, PersistPreparing
    PROVE  UpdateInv'
  <1>1. TypeOK /\ ReachFits /\ "owner" \in Processes
    BY NamesDiffer DEF UpdateInv, ServiceInv
  <1>2. /\ proc["owner"].pc = "preparing" /\ Goto("owner", "arming")
        /\ UNCHANGED <<fixed, claim, target, stage, journal, lock, world>>
    BY DEF PersistPreparing, At
  <1>3. Enters("owner", "arming", NoRecord, proc["owner"].base, proc["owner"].out,
               proc["owner"].then)
    BY <1>1, <1>2, GotoEffect, NothingSeen DEF Passes, Pcs, Operations
  <1>4. /\ Moves("owner") /\ proc'["owner"].pc = "arming" /\ proc'["owner"].seen = NoRecord
        /\ NoRecord.state = "none"
    BY <1>3, RecordFacts DEF Enters
  <1>5. record' \in Records /\ record'.state = "preparing" /\ record.state = "none"
    BY <1>1, <1>2
       DEF PersistPreparing, NoRecord, Records, RecordStates, RelaunchStates, ReachFits,
           Unregistered
  <1>6. TypeOK'
    BY <1>1, <1>2, <1>4, <1>5, TypeKept DEF TypeOK, world, ClaimType, LockType
  <1>7. ProcessFits("owner")' /\ LocalFits'
    <2>1. ProcessFits("owner")'
      BY <1>4 DEF ProcessFits, OwnerPcs, Early, Unjournaled
    <2> QED
      BY <1>1, <1>2, <1>4, <2>1, LocalKept DEF UpdateInv, ServiceInv, fixed
  <1>8. ReachFits'
    BY <1>1, <1>2, <1>4, <1>5 DEF ReachFits, Unregistered, fixed
  <1>9. ClaimFits'
    BY <1>1, <1>2, <1>4, ClaimKept
       DEF ClaimStep, ClaimStays, UpdateInv, ServiceInv, TypeOK, ClaimType, world, Starting
  <1>10. ASSUME kind = "portable" PROVE PortableInv'
    <2>1. SwapStep("owner")
      BY <1>2, <1>4, <1>5 DEF SwapStep, Terminal, TerminalStates, Cancelled, RolledBack, Early,
                              Unjournaled, Unregistered
    <2>2. ArmStep("owner") /\ LockStep("owner")
      BY <1>2, <1>4, <1>10
         DEF ArmStep, LockStep, world, Unjournaled, Unregistered, UpdateInv, PortableInv, LockFits
    <2>3. lock'.holder # "owner"
      BY <1>1, <1>2, <1>10 DEF UpdateInv, PortableInv, PortableFits, Holding
    <2>4. PortableFits("owner")'
      BY <1>4, <2>3 DEF PortableFits, Holding, Done, Completed, RolledBack
    <2>5. SwapFits'
      BY <1>5 DEF SwapFits, Completed, RolledBack
    <2> QED
      BY <1>1, <1>4, <1>10, <2>1, <2>2, <2>4, <2>5, PortableKept DEF UpdateInv
  <1>11. kind # "portable" => PortableInv'
    BY <1>2 DEF PortableInv, fixed
  <1> QED
    BY <1>6, <1>7, <1>8, <1>9, <1>10, <1>11 DEF UpdateInv, ServiceInv
-----------------------------------------------------------------------------
(* The owner, from the record on.                                          *)

(* Up to its complete journal.                                             *)
LEMMA PreparingWorks ==
    ASSUME UpdateInv, proc["owner"].pc \in {"arming", "locking", "staging"}, TypeOK',
           Moves("owner"), NEW pc \in {"starting", "staging", "PersistActive"},
           proc'["owner"].pc = pc, proc'["owner"].seen = NoRecord,
           UNCHANGED <<fixed, index, target, launches>>,
           armed => armed', pc = "starting" => armed' /\ journal' = journal,
           pc = "starting" => proc["owner"].pc = "arming",
           pc # "starting" => proc["owner"].pc # "arming",
           journal' = journal \/ proc["owner"].pc = "staging",
           kind = "portable" =>
              /\ \A q \in Processes \ {"owner"} : lock'.holder = q <=> lock.holder = q
              /\ lock'.holder = "owner" <=> pc \in Holding
              /\ lock'.holder # "none" => lock'.file
    PROVE  UpdateInv'
  <1>1. "owner" \in Processes /\ NoRecord.state = "none"
    BY NamesDiffer, RecordFacts
  <1>2. record.state # "none"
    BY <1>1, RecordThere DEF Unregistered
  <1>3. ProcessFits("owner")'
    BY <1>1 DEF ProcessFits, OwnerPcs, Early, Unjournaled
  <1>4. ReachStep("owner")
    BY <1>2 DEF ReachStep, Unregistered, index
  <1>5. ClaimFits'
    BY <1>1, ClaimKept
       DEF ClaimStep, ClaimStays, UpdateInv, ServiceInv, TypeOK, ClaimType, index, Starting
  <1>6. ASSUME kind = "portable"
        PROVE  /\ SwapStep("owner") /\ ArmStep("owner") /\ LockStep("owner")
               /\ PortableFits("owner")' /\ SwapFits'
    <2>1. record' = record /\ Terminal' = Terminal
      BY DEF index, Terminal
    <2>2. SwapStep("owner")
      BY <1>6, <2>1 DEF SwapStep, Early, Unjournaled, Unregistered
    <2>3. ArmStep("owner")
      BY <1>6 DEF ArmStep
    <2>4. LockStep("owner")
      BY <1>6 DEF LockStep, UpdateInv, PortableInv, LockFits, Unjournaled, Unregistered
    <2>5. PortableFits("owner")'
      BY <1>1, <1>6 DEF PortableFits, Done, Completed, RolledBack
    <2> QED
      BY <1>1, <1>6, <2>1, <2>2, <2>3, <2>4, <2>5, SameRecord DEF UpdateInv
  <1> QED
    BY <1>1, <1>3, <1>4, <1>5, <1>6, WorkKept DEF Works

LEMMA OwnerPasses ==
    ASSUME UpdateInv, NEW pc \in Pcs, Goto("owner", pc), proc["owner"].pc \notin Operations
    PROVE  /\ Enters("owner", pc, NoRecord, proc["owner"].base, proc["owner"].out,
                     proc["owner"].then)
           /\ Moves("owner") /\ proc'["owner"].pc = pc /\ proc'["owner"].seen = NoRecord
  <1>1. TypeOK /\ "owner" \in Processes
    BY NamesDiffer DEF UpdateInv, ServiceInv
  <1> QED
    BY <1>1, GotoEffect, NothingSeen DEF Passes, Enters

LEMMA ArmAndStartKept ==
    ASSUME UpdateInv, ArmAndStart
    PROVE  UpdateInv'
  <1>1. TypeOK /\ "owner" \in Processes
    BY NamesDiffer DEF UpdateInv, ServiceInv
  <1>2. /\ proc["owner"].pc = "arming"
        /\ UNCHANGED <<fixed, record, target, token, caller, launches, deaths>>
    BY DEF ArmAndStart, At
  <1>3. CASE armed' = TRUE /\ Goto("owner", "starting") /\ UNCHANGED effects
    <2>1. Moves("owner") /\ proc'["owner"].pc = "starting" /\ proc'["owner"].seen = NoRecord
      BY <1>2, <1>3, OwnerPasses DEF Pcs, Operations
    <2>2. TypeOK'
      BY <1>1, <1>2, <1>3, <2>1, TypeKept DEF TypeOK, effects, ClaimType, LockType
    <2>3. kind = "portable" =>
             /\ lock.holder # "owner"
             /\ lock.holder # "none" => lock.file
      BY <1>1, <1>2 DEF UpdateInv, PortableInv, PortableFits, LockFits, Holding
    <2> QED
      BY <1>2, <1>3, <2>1, <2>2, <2>3, PreparingWorks DEF effects, index, Holding
  <1>4. CASE Throw("owner") /\ armed' \in {armed, TRUE}
    BY <1>1, <1>2, <1>4, ThrowKept DEF Alive
  <1> QED
    BY <1>3, <1>4 DEF ArmAndStart

LEMMA HostIsReadyKept ==
    ASSUME UpdateInv, HostIsReady
    PROVE  UpdateInv'
  <1>1. TypeOK /\ "owner" \in Processes
    BY NamesDiffer DEF UpdateInv, ServiceInv
  <1>2. /\ proc["owner"].pc = "starting" /\ Still
        /\ Goto("owner", IF Directory THEN "locking" ELSE "PersistActive")
    BY DEF HostIsReady, At, Still
  <1>3. record.state # "none"
    BY <1>1, <1>2, RecordThere DEF Unregistered
  <1>4. CASE Directory
    <2>1. Enters("owner", "locking", NoRecord, proc["owner"].base, proc["owner"].out,
                 proc["owner"].then)
      BY <1>2, <1>4, OwnerPasses DEF Pcs, Operations
    <2>2. /\ Moves("owner") /\ proc'["owner"].pc = "locking" /\ proc'["owner"].seen = NoRecord
          /\ NoRecord.state = "none"
      BY <2>1, RecordFacts DEF Enters
    <2>3. TypeOK' /\ Steady("owner") /\ lock' = lock
      BY <1>1, <1>2, <2>2, StillSteady
    <2>4. ProcessFits("owner")'
      BY <1>2, <1>4, <2>2 DEF ProcessFits, OwnerPcs, Shared, Directory, Still, fixed
    <2>5. ASSUME kind = "portable" PROVE PortableFits("owner")'
      <3>1. lock'.holder # "owner"
        BY <1>1, <1>2, <2>3, <2>5 DEF UpdateInv, PortableInv, PortableFits, Holding
      <3> QED
        BY <2>2, <3>1 DEF PortableFits, Holding, Done, Completed, RolledBack
    <2> QED
      BY <1>1, <1>2, <1>3, <2>2, <2>3, <2>4, <2>5, WalkKept DEF Starting
  <1>5. CASE ~Directory
    <2>1. Enters("owner", "PersistActive", NoRecord, proc["owner"].base, proc["owner"].out,
                 proc["owner"].then) /\ Moves("owner")
      BY <1>2, <1>5, OwnerPasses DEF Pcs, Operations
    <2>2. TypeOK' /\ Steady("owner")
      BY <1>1, <1>2, <2>1, StillSteady
    <2>3. kind # "portable"
      BY <1>5 DEF Directory
    <2> QED
      BY <1>1, <1>3, <2>1, <2>2, <2>3, PassKept DEF Simple, OwnerPcs
  <1> QED
    BY <1>4, <1>5

LEMMA HostIsLateKept ==
    ASSUME UpdateInv, HostIsLate
    PROVE  UpdateInv'
  BY ThrowKept, NamesDiffer DEF HostIsLate, At, Alive, world

LEMMA TakeLockKept ==
    ASSUME UpdateInv, TakeLock
    PROVE  UpdateInv'
  <1>1. TypeOK /\ "owner" \in Processes
    BY NamesDiffer DEF UpdateInv, ServiceInv
  <1>2. proc["owner"].pc = "locking" /\ UNCHANGED <<fixed, record, target, world>>
    BY DEF TakeLock, At
  <1>3. CASE /\ ~lock.file /\ lock' = [file |-> TRUE, holder |-> "owner"]
             /\ Goto("owner", "staging") /\ UNCHANGED <<claim, stage, journal>>
    <2>1. Moves("owner") /\ proc'["owner"].pc = "staging" /\ proc'["owner"].seen = NoRecord
      BY <1>2, <1>3, OwnerPasses DEF Pcs, Operations
    <2>2. lock' \in LockType /\ lock'.file /\ lock'.holder = "owner"
      BY <1>1, <1>3 DEF LockType
    <2>3. TypeOK'
      BY <1>1, <1>2, <1>3, <2>1, <2>2, TypeKept DEF TypeOK, world, ClaimType
    <2>4. kind = "portable" => lock.holder = "none"
      BY <1>3 DEF UpdateInv, PortableInv, LockFits
    <2>5. UNCHANGED <<fixed, index, target, launches>> /\ armed' = armed /\ journal' = journal
      BY <1>2, <1>3 DEF index, world
    <2>6. kind = "portable" =>
             \A q \in Processes \ {"owner"} : lock'.holder = q <=> lock.holder = q
      BY <2>2, <2>4, NamesDiffer
    <2> QED
      BY <1>2, <2>1, <2>2, <2>3, <2>5, <2>6, PreparingWorks DEF Holding
  <1>4. CASE Throw("owner")
    BY <1>1, <1>2, <1>4, ThrowKept DEF world, Alive
  <1> QED
    BY <1>3, <1>4 DEF TakeLock

LEMMA PrepareTransactionKept ==
    ASSUME UpdateInv, PrepareTransaction
    PROVE  UpdateInv'
  <1>1. TypeOK /\ "owner" \in Processes
    BY NamesDiffer DEF UpdateInv, ServiceInv
  <1>2. proc["owner"].pc = "staging" /\ UNCHANGED <<fixed, index, target, lock, world>>
    BY DEF PrepareTransaction, At
  <1>3. proc["owner"].seen = NoRecord
    BY <1>1, <1>2, NothingSeen DEF Operations
  <1>4. PICK pc \in {"staging", "PersistActive"} :
           Moves("owner") /\ proc'["owner"].pc = pc /\ proc'["owner"].seen = NoRecord
    <2>1. CASE UNCHANGED proc
      BY <1>1, <1>2, <1>3, <2>1 DEF TypeOK, Moves, ProcType
    <2>2. CASE Goto("owner", "PersistActive")
      BY <1>2, <2>2, OwnerPasses DEF Pcs, Operations
    <2> QED
      BY <2>1, <2>2 DEF PrepareTransaction
  <1>5. stage' \in {"prepared", stage} /\ journal' \in {"prepared", journal}
    BY DEF PrepareTransaction
  <1>6. TypeOK'
    BY <1>1, <1>2, <1>4, <1>5, TypeKept DEF TypeOK, index, world, ClaimType, LockType
  <1>7. kind = "portable" =>
           /\ lock.holder = "owner"
           /\ lock.holder # "none" => lock.file
    BY <1>1, <1>2 DEF UpdateInv, PortableInv, PortableFits, LockFits, Holding
  <1> QED
    BY <1>2, <1>4, <1>5, <1>6, <1>7, PreparingWorks DEF Holding, world

LEMMA AcceptCommitKept ==
    ASSUME UpdateInv, AcceptCommit
    PROVE  UpdateInv'
  <1>1. TypeOK /\ "owner" \in Processes
    BY NamesDiffer DEF UpdateInv, ServiceInv
  <1>2. proc["owner"].pc = "reserved" /\ Still /\ Goto("owner", "MarkCommitAccepted")
    BY DEF AcceptCommit, At, Still
  <1>3. record.state # "none" /\ proc["owner"].out \in Outs
    BY <1>1, <1>2, RecordThere DEF Unregistered, TypeOK
  <1>4. Passes("owner", "MarkCommitAccepted", proc["owner"].out)
    BY <1>1, <1>2, GotoEffect DEF Pcs, Operations
  <1> QED
    BY <1>1, <1>2, <1>3, <1>4, GoKept DEF Simple, OwnerPcs, Operations, Holding, Done

LEMMA CancelPreparedKept ==
    ASSUME UpdateInv, CancelPrepared
    PROVE  UpdateInv'
  <1> DEFINE base == IF At("owner", "committed") THEN "commitAccepted" ELSE "none"
             then == IF Directory THEN "rollingBack" ELSE "PersistCleanupPending"
             r == [proc["owner"] EXCEPT !.pc = "MarkCancelling", !.out = "rolledBack",
                                        !.base = base, !.then = then]
  <1>1. TypeOK /\ "owner" \in Processes
    BY NamesDiffer DEF UpdateInv, ServiceInv
  <1>2. /\ proc["owner"].pc \in {"reserved", "committed"} /\ Still
        /\ proc' = [proc EXCEPT !["owner"].pc = "MarkCancelling",
                       !["owner"].out = "rolledBack", !["owner"].base = base,
                       !["owner"].then = then]
    BY DEF CancelPrepared, Still
  <1>3. record.state # "none" /\ proc["owner"].seen = NoRecord
    BY <1>1, <1>2, RecordThere, NothingSeen DEF Unregistered, Operations
  <1>4. then = IF Directory THEN "rollingBack" ELSE "PersistCleanupPending"
    OBVIOUS
  <1>a. base \in RecordStates
    BY DEF RecordStates
  <1>b. then \in Pcs /\ "MarkCancelling" \in Pcs /\ "rolledBack" \in Outs
    BY DEF Pcs, Operations, Outs
  <1> HIDE DEF base, then
  <1>5. Enters("owner", "MarkCancelling", NoRecord, base, "rolledBack", then)
    <2>1. r \in ProcType
      BY <1>1, <1>a, <1>b DEF TypeOK, ProcType
    <2>2. proc' = [proc EXCEPT !["owner"] = r]
      BY <1>1, <1>2 DEF TypeOK
    <2> QED
      BY <1>1, <1>3, <2>1, <2>2 DEF TypeOK, Enters, Moves, ProcType
  <1>6. /\ Moves("owner") /\ proc'["owner"].pc = "MarkCancelling"
        /\ proc'["owner"].seen = NoRecord /\ proc'["owner"].out = "rolledBack"
        /\ proc'["owner"].then = then /\ NoRecord.state = "none"
    BY <1>5, RecordFacts DEF Enters
  <1>7. TypeOK' /\ Steady("owner") /\ lock' = lock
    BY <1>1, <1>2, <1>6, StillSteady
  <1>8. ProcessFits("owner")'
    BY <1>2, <1>4, <1>6 DEF ProcessFits, OwnerPcs, Shared, Directory, Still, fixed
  <1>9. ASSUME kind = "portable" PROVE PortableFits("owner")'
    <2>1. lock'.holder = "owner"
      BY <1>1, <1>2, <1>7, <1>9 DEF UpdateInv, PortableInv, PortableFits, Holding
    <2> QED
      BY <1>6, <2>1
         DEF PortableFits, Holding, Done, Completed, RolledBack, Early, Unjournaled, Unregistered
  <1> QED
    BY <1>1, <1>3, <1>6, <1>7, <1>8, <1>9, WalkKept
       DEF Early, Unjournaled, Unregistered, Starting

LEMMA ExecuteKept ==
    ASSUME UpdateInv, ExecuteAfterCallerExit
    PROVE  UpdateInv'
  <1> DEFINE pc == IF Directory THEN "swapping" ELSE "installing"
             r == [proc["owner"] EXCEPT !.base = "ran", !.pc = pc]
  <1>1. TypeOK /\ "owner" \in Processes
    BY NamesDiffer DEF UpdateInv, ServiceInv
  <1>2. /\ proc["owner"].pc = "committed" /\ Still
        /\ proc' = [proc EXCEPT !["owner"].base = "ran", !["owner"].pc = pc]
    BY DEF ExecuteAfterCallerExit, Still, At
  <1>3. record.state # "none" /\ proc["owner"].seen = NoRecord
    BY <1>1, <1>2, RecordThere, NothingSeen DEF Unregistered, Operations
  <1>4. pc \in Pcs /\ pc = IF Directory THEN "swapping" ELSE "installing"
    BY DEF Pcs
  <1> HIDE DEF pc
  <1>5. Enters("owner", pc, NoRecord, "ran", proc["owner"].out, proc["owner"].then)
    <2>1. r \in ProcType
      BY <1>1, <1>4 DEF TypeOK, ProcType
    <2>2. proc' = [proc EXCEPT !["owner"] = r]
      BY <1>1, <1>2 DEF TypeOK
    <2> QED
      BY <1>1, <1>3, <2>1, <2>2 DEF TypeOK, Enters, Moves, ProcType
  <1>6. /\ Moves("owner") /\ proc'["owner"].pc = pc /\ proc'["owner"].seen = NoRecord
        /\ NoRecord.state = "none"
    BY <1>5, RecordFacts DEF Enters
  <1>7. TypeOK' /\ Steady("owner") /\ lock' = lock
    BY <1>1, <1>2, <1>6, StillSteady
  <1>8. ProcessFits("owner")'
    BY <1>2, <1>4, <1>6 DEF ProcessFits, OwnerPcs, Shared, Directory, Still, fixed
  <1>9. ASSUME kind = "portable" PROVE PortableFits("owner")'
    <2>1. lock'.holder = "owner" /\ pc = "swapping"
      BY <1>1, <1>2, <1>4, <1>7, <1>9
         DEF UpdateInv, PortableInv, PortableFits, Holding, Directory
    <2> QED
      BY <1>6, <2>1
         DEF PortableFits, Holding, Done, Completed, RolledBack, Early, Unjournaled, Unregistered
  <1>10. pc \in {"swapping", "installing"}
    BY <1>4
  <1>11. /\ proc'["owner"].pc \notin Early \cup Unjournaled \cup Unregistered \cup Starting
         /\ proc'["owner"].pc \notin {"idle", "committed", "locking"}
    BY <1>6, <1>10 DEF Early, Unjournaled, Unregistered, Starting
  <1> QED
    BY <1>1, <1>2, <1>3, <1>6, <1>7, <1>8, <1>9, <1>11, WalkKept

(* An installer is not a portable transaction.                             *)
LEMMA RunInstallerKept ==
    ASSUME UpdateInv, RunInstaller
    PROVE  UpdateInv'
  <1>1. TypeOK /\ "owner" \in Processes
    BY NamesDiffer DEF UpdateInv, ServiceInv
  <1>2. /\ proc["owner"].pc = "installing"
        /\ UNCHANGED <<fixed, index, stage, journal, lock, world>>
    BY DEF RunInstaller, At
  <1>3. /\ record.state # "none" /\ proc["owner"].seen = NoRecord
        /\ ~Directory /\ ~Directory' /\ kind # "portable" /\ ProcessFits("owner")
    BY <1>1, <1>2, RecordThere, NothingSeen
       DEF Unregistered, Operations, UpdateInv, ServiceInv, LocalFits, ProcessFits, Directory,
           fixed
  <1>4. target' \in {"old", "away", "new"}
    BY <1>1 DEF RunInstaller
  <1>5. ASSUME Moves("owner"), ProcessFits("owner")',
               proc'["owner"].pc \notin Unregistered \cup Starting
        PROVE  UpdateInv'
    <2>1. TypeOK'
      BY <1>1, <1>2, <1>4, <1>5, TypeKept DEF TypeOK, index, world, ClaimType, LockType
    <2>2. ReachStep("owner")
      BY <1>2, <1>3, <1>5 DEF ReachStep, index
    <2>3. ClaimFits'
      BY <1>1, <1>2, <1>5, ClaimKept
         DEF ClaimStep, ClaimStays, UpdateInv, ServiceInv, TypeOK, ClaimType, index, world
    <2> QED
      BY <1>1, <1>3, <1>5, <2>1, <2>2, <2>3, WorkKept DEF Works
  <1>6. CASE UNCHANGED proc
    BY <1>1, <1>2, <1>3, <1>5, <1>6
       DEF TypeOK, Moves, ProcType, ProcessFits, Unregistered, Starting
  <1>7. ASSUME NEW out \in {"completed", "rolledBack", "manualActionRequired"},
               proc' = [proc EXCEPT !["owner"].out = out,
                           !["owner"].then = "PersistCleanupPending",
                           !["owner"].pc = CASE out = "completed" -> "PersistCleanupPending"
                                             [] out = "rolledBack" -> "MarkCancelling"
                                             [] OTHER -> "PersistTerminal"]
        PROVE  UpdateInv'
    <2> DEFINE pc == CASE out = "completed" -> "PersistCleanupPending"
                       [] out = "rolledBack" -> "MarkCancelling"
                       [] OTHER -> "PersistTerminal"
               r == [proc["owner"] EXCEPT !.out = out, !.then = "PersistCleanupPending",
                                          !.pc = pc]
    <2>1. /\ pc \in {"PersistCleanupPending", "MarkCancelling", "PersistTerminal"}
          /\ pc = "PersistCleanupPending" => out = "completed"
          /\ pc = "MarkCancelling" => out = "rolledBack"
      OBVIOUS
    <2>2. proc' = [proc EXCEPT !["owner"].out = out,
                      !["owner"].then = "PersistCleanupPending", !["owner"].pc = pc]
      BY <1>7
    <2> HIDE DEF pc
    <2>3. pc \in Pcs /\ out \in Outs /\ "PersistCleanupPending" \in Pcs
      BY <2>1 DEF Pcs, Operations, Outs
    <2>4. Enters("owner", pc, NoRecord, proc["owner"].base, out, "PersistCleanupPending")
      <3>1. r \in ProcType
        BY <1>1, <2>3 DEF TypeOK, ProcType
      <3>2. proc' = [proc EXCEPT !["owner"] = r]
        BY <1>1, <2>2 DEF TypeOK
      <3> QED
        BY <1>1, <1>3, <3>1, <3>2 DEF TypeOK, Enters, Moves, ProcType
    <2>5. ProcessFits("owner")'
      BY <1>3, <2>1, <2>4 DEF ProcessFits, OwnerPcs, Shared, Enters
    <2> QED
      BY <1>5, <2>1, <2>4, <2>5 DEF Enters, Unregistered, Starting
  <1> QED
    BY <1>6, <1>7 DEF RunInstaller

LEMMA OwnerDisarmsKept ==
    ASSUME UpdateInv, OwnerDisarms
    PROVE  UpdateInv'
  <1>1. TypeOK /\ "owner" \in Processes
    BY NamesDiffer DEF UpdateInv, ServiceInv
  <1>2. /\ proc["owner"].pc = "disarming" /\ armed' \in {armed, FALSE}
        /\ Goto("owner", "ended")
        /\ UNCHANGED <<fixed, index, tree, token, caller, launches, deaths>>
    BY DEF OwnerDisarms, At
  <1>3. Enters("owner", "ended", NoRecord, proc["owner"].base, proc["owner"].out,
               proc["owner"].then)
    BY <1>2, OwnerPasses DEF Pcs, Operations
  <1>4. record.state # "none" /\ Alive("owner")
    BY <1>1, <1>2, RecordThere DEF Unregistered, Alive
  <1>a. armed' \in BOOLEAN /\ Moves("owner")
    BY <1>1, <1>2, <1>3 DEF TypeOK, Enters
  <1>5. TypeOK'
    <2>1. /\ record' \in Records /\ claim' \in ClaimType /\ lock' \in LockType
          /\ target' \in {"old", "away", "new"} /\ stage' \in {"staged", "prepared", "gone"}
          /\ journal' \in {"none", "prepared", "moved"}
      BY <1>1, <1>2 DEF TypeOK, index, tree, ClaimType, LockType
    <2>2. /\ token' \in BOOLEAN /\ caller' \in BOOLEAN /\ launches' \in 0..2
          /\ deaths' \in 0..MaxDeaths
      BY <1>1, <1>2 DEF TypeOK
    <2> QED
      BY <1>1, <1>2, <1>a, <2>1, <2>2, TypeKept
  <1>6. kind = "portable" => lock.holder # "owner" /\ Terminal
    BY <1>1, <1>2 DEF UpdateInv, PortableInv, PortableFits, Holding, Done
  <1>7. Leaves("owner")
    BY <1>1, <1>2, <1>3, <1>4, <1>6
       DEF Leaves, Enters, index, tree, ClaimStays, TypeOK, ClaimType
  <1> QED
    BY <1>1, <1>4, <1>5, <1>6, <1>7, LeaveKept
-----------------------------------------------------------------------------
(* The theorems.                                                           *)

LEMMA InitFits == Init => UpdateInv
  <1> SUFFICES ASSUME Init PROVE UpdateInv
    OBVIOUS
  <1>1. /\ Fresh \in ProcType /\ Fresh.pc = "idle" /\ Fresh.seen = NoRecord
        /\ NoRecord.state = "none" /\ Fresh.base = "none"
    BY RecordFacts DEF Fresh, ProcType, Pcs, RecordStates, Outs
  <1>2. \A p \in Processes : proc[p] = Fresh
    BY DEF Init
  <1>3. TypeOK
    <2>1. proc \in [Processes -> ProcType]
      BY <1>1 DEF Init
    <2>2. deaths \in 0..MaxDeaths /\ launches \in 0..2
      BY ServiceAssumption DEF Init
    <2>3. /\ wants \in BOOLEAN /\ endpoint \in {"none", "incomplete", "stable"}
          /\ marker \in BOOLEAN
      BY DEF Init
    <2>4. record \in Records /\ claim \in ClaimType /\ lock \in LockType
      BY RecordFacts DEF Init, ClaimType, LockType, NoClaim
    <2> QED
      BY <2>1, <2>2, <2>3, <2>4 DEF Init, TypeOK, ProcType, ClaimType, LockType
  <1>4. LocalFits
    BY <1>1, <1>2
       DEF LocalFits, ProcessFits, OwnerPcs, RecoveryPcs, Shared
  <1>5. ReachFits
    BY <1>1, <1>2, NamesDiffer DEF Init, ReachFits, Unregistered, Portable
  <1>6. ClaimFits
    BY <1>1, <1>2 DEF Init, ClaimFits, Starting
  <1>7. ArmFits /\ LockFits /\ SwapFits
    BY <1>1, <1>2, NamesDiffer DEF Init, ArmFits, LockFits, SwapFits, Completed, RolledBack
  <1>8. ASSUME NEW p \in Processes PROVE PortableFits(p)
    <2>1. lock.holder # p
      BY NamesDiffer DEF Init
    <2> QED
      BY <1>1, <1>2, <2>1 DEF PortableFits, Done, Holding, Completed, RolledBack
  <1> QED
    BY <1>3, <1>4, <1>5, <1>6, <1>7, <1>8 DEF UpdateInv, ServiceInv, PortableInv

LEMMA StutterFits == UpdateInv /\ UNCHANGED vars => UpdateInv'
  <1> SUFFICES ASSUME UpdateInv, UNCHANGED vars PROVE UpdateInv'
    OBVIOUS
  <1>1. UNCHANGED <<fixed, index, tree, world, proc>>
    BY DEF vars
  <1>2. TypeOK'
    <2>1. TypeOK /\ Moves("owner")
      BY <1>1 DEF UpdateInv, ServiceInv, TypeOK, Moves, ProcType
    <2> QED
      BY <1>1, <2>1, TypeKept DEF TypeOK, index, tree, world, ClaimType, LockType
  <1>3. LocalFits'
    BY <1>1 DEF UpdateInv, ServiceInv, LocalFits, ProcessFits, Directory, fixed, Processes
  <1>4. ReachFits' /\ ClaimFits'
    BY <1>1 DEF UpdateInv, ServiceInv, ReachFits, ClaimFits, fixed, index, world, Processes
  <1>5. PortableInv'
    BY <1>1 DEF UpdateInv, PortableInv, ArmFits, LockFits, SwapFits, PortableFits, SwapIsOff,
                Terminal, fixed, index, tree, world, Processes
  <1> QED
    BY <1>2, <1>3, <1>4, <1>5 DEF UpdateInv, ServiceInv

LEMMA RecoveryFits ==
    ASSUME UpdateInv, NEW p \in Processes, RecoveryStep(p)
    PROVE  UpdateInv'
  BY RecoverTerminalKept, RecoverManualKept, RecoverCleanupKept, RecoverInnoKept,
     LoadForRecoveryKept, LoadCurrentJournalKept, RecoverWithJournalKept,
     RecoverWithoutJournalKept, InspectKept
     DEF RecoveryStep

LEMMA CommonFits ==
    ASSUME UpdateInv, NEW p \in Processes, CommonStep(p)
    PROVE  UpdateInv'
  BY LoadKept, WriteKept, ClaimResolverKept, ConsumeKept, SwapTreeKept, RollBackTreeKept,
     ReleaseKept, SettledKept, LaunchKept, RelaunchedKept
     DEF CommonStep

LEMMA OwnerFits ==
    ASSUME UpdateInv, OwnerStep
    PROVE  UpdateInv'
  BY FirstStepsKept, ProvisionKept, AuthorizeKept, RestageKept, BindEndpointKept,
     PersistPreparingKept, ArmAndStartKept, HostIsReadyKept, HostIsLateKept, TakeLockKept,
     PrepareTransactionKept, AcceptCommitKept, CancelPreparedKept, ExecuteKept,
     RunInstallerKept, OwnerDisarmsKept
     DEF OwnerStep

LEMMA NextFits == UpdateInv /\ [Next]_vars => UpdateInv'
  <1> SUFFICES ASSUME UpdateInv, [Next]_vars PROVE UpdateInv'
    OBVIOUS
  <1>1. CASE PrepareInstall \/ OwnerStep
    BY <1>1, FirstStepsKept, OwnerFits
  <1>2. CASE HostStep
    BY <1>2, HostStartsKept, ActorsExitedKept, HostEndsKept, RecoveryFits, NamesDiffer
       DEF HostStep
  <1>3. CASE CallerExits
    BY <1>3, CallerExitsKept
  <1>4. ASSUME NEW r \in Resolvers, ResolveIsAnswered(r) \/ BeginResolve(r) \/ ResolverStep(r)
        PROVE  UpdateInv'
    <2>1. r \in Processes
      BY NamesDiffer
    <2> QED
      BY <1>4, <2>1, StutterFits, BeginResolveKept, AnnounceKept, ResolverCallerExitsKept,
         RecoveryFits, ResolverEndsKept
         DEF ResolveIsAnswered, ResolverStep
  <1>5. ASSUME NEW p \in Processes, CommonStep(p) \/ Die(p) PROVE UpdateInv'
    BY <1>5, CommonFits, DieKept
  <1> QED
    BY <1>1, <1>2, <1>3, <1>4, <1>5, StutterFits DEF Next

(* One update on Windows keeps UpdateInv, whatever the kind of its         *)
(* transaction, however many resolvers an app starts and however many      *)
(* processes are killed: the owner's, the host's and the resolvers' steps  *)
(* of windows_persistent_recovery.cpp and the callers around them.         *)
THEOREM UpdateInvariance == Spec => []UpdateInv
  BY InitFits, NextFits, PTL DEF Spec

(* The record, the claim, the trees, the lock and every process keep their *)
(* types.                                                                  *)
THEOREM TypeCorrect == Spec => []TypeOK
  <1>1. UpdateInv => TypeOK
    BY DEF UpdateInv, ServiceInv
  <1> QED
    BY <1>1, UpdateInvariance, PTL

(* The app is started at most once: the claim is consumed by one process   *)
(* only, and for good (RunWindowsAtMostOnceRelaunch,                       *)
(* ConsumeResolverClaim).                                                  *)
THEOREM AppStartsOnce == Spec => []LaunchedAtMostOnce
  <1>1. UpdateInv => LaunchedAtMostOnce
    BY DEF UpdateInv, ServiceInv, ClaimFits, LaunchedAtMostOnce
  <1> QED
    BY <1>1, UpdateInvariance, PTL

(* A record can always be found and acted upon: its endpoint is named and  *)
(* complete and the target carries the marker, wherever the helper that    *)
(* wrote them died (RunPortableWindowsRecoveryPrepareBoundary).            *)
THEOREM RecordsAreReachable == Spec => []RecordIsReachable
  <1>1. UpdateInv => RecordIsReachable
    BY DEF UpdateInv, ServiceInv, ReachFits, RecordIsReachable
  <1> QED
    BY <1>1, UpdateInvariance, PTL

(* A portable transaction with a journal on disk and no terminal record    *)
(* keeps its recovery task (ShouldDisarmPortableWindowsRecoveryHost,       *)
(* DisarmRecoveryHost).                                                    *)
THEOREM PendingIsArmed == Spec => []PendingStaysArmed
  <1>1. UpdateInv => PendingStaysArmed
    BY DEF UpdateInv, PortableInv, ArmFits, Terminal, PendingStaysArmed
  <1> QED
    BY <1>1, UpdateInvariance, PTL

(* In the portable store, which compares what it replaces, the record is   *)
(* the outcome for any number of resolvers: completed only with the new    *)
(* bundle installed, rolled back only with the old one                     *)
(* (PersistCleanupPending, PersistTerminal, IsRecordForwardTransition).    *)
THEOREM PortableRecordTellsTarget == Spec => [](Portable => RecordTellsTarget)
  <1>1. UpdateInv => (Portable => RecordTellsTarget)
    BY DEF UpdateInv, PortableInv, SwapFits, SwapIsOff, Completed, RolledBack,
           RecordTellsTarget, Portable
  <1> QED
    BY <1>1, UpdateInvariance, PTL

-----------------------------------------------------------------------------
(* The record of the other two kinds, whose store replaces without         *)
(* comparing.  Any number of resolvers may come; of a protected directory  *)
(* they come one after the other while its owner has not yet got a         *)
(* complete journal.                                                       *)

ResolvesAlone ==
    kind = "protected" /\ proc["owner"].pc \in Early =>
        \A r, s \in Resolvers : Alive(r) /\ Alive(s) => r = s

(* The owner may still let the installer run.                              *)
Undecided == Early \cup {"PersistActive", "reserved", "MarkCommitAccepted", "committed"}

Decided == Directory \/ proc["owner"].pc \notin Undecided \cup {"installing"}

(* Nobody has seen a commit, or is about to write an earlier state over    *)
(* the record.                                                             *)
CommitIsOff ==
    /\ record.state \in Cancelled /\ proc["owner"].pc # "committed"
    /\ \A p \in Processes : /\ proc[p].pc # "swapping"
                            /\ proc[p].seen.state \in Cancelled \cup {"none"}
                            /\ p # "owner" => proc[p].base # "commitAccepted"

StaysNew == target = "new" /\ Decided

StaysOld ==
    /\ target = "old" /\ Decided
    /\ Directory => (journal = "none" /\ proc["owner"].pc \notin Early) \/ CommitIsOff

(* The host waits for the owner's end; the lock file of a directory is     *)
(* open in the process that works on it; an outcome that is loaded or      *)
(* about to be recorded is one that stays.                                 *)
StoreFits(p) ==
    LET q == proc[p] IN
    /\ p = "host" /\ proc["owner"].pc # "ended" => q.pc \in {"idle", "waiting"}
    /\ p # "owner" /\ q.pc \in {"idle", "waiting", "ended"} => q.base = "none"
    /\ IF Directory THEN lock.holder = p <=> q.pc \in Holding
       ELSE q.pc \notin {"swapping", "rollingBack", "inspecting"}
    /\ \/ q.seen.state \in Completed
       \/ q.pc = "PersistCleanupPending" /\ q.out = "completed"
       => StaysNew
    /\ \/ q.seen.state \in RolledBack
       \/ q.pc = "PersistCleanupPending" /\ q.out = "rolledBack"
       \/ ~Directory /\ q.pc = "MarkCancelling"
       => StaysOld
    /\ q.pc = "inspecting" /\ q.base # "commitAccepted" /\ proc["owner"].pc \in Early
          => record.state \in Cancelled

TargetFits ==
    /\ record.state \in Completed => StaysNew
    /\ record.state \in RolledBack => StaysOld
    /\ Directory => /\ lock.holder # "none" => lock.file
                    /\ proc["owner"].pc \in Unjournaled => journal = "none"
    /\ ~Directory /\ proc["owner"].pc \in Undecided => target = "old"

RegistryInv == TargetFits /\ \A p \in Processes : StoreFits(p)

(* The store of the other two kinds.                                       *)
Registry == kind # "portable" /\ ResolvesAlone

-----------------------------------------------------------------------------
(* What every step of p guarantees to the others.                          *)
StoreStep(p) ==
    /\ kind' = kind
    /\ \A q \in Processes \ {p} :
          /\ proc'[q] = proc[q]
          /\ Directory => (lock'.holder = q <=> lock.holder = q)
    /\ Directory /\ lock'.holder # "none" => lock'.file
    /\ p = "owner" =>
          /\ proc[p].pc # "ended"
          /\ proc'[p].pc \in Unjournaled => proc[p].pc \in Unjournaled
          /\ proc'[p].pc \in Early => proc[p].pc \in Early
          /\ proc'[p].pc \in Undecided => proc[p].pc \in Undecided
          /\ proc'[p].pc = "installing" => proc[p].pc \in Undecided \cup {"installing"}
          /\ proc'[p].pc = "committed" => proc[p].seen.state = "commitAccepted"
    /\ \/ target' = target
       \/ Directory /\ target # "new" /\ journal # "none" /\ proc[p].pc = "swapping"
       \/ ~Directory /\ p = "owner" /\ proc[p].pc = "installing"
    /\ Directory /\ journal = "none" =>
          journal' = "none" \/ (p = "owner" /\ proc[p].pc = "staging")
    /\ \/ record' = record
       \/ record.state = "none" /\ record'.state = "preparing"
       \/ proc[p].pc \in Operations /\ record' = proc[p].seen /\ record'.state # "none"
    /\ \/ proc'[p].seen.state \in {"none", proc[p].seen.state}
       \/ record.state \in Cancelled => proc'[p].seen.state \in Cancelled
    /\ p # "owner" /\ proc'[p].base = "commitAccepted" =>
          proc[p].base = "commitAccepted" \/ record.state = "commitAccepted"
    /\ proc'[p].pc = "swapping" =>
          \/ proc[p].pc = "swapping"
          \/ p = "owner" /\ proc[p].pc = "committed"
          \/ p # "owner" /\ proc[p].base = "commitAccepted"

LEMMA OwnerBack ==
    ASSUME NEW p \in Processes, StoreStep(p)
    PROVE  /\ Directory' = Directory
           /\ proc'["owner"].pc # "ended" => proc["owner"].pc # "ended"
           /\ proc'["owner"].pc \in Unjournaled => proc["owner"].pc \in Unjournaled
           /\ proc'["owner"].pc \in Early => proc["owner"].pc \in Early
           /\ proc'["owner"].pc \in Undecided => proc["owner"].pc \in Undecided
           /\ Decided => Decided'
  <1>1. Directory' = Directory
    BY DEF StoreStep, Directory
  <1>2. CASE p = "owner"
    BY <1>1, <1>2 DEF StoreStep, Decided
  <1>3. CASE p # "owner"
    <2>1. proc'["owner"] = proc["owner"]
      BY <1>3, NamesDiffer DEF StoreStep
    <2> QED BY <1>1, <2>1 DEF Decided
  <1> QED BY <1>2, <1>3, <1>1

LEMMA NewStays ==
    ASSUME NEW p \in Processes, StoreStep(p), StaysNew
    PROVE  StaysNew'
  <1>1. target' = target
    BY DEF StoreStep, StaysNew, Decided, Undecided
  <1> QED BY <1>1, OwnerBack DEF StaysNew

LEMMA CommitStaysOff ==
    ASSUME NEW p \in Processes, StoreStep(p), CommitIsOff
    PROVE  CommitIsOff'
  <1>1. record'.state \in Cancelled
    BY DEF StoreStep, CommitIsOff, Cancelled, RolledBack
  <1>2. proc'["owner"].pc # "committed"
    <2>1. CASE p = "owner"
      BY <2>1 DEF StoreStep, CommitIsOff, Cancelled, RolledBack
    <2>2. CASE p # "owner"
      BY <2>2, NamesDiffer DEF StoreStep, CommitIsOff
    <2> QED BY <2>1, <2>2
  <1>3. record.state # "commitAccepted" /\ record.state \in Cancelled
    BY DEF CommitIsOff, Cancelled, RolledBack
  <1>4. /\ proc'[p].pc # "swapping"
        /\ proc'[p].seen.state \in Cancelled \cup {"none"}
        /\ p # "owner" => proc'[p].base # "commitAccepted"
    BY <1>3 DEF StoreStep, CommitIsOff
  <1>5. \A q \in Processes : /\ proc'[q].pc # "swapping"
                             /\ proc'[q].seen.state \in Cancelled \cup {"none"}
                             /\ q # "owner" => proc'[q].base # "commitAccepted"
    BY <1>4 DEF StoreStep, CommitIsOff
  <1> QED BY <1>1, <1>2, <1>5 DEF CommitIsOff, Processes

LEMMA OldStays ==
    ASSUME NEW p \in Processes, StoreStep(p), StaysOld
    PROVE  StaysOld'
  <1>1. Decided' /\ Directory' = Directory
    BY OwnerBack DEF StaysOld
  <1>2. CASE ~Directory
    BY <1>1, <1>2 DEF StoreStep, StaysOld, Decided
  <1>3. CASE Directory /\ journal = "none" /\ proc["owner"].pc \notin Early
    <2>1. target' = "old"
      BY <1>3 DEF StoreStep, StaysOld
    <2>2. journal' = "none"
      BY <1>3 DEF StoreStep, Early
    <2>3. proc'["owner"].pc \notin Early
      BY <1>3, OwnerBack
    <2> QED BY <1>1, <2>1, <2>2, <2>3 DEF StaysOld
  <1>4. CASE Directory /\ CommitIsOff
    <2>1. target' = "old"
      BY <1>4 DEF StoreStep, StaysOld, CommitIsOff
    <2> QED BY <1>1, <1>4, <2>1, CommitStaysOff DEF StaysOld
  <1> QED BY <1>2, <1>3, <1>4 DEF StaysOld

(* Only one process at a time can be past its look at the lock while the   *)
(* owner has not got there.                                                *)
LEMMA OthersStoreFits ==
    ASSUME UpdateInv, RegistryInv, Registry, NEW p \in Processes, StoreStep(p),
           NEW q \in Processes, q # p
    PROVE  StoreFits(q)'
  <1>1. proc'[q] = proc[q] /\ (Directory => (lock'.holder = q <=> lock.holder = q))
    BY DEF StoreStep
  <1>2. StoreFits(q)
    BY DEF RegistryInv
  <1>3. ASSUME proc[q].pc = "inspecting", proc[q].base # "commitAccepted",
               proc'["owner"].pc \in Early
        PROVE  record'.state \in Cancelled
    <2>1. proc["owner"].pc \in Early /\ proc["owner"].pc # "ended"
      BY <1>3, OwnerBack DEF Early, Unjournaled, Unregistered
    <2>2. record.state \in Cancelled
      BY <1>2, <1>3, <2>1 DEF StoreFits
    <2>3. q # "owner" /\ q # "host" /\ q \in Resolvers
      BY <1>2, <1>3, <2>1, NamesDiffer DEF StoreFits, Early, Unjournaled, Unregistered, Processes
    <2>4. Directory
      BY <1>2, <1>3 DEF StoreFits
    <2>5. proc[p].pc \notin Operations
      <3>1. CASE p = "owner"
        BY <2>1, <3>1 DEF Early, Unjournaled, Unregistered, Operations
      <3>2. CASE p = "host"
        BY <2>1, <3>2 DEF RegistryInv, StoreFits, Operations
      <3>3. CASE p \in Resolvers
        <4>1. kind = "protected" /\ (Alive(q) /\ Alive(p) => q = p)
          BY <2>1, <2>3, <2>4, <3>3
             DEF Registry, ResolvesAlone, Directory, UpdateInv, ServiceInv, TypeOK, Kinds
        <4> QED BY <1>3, <4>1 DEF Alive, Operations
      <3> QED BY <3>1, <3>2, <3>3 DEF Processes
    <2> QED BY <2>2, <2>5 DEF StoreStep, Cancelled, RolledBack
  <1>4. Directory' = Directory /\ (proc'["owner"].pc # "ended" => proc["owner"].pc # "ended")
    BY OwnerBack
  <1>5. /\ StaysNew => StaysNew'
        /\ StaysOld => StaysOld'
    BY NewStays, OldStays
  <1> QED BY <1>1, <1>2, <1>3, <1>4, <1>5 DEF StoreFits

LEMMA StoreKept ==
    ASSUME UpdateInv, RegistryInv, Registry, NEW p \in Processes, StoreStep(p),
           StoreFits(p)'
    PROVE  RegistryInv'
  <1>1. \A q \in Processes : StoreFits(q)'
    BY OthersStoreFits
  <1>2. Directory' = Directory
    BY OwnerBack
  <1>3. /\ record'.state \in Completed => StaysNew'
        /\ record'.state \in RolledBack => StaysOld'
    BY NewStays, OldStays DEF StoreStep, RegistryInv, TargetFits, StoreFits, Completed, RolledBack
  <1>4. Directory => /\ lock'.holder # "none" => lock'.file
                     /\ proc'["owner"].pc \in Unjournaled => journal' = "none"
    <2>1. ASSUME Directory, proc'["owner"].pc \in Unjournaled PROVE journal' = "none"
      <3>1. proc["owner"].pc \in Unjournaled /\ proc["owner"].pc # "staging"
        BY <2>1, OwnerBack DEF Unjournaled, Unregistered
      <3>2. journal = "none"
        BY <2>1, <3>1 DEF RegistryInv, TargetFits
      <3> QED BY <2>1, <3>1, <3>2 DEF StoreStep
    <2> QED BY <2>1 DEF StoreStep
  <1>5. ~Directory /\ proc'["owner"].pc \in Undecided => target' = "old"
    <2>1. ASSUME ~Directory, proc'["owner"].pc \in Undecided PROVE target' = "old"
      <3>1. proc["owner"].pc \in Undecided /\ proc["owner"].pc # "installing"
        BY <2>1, OwnerBack DEF Undecided, Early, Unjournaled, Unregistered
      <3> QED BY <2>1, <3>1 DEF StoreStep, RegistryInv, TargetFits
    <2> QED BY <2>1
  <1>6. TargetFits'
    BY <1>2, <1>3, <1>4, <1>5 DEF TargetFits
  <1> QED BY <1>1, <1>6 DEF RegistryInv, Processes

-----------------------------------------------------------------------------
(* Steps after which p neither changes the tree nor records an outcome.    *)

Others(p) == \A q \in Processes \ {p} : proc'[q] = proc[q]

Quiet(p) ==
    /\ kind' = kind /\ record' = record /\ target' = target
    /\ Directory => journal' \in {journal, "none"}
    /\ Others(p)
    /\ proc'[p].seen \in {proc[p].seen, NoRecord}
    /\ p # "owner" => proc'[p].base \in {proc[p].base, "none", record.state}
    /\ proc'[p].pc \notin {"committed", "swapping", "installing", "rollingBack",
                           "inspecting", "MarkCancelling", "PersistCleanupPending"}

HoldsLock(p) == Directory =>
    /\ lock'.holder = p <=> proc'[p].pc \in Holding
    /\ \A q \in Processes \ {p} : lock'.holder = q <=> lock.holder = q
    /\ lock'.holder # "none" => lock'.file

KeepsOrder(p) ==
    /\ p = "owner" =>
          /\ proc[p].pc # "ended"
          /\ proc'[p].pc \in Unjournaled => proc[p].pc \in Unjournaled
          /\ proc'[p].pc \in Early => proc[p].pc \in Early
          /\ proc'[p].pc \in Undecided => proc[p].pc \in Undecided
    /\ p = "host" /\ proc["owner"].pc # "ended" => proc'[p].pc \in {"idle", "waiting"}
    /\ p # "owner" /\ proc'[p].pc \in {"idle", "waiting", "ended"} => proc'[p].base = "none"

LEMMA QuietKept ==
    ASSUME UpdateInv, RegistryInv, Registry, NEW p \in Processes, Quiet(p), HoldsLock(p),
           KeepsOrder(p)
    PROVE  RegistryInv'
  <1>1. StoreStep(p)
    BY RecordFacts DEF StoreStep, Quiet, HoldsLock, KeepsOrder, Others
  <1>2. Directory' = Directory /\ (proc'["owner"].pc # "ended" => proc["owner"].pc # "ended")
    BY <1>1, OwnerBack
  <1>3. StoreFits(p) /\ (StaysNew => StaysNew') /\ (StaysOld => StaysOld')
    BY <1>1, NewStays, OldStays DEF RegistryInv
  <1>4. proc'[p].seen.state \in {proc[p].seen.state, "none"}
    BY RecordFacts DEF Quiet
  <1>5. /\ proc'[p].seen.state \in Completed => StaysNew'
        /\ proc'[p].seen.state \in RolledBack => StaysOld'
    BY <1>3, <1>4 DEF StoreFits, Completed, RolledBack
  <1>6. /\ p = "host" /\ proc'["owner"].pc # "ended" => proc'[p].pc \in {"idle", "waiting"}
        /\ p # "owner" /\ proc'[p].pc \in {"idle", "waiting", "ended"} =>
              proc'[p].base = "none"
    BY <1>2 DEF KeepsOrder
  <1>7. StoreFits(p)'
    BY <1>2, <1>5, <1>6 DEF StoreFits, Quiet, HoldsLock
  <1> QED BY <1>1, <1>7, StoreKept

LEMMA LockStays ==
    ASSUME RegistryInv, NEW p \in Processes, lock' = lock,
           proc'[p].pc \in Holding <=> proc[p].pc \in Holding
    PROVE  HoldsLock(p)
  BY DEF HoldsLock, RegistryInv, TargetFits, StoreFits

LEMMA LockLeft ==
    ASSUME TypeOK, RegistryInv, NEW p \in Processes, proc'[p].pc \notin Holding,
           lock' = Released(p) \/ (lock' = Unlocked /\ lock.holder \in {p, "none"})
    PROVE  HoldsLock(p)
  <1>1. CASE lock' = Released(p)
    <2>1. lock'.holder # p /\ \A q \in Processes \ {p} : lock'.holder = q <=> lock.holder = q
      BY <1>1, ReleasedEffect, NamesDiffer
    <2>2. lock'.holder # "none" => lock' = lock
      BY <1>1, ReleasedEffect
    <2> QED BY <2>1, <2>2 DEF HoldsLock, RegistryInv, TargetFits
  <1>2. CASE lock' = Unlocked /\ lock.holder \in {p, "none"}
    BY <1>2, UnlockedType, NamesDiffer DEF HoldsLock
  <1> QED BY <1>1, <1>2

(* The steps of a process that is past the commit, or of recovery.         *)
LEMMA LateQuiet ==
    ASSUME UpdateInv, RegistryInv, Registry, NEW p \in Processes, Quiet(p), HoldsLock(p),
           proc[p].pc \notin {"idle", "waiting", "ended"},
           proc'[p].pc \notin {"idle", "waiting"}, p # "owner" => proc'[p].pc # "ended",
           p = "owner" => proc'[p].pc \notin Undecided
    PROVE  RegistryInv'
  <1>1. KeepsOrder(p)
    BY DEF KeepsOrder, Undecided, Early, RegistryInv, StoreFits
  <1> QED BY <1>1, QuietKept

(* The owner before it has taken the lock.                                 *)
LEMMA OwnerQuiet ==
    ASSUME UpdateInv, RegistryInv, Registry,
           UNCHANGED <<kind, record, target, lock>>,
           Directory => journal' \in {journal, "none"}, Others("owner"),
           proc'["owner"].seen \in {proc["owner"].seen, NoRecord},
           proc["owner"].pc \in Unjournaled, proc'["owner"].pc \in Unjournaled \cup {"ended"}
    PROVE  RegistryInv'
  <1>1. Quiet("owner") /\ KeepsOrder("owner")
    BY DEF Quiet, KeepsOrder, Unjournaled, Unregistered, Undecided, Early
  <1>2. HoldsLock("owner")
    BY NamesDiffer, LockStays DEF Holding, Unjournaled, Unregistered
  <1> QED BY <1>1, <1>2, NamesDiffer, QuietKept

LEMMA GotoGoes ==
    ASSUME TypeOK, NEW p \in Processes, NEW pc, Goto(p, pc)
    PROVE  /\ Others(p) /\ proc'[p].pc = pc /\ proc'[p].seen = proc[p].seen
           /\ proc'[p].base = proc[p].base /\ proc'[p].out = proc[p].out
  <1>1. proc' = [proc EXCEPT ![p] = [proc[p] EXCEPT !.pc = pc]] /\ proc[p] \in ProcType
    BY DEF TypeOK, Goto, ProcType
  <1> QED BY <1>1 DEF TypeOK, Others, ProcType

LEMMA ContinueGoes ==
    ASSUME TypeOK, NEW p \in Processes, NEW pc, NEW out, Continue(p, pc, out)
    PROVE  /\ Others(p) /\ proc'[p].pc = pc /\ proc'[p].seen = proc[p].seen
           /\ proc'[p].base = proc[p].base /\ proc'[p].out = out
  <1>1. /\ proc' = [proc EXCEPT ![p] = [proc[p] EXCEPT !.pc = pc, !.out = out]]
        /\ proc[p] \in ProcType
    BY DEF TypeOK, Continue, ProcType
  <1> QED BY <1>1 DEF TypeOK, Others, ProcType

LEMMA FreshGoes ==
    ASSUME TypeOK, NEW p \in Processes, NEW pc,
           proc' = [proc EXCEPT ![p] = [Fresh EXCEPT !.pc = pc]]
    PROVE  /\ Others(p) /\ proc'[p].pc = pc /\ proc'[p].seen = NoRecord
           /\ proc'[p].base = "none"
  BY DEF TypeOK, Others, Fresh

LEMMA TypesHere == UpdateInv => TypeOK /\ \A p \in Processes : ProcessFits(p)
  BY DEF UpdateInv, ServiceInv, LocalFits

(* A process is killed, or an exception ends it.                           *)
LEMMA DieStore ==
    ASSUME UpdateInv, RegistryInv, Registry, NEW p \in Processes, Die(p)
    PROVE  RegistryInv'
  <1> DEFINE pc == IF p = "host" THEN "idle" ELSE "ended"
  <1>1. Others(p) /\ proc'[p].pc = pc /\ proc'[p].seen = NoRecord /\ proc'[p].base = "none"
    <2>1. proc' = [proc EXCEPT ![p] = [Fresh EXCEPT !.pc = pc]]
      BY DEF Die
    <2> HIDE DEF pc
    <2> QED BY <2>1, TypesHere, FreshGoes
  <1>2. lock' = Released(p) /\ UNCHANGED <<fixed, record, target, stage, journal>> /\ Alive(p)
    BY DEF Die
  <1>3. Quiet(p)
    BY <1>1, <1>2 DEF Quiet, fixed
  <1>4. HoldsLock(p)
    BY <1>1, <1>2, TypesHere, LockLeft DEF Holding
  <1>5. KeepsOrder(p)
    BY <1>1, <1>2 DEF KeepsOrder, Alive, Undecided, Early, Unjournaled, Unregistered
  <1> QED BY <1>3, <1>4, <1>5, QuietKept

LEMMA ThrowStore ==
    ASSUME UpdateInv, RegistryInv, Registry, NEW p \in Processes, Throw(p),
           UNCHANGED <<kind, record, target>>, proc[p].pc \notin {"idle", "ended", "waiting"}
    PROVE  RegistryInv'
  <1>1. TypeOK /\ ProcessFits(p) /\ StoreFits(p)
    BY TypesHere DEF RegistryInv
  <1>2. CASE p = "owner" /\ At(p, "MarkCommitAccepted")
    <2> DEFINE then == IF Directory THEN "rollingBack" ELSE "PersistCleanupPending"
    <2>1. /\ proc' = [proc EXCEPT ![p] = [proc[p] EXCEPT !.pc = "MarkCancelling",
                         !.seen = NoRecord, !.out = "rolledBack", !.then = then]]
          /\ UNCHANGED effects
      BY <1>1, <1>2 DEF Throw, TypeOK
    <2>2. /\ Others(p) /\ proc'[p].pc = "MarkCancelling" /\ proc'[p].seen = NoRecord
          /\ proc'[p].base = proc[p].base
      <3>1. proc[p] \in ProcType
        BY <1>1 DEF TypeOK, ProcType
      <3> HIDE DEF then
      <3> QED BY <1>1, <2>1, <3>1 DEF TypeOK, Others, ProcType
    <2>3. lock' = lock /\ journal' = journal
      BY <2>1 DEF effects
    <2>4. proc[p].pc = "MarkCommitAccepted"
      BY <1>2 DEF At
    <2>5. HoldsLock(p)
      BY <2>2, <2>3, <2>4, LockStays DEF Holding
    <2>6. StoreStep(p)
      BY <1>2, <2>2, <2>3, <2>4, <2>5, RecordFacts
         DEF StoreStep, HoldsLock, Others, Undecided, Early, Unjournaled, Unregistered
    <2>7. ~Directory => StaysOld'
      BY <1>2, <2>2, <2>4
         DEF StaysOld, Decided, Directory, RegistryInv, TargetFits, Undecided, Early,
             Unjournaled, Unregistered
    <2>8. StoreFits(p)'
      BY <1>2, <2>2, <2>5, <2>6, <2>7, OwnerBack, RecordFacts
         DEF StoreFits, HoldsLock, Completed, RolledBack
    <2> QED BY <2>6, <2>8, StoreKept
  <1>3. CASE p = "owner" /\ ~At(p, "MarkCommitAccepted")
    <2>1. Others(p) /\ proc'[p].pc = "ended" /\ proc'[p].seen = NoRecord
      BY <1>1, <1>3, FreshGoes DEF Throw
    <2>2. lock' = Released(p) /\ (Directory => journal' = journal)
      BY <1>3 DEF Throw
    <2>3. HoldsLock(p)
      BY <1>1, <2>1, <2>2, LockLeft DEF Holding
    <2>4. Quiet(p)
      BY <1>3, <2>1, <2>2 DEF Quiet
    <2> QED BY <1>3, <2>1, <2>3, <2>4, LateQuiet DEF Undecided, Early, Unjournaled, Unregistered
  <1>4. CASE p # "owner"
    <2> DEFINE out == ThrownOut(p)
    <2>1. /\ proc' = [proc EXCEPT ![p] = [proc[p] EXCEPT !.pc = "answering",
                         !.seen = NoRecord, !.out = out]]
          /\ lock' = Released(p) /\ journal' = journal
      BY <1>1, <1>4 DEF Throw, TypeOK
    <2>2. /\ Others(p) /\ proc'[p].pc = "answering" /\ proc'[p].seen = NoRecord
          /\ proc'[p].base = proc[p].base
      <3>1. proc[p] \in ProcType
        BY <1>1 DEF TypeOK, ProcType
      <3> HIDE DEF out
      <3> QED BY <1>1, <2>1, <3>1 DEF TypeOK, Others, ProcType
    <2>3. HoldsLock(p)
      BY <1>1, <2>1, <2>2, LockLeft DEF Holding
    <2>4. Quiet(p)
      BY <1>4, <2>1, <2>2 DEF Quiet
    <2> QED BY <1>4, <2>2, <2>3, <2>4, LateQuiet
  <1> QED BY <1>2, <1>3, <1>4

-----------------------------------------------------------------------------
(* The index.                                                              *)

(* A process that has done its operation goes on with the lock it has.     *)
LEMMA AfterStore ==
    ASSUME UpdateInv, NEW p \in Processes, proc[p].pc \in Operations
    PROVE  /\ After(p) \in Holding <=> proc[p].pc \in Holding
           /\ After(p) \notin Early \cup {"swapping", "installing", "MarkCancelling",
                                          "waiting", "ended"}
           /\ p = "owner" /\ After(p) \in Undecided => proc[p].pc \in Undecided
           /\ After(p) = "committed" => At(p, "MarkCommitAccepted")
           /\ After(p) = "rollingBack" => Directory
           /\ After(p) = "inspecting" => Directory /\ At(p, "MarkCancelling")
           /\ After(p) = "PersistCleanupPending" =>
                 ~Directory /\ At(p, "MarkCancelling") /\ proc[p].out = "rolledBack"
  <1>1. ProcessFits(p)
    BY TypesHere
  <1>2. CASE At(p, "MarkCancelling")
    <2>1. /\ After(p) = proc[p].then
          /\ IF Directory THEN proc[p].then \in {"rollingBack", "inspecting"}
             ELSE proc[p].then = "PersistCleanupPending" /\ proc[p].out = "rolledBack"
      BY <1>1, <1>2 DEF After, At, ProcessFits
    <2> QED
      BY <1>2, <2>1 DEF At, Holding, Early, Unjournaled, Unregistered, Undecided
  <1>3. CASE ~At(p, "MarkCancelling")
    <2>1. \/ At(p, "PersistActive") /\ After(p) = "reserved"
          \/ At(p, "MarkCommitAccepted") /\ After(p) = "committed"
          \/ At(p, "MarkRelaunchPending") /\ After(p) = "announcing"
          \/ At(p, "MarkRelaunchAttempting") /\ After(p) = "launching"
          \/ At(p, "PersistRelaunchOutcome") /\ After(p) = "relaunched"
          \/ At(p, "PersistCleanupPending") /\ After(p) = "releasing"
          \/ At(p, "PersistTerminal") /\ After(p) = "settled"
      BY <1>3 DEF After, At, Operations
    <2> QED
      BY <2>1 DEF At, Holding, Early, Unjournaled, Unregistered, Undecided
  <1> QED BY <1>2, <1>3

LEMMA LoadStore ==
    ASSUME UpdateInv, RegistryInv, Registry, NEW p \in Processes, LoadIndex(p)
    PROVE  RegistryInv'
  <1>1. TypeOK /\ ProcessFits(p) /\ StoreFits(p)
    BY TypesHere DEF RegistryInv
  <1>2. /\ proc[p].pc \in Operations /\ proc[p].seen = NoRecord
        /\ UNCHANGED <<kind, record, target>>
    BY DEF LoadIndex, fixed
  <1>3. proc[p].pc \notin {"idle", "waiting", "ended"}
    BY <1>2 DEF Operations
  <1>4. p = "host" => proc["owner"].pc = "ended"
    BY <1>1, <1>3 DEF StoreFits
  <1>5. CASE AlreadyDone(p, record) /\ Goto(p, After(p)) /\ UNCHANGED effects
    <2>1. /\ Others(p) /\ proc'[p].pc = After(p) /\ proc'[p].seen = NoRecord
          /\ proc'[p].base = proc[p].base /\ proc'[p].out = proc[p].out
      BY <1>1, <1>2, <1>5, GotoGoes
    <2>2. lock' = lock /\ journal' = journal
      BY <1>5 DEF effects
    <2>3. ~At(p, "MarkCommitAccepted") /\ (At(p, "MarkCancelling") => record.state = "cancelling")
      BY <1>1, <1>2, <1>5, UpdatedState DEF AlreadyDone, At, TypeOK
    <2>4. HoldsLock(p)
      BY <1>2, <2>1, <2>2, AfterStore, LockStays
    <2>5. StoreStep(p)
      BY <1>2, <1>3, <2>1, <2>2, <2>3, <2>4, AfterStore, RecordFacts
         DEF StoreStep, HoldsLock, Others, Early
    <2>6. StoreFits(p)'
      BY <1>1, <1>2, <1>3, <1>4, <2>1, <2>3, <2>4, <2>5, AfterStore, OwnerBack, OldStays,
         RecordFacts
         DEF StoreFits, HoldsLock, At, Completed, RolledBack, Cancelled, Early, Unjournaled,
             Unregistered
    <2> QED BY <2>5, <2>6, StoreKept
  <1>6. CASE /\ Allows(p, record) /\ UNCHANGED effects
             /\ proc' = [proc EXCEPT ![p].seen = Updated(p, record)]
    <2> DEFINE seen == Updated(p, record)
    <2>1. /\ Others(p) /\ proc'[p].pc = proc[p].pc /\ proc'[p].seen = seen
          /\ proc'[p].base = proc[p].base /\ proc'[p].out = proc[p].out
      <3>1. /\ proc' = [proc EXCEPT ![p] = [proc[p] EXCEPT !.seen = seen]]
            /\ proc[p] \in ProcType
        BY <1>1, <1>6 DEF TypeOK, ProcType
      <3> HIDE DEF seen
      <3> QED BY <1>1, <3>1 DEF TypeOK, Others, ProcType
    <2>2. lock' = lock /\ journal' = journal
      BY <1>6 DEF effects
    <2>3. /\ At(p, "PersistActive") => seen.state = "prepared"
          /\ At(p, "MarkCommitAccepted") => seen.state = "commitAccepted"
          /\ At(p, "MarkCancelling") => seen.state = "cancelling"
          /\ At(p, "PersistCleanupPending") => seen.state = CleanupStateOf(proc[p].out)
          /\ At(p, "PersistTerminal") => seen.state = proc[p].out
          /\ proc[p].pc \in {"MarkRelaunchPending", "MarkRelaunchAttempting",
                             "PersistRelaunchOutcome"} => seen.state = record.state
      BY <1>1, <1>2, UpdatedState DEF TypeOK
    <2>4. /\ At(p, "PersistActive") => record.state = "preparing"
          /\ At(p, "MarkCommitAccepted") => record.state = "prepared"
          /\ At(p, "PersistCleanupPending") =>
                record.state = IF proc[p].out = "completed" THEN "commitAccepted"
                               ELSE "cancelling"
          /\ At(p, "PersistTerminal") /\ proc[p].out # "manualActionRequired" =>
                record.state = CleanupStateOf(proc[p].out)
      BY <1>6
         DEF Allows, At, PersistActiveAllows, MarkCommitAcceptedAllows,
             PersistCleanupPendingAllows, PersistTerminalAllows
    <2> HIDE DEF seen
    <2>5. record.state \in Cancelled => seen.state \in Cancelled
      BY <1>1, <1>2, <2>3, <2>4
         DEF Operations, At, CleanupStateOf, ProcessFits, Cancelled, RolledBack
    <2>6. /\ seen.state \in Completed => StaysNew
          /\ seen.state \in RolledBack => StaysOld
      <3>1. TargetFits
        BY DEF RegistryInv
      <3> QED
        BY <1>1, <1>2, <2>3, <2>4, <3>1
           DEF Operations, At, CleanupStateOf, ProcessFits, Completed, RolledBack, TargetFits,
               StoreFits
    <2>7. HoldsLock(p)
      BY <2>1, <2>2, LockStays
    <2>8. StoreStep(p)
      BY <1>2, <1>3, <2>1, <2>2, <2>5, <2>7 DEF StoreStep, HoldsLock, Others, Operations
    <2>9. StoreFits(p)'
      BY <1>1, <1>2, <1>3, <1>4, <2>1, <2>6, <2>7, <2>8, OwnerBack, NewStays, OldStays
         DEF StoreFits, HoldsLock, Operations
    <2> QED BY <2>8, <2>9, StoreKept
  <1>7. CASE Throw(p)
    BY <1>2, <1>3, <1>7, ThrowStore
  <1> QED BY <1>5, <1>6, <1>7 DEF LoadIndex

(* Nothing is compared: the record becomes what was computed from what was *)
(* loaded, whatever is there now.                                          *)
LEMMA WriteStore ==
    ASSUME UpdateInv, RegistryInv, Registry, NEW p \in Processes, WriteIndex(p)
    PROVE  RegistryInv'
  <1>1. TypeOK /\ ProcessFits(p) /\ StoreFits(p)
    BY TypesHere DEF RegistryInv
  <1>2. /\ proc[p].pc \in Operations /\ proc[p].seen # NoRecord
        /\ kind' = kind /\ target' = target
    BY DEF WriteIndex, fixed
  <1>3. proc[p].pc \notin {"idle", "waiting", "ended"}
    BY <1>2 DEF Operations
  <1>4. p = "host" => proc["owner"].pc = "ended"
    BY <1>1, <1>3 DEF StoreFits
  <1>5. CASE /\ record' = proc[p].seen /\ UNCHANGED effects
             /\ proc' = [proc EXCEPT ![p].pc = After(p), ![p].seen = NoRecord]
    <2>1. /\ Others(p) /\ proc'[p].pc = After(p) /\ proc'[p].seen = NoRecord
          /\ proc'[p].base = proc[p].base /\ proc'[p].out = proc[p].out
      <3>1. /\ proc' = [proc EXCEPT ![p] = [proc[p] EXCEPT !.pc = After(p), !.seen = NoRecord]]
            /\ proc[p] \in ProcType
        BY <1>1, <1>5 DEF TypeOK, ProcType
      <3> QED BY <1>1, <3>1 DEF TypeOK, Others, ProcType
    <2>2. lock' = lock /\ journal' = journal
      BY <1>5 DEF effects
    <2>3. /\ record'.state # "none"
          /\ At(p, "MarkCancelling") => record'.state = "cancelling"
          /\ At(p, "MarkCommitAccepted") => record'.state = "commitAccepted"
      BY <1>1, <1>2, <1>5 DEF ProcessFits, At
    <2>4. HoldsLock(p)
      BY <1>2, <2>1, <2>2, AfterStore, LockStays
    <2>5. StoreStep(p)
      BY <1>2, <1>3, <1>5, <2>1, <2>2, <2>3, <2>4, AfterStore, RecordFacts
         DEF StoreStep, HoldsLock, Others, Early
    <2>6. StoreFits(p)'
      BY <1>1, <1>2, <1>3, <1>4, <2>1, <2>3, <2>4, <2>5, AfterStore, OwnerBack, OldStays,
         RecordFacts
         DEF StoreFits, HoldsLock, At, Completed, RolledBack, Cancelled, Early, Unjournaled,
             Unregistered
    <2> QED BY <2>5, <2>6, StoreKept
  <1>6. CASE Throw(p) /\ UNCHANGED record
    BY <1>2, <1>3, <1>6, ThrowStore
  <1> QED BY <1>5, <1>6 DEF WriteIndex

-----------------------------------------------------------------------------
(* The steps of the relaunch, and the end of a process.                    *)

LEMMA ClaimStore ==
    ASSUME UpdateInv, RegistryInv, Registry, NEW p \in Processes,
           ClaimResolver(p) \/ ConsumeResolverClaim(p)
    PROVE  RegistryInv'
  <1>1. /\ proc[p].pc \in {"claiming", "consuming"}
        /\ UNCHANGED <<kind, record, target>>
    BY DEF ClaimResolver, ConsumeResolverClaim, At, fixed
  <1>2. CASE Throw(p)
    BY <1>1, <1>2, ThrowStore
  <1>3. ASSUME NEW pc \in {"consuming", "MarkRelaunchAttempting", "answering"},
               Goto(p, pc) \/ \E out : Continue(p, pc, out), lock' = lock, journal' = journal
        PROVE  RegistryInv'
    <2>1. /\ Others(p) /\ proc'[p].pc = pc /\ proc'[p].seen = proc[p].seen
          /\ proc'[p].base = proc[p].base
      BY <1>3, TypesHere, GotoGoes, ContinueGoes
    <2>2. HoldsLock(p)
      BY <1>1, <1>3, <2>1, LockStays DEF Holding
    <2>3. Quiet(p)
      BY <1>1, <1>3, <2>1 DEF Quiet
    <2> QED
      BY <1>1, <2>1, <2>2, <2>3, LateQuiet DEF Undecided, Early, Unjournaled, Unregistered
  <1>4. \/ Throw(p)
        \/ /\ \E pc \in {"consuming", "MarkRelaunchAttempting", "answering"} :
                 Goto(p, pc) \/ \E out : Continue(p, pc, out)
           /\ lock' = lock /\ journal' = journal
    <2>1. CASE ClaimResolver(p)
      BY <2>1 DEF ClaimResolver, effects
    <2>2. CASE ConsumeResolverClaim(p)
      BY <2>2 DEF ConsumeResolverClaim, effects
    <2> QED BY <2>1, <2>2
  <1> QED BY <1>2, <1>3, <1>4

LEMMA SettledStore ==
    ASSUME UpdateInv, RegistryInv, Registry, NEW p \in Processes, Settled(p)
    PROVE  RegistryInv'
  <1>1. /\ proc[p].pc = "settled"
        /\ UNCHANGED <<kind, record, target, journal, lock>>
    BY DEF Settled, At, fixed, index, tree
  <1>2. \E pc \in {"claiming", "answering", "disarming", "ended"} :
           /\ p # "owner" => pc # "ended"
           /\ Goto(p, pc) \/ \E out : Continue(p, pc, out)
    BY DEF Settled, OwnerContinues
  <1>3. PICK pc \in {"claiming", "answering", "disarming", "ended"} :
           /\ p # "owner" => pc # "ended"
           /\ Goto(p, pc) \/ \E out : Continue(p, pc, out)
    BY <1>2
  <1>4. /\ Others(p) /\ proc'[p].pc = pc /\ proc'[p].seen = proc[p].seen
        /\ proc'[p].base = proc[p].base
    BY <1>3, TypesHere, GotoGoes, ContinueGoes
  <1>5. HoldsLock(p)
    BY <1>1, <1>4, LockStays DEF Holding
  <1>6. Quiet(p)
    BY <1>1, <1>4 DEF Quiet
  <1> QED
    BY <1>1, <1>3, <1>4, <1>5, <1>6, LateQuiet DEF Undecided, Early, Unjournaled, Unregistered

LEMMA LaunchStore ==
    ASSUME UpdateInv, RegistryInv, Registry, NEW p \in Processes, Launch(p)
    PROVE  RegistryInv'
  <1>1. /\ proc[p].pc = "launching"
        /\ UNCHANGED <<kind, record, target, journal, lock>>
    BY DEF Launch, At, fixed, index, tree
  <1>2. PICK then \in {"launched", "launchFailed"} :
           proc' = [proc EXCEPT ![p].pc = "PersistRelaunchOutcome", ![p].then = then]
    BY DEF Launch
  <1>3. /\ Others(p) /\ proc'[p].pc = "PersistRelaunchOutcome"
        /\ proc'[p].seen = proc[p].seen /\ proc'[p].base = proc[p].base
    <2>1. /\ proc' = [proc EXCEPT ![p] = [proc[p] EXCEPT !.pc = "PersistRelaunchOutcome",
                                                         !.then = then]]
          /\ proc[p] \in ProcType
      BY <1>2, TypesHere DEF TypeOK, ProcType
    <2> QED BY <2>1, TypesHere DEF TypeOK, Others, ProcType
  <1>4. HoldsLock(p)
    BY <1>1, <1>3, LockStays DEF Holding
  <1>5. Quiet(p)
    BY <1>1, <1>3 DEF Quiet
  <1> QED
    BY <1>1, <1>3, <1>4, <1>5, LateQuiet DEF Undecided, Early, Unjournaled, Unregistered

LEMMA RelaunchedStore ==
    ASSUME UpdateInv, RegistryInv, Registry, NEW p \in Processes, Relaunched(p)
    PROVE  RegistryInv'
  <1>1. /\ proc[p].pc = "relaunched"
        /\ UNCHANGED <<kind, record, target, journal, lock>>
    BY DEF Relaunched, At, fixed, index, tree
  <1>2. PICK pc \in {"ended", "disarming", "answering"} :
           /\ p # "owner" => pc # "ended"
           /\ Goto(p, pc) \/ \E out : Continue(p, pc, out)
    BY DEF Relaunched
  <1>3. /\ Others(p) /\ proc'[p].pc = pc /\ proc'[p].seen = proc[p].seen
        /\ proc'[p].base = proc[p].base
    BY <1>2, TypesHere, GotoGoes, ContinueGoes
  <1>4. HoldsLock(p)
    BY <1>1, <1>3, LockStays DEF Holding
  <1>5. Quiet(p)
    BY <1>1, <1>3 DEF Quiet
  <1> QED
    BY <1>1, <1>2, <1>3, <1>4, <1>5, LateQuiet DEF Undecided, Early, Unjournaled, Unregistered

LEMMA ReleaseStore ==
    ASSUME UpdateInv, RegistryInv, Registry, NEW p \in Processes, ReleaseOwnership(p)
    PROVE  RegistryInv'
  <1>1. /\ proc[p].pc = "releasing" /\ UNCHANGED <<kind, record, target>>
        /\ IF Directory THEN lock' = Unlocked /\ journal' = journal
           ELSE journal' = "none" /\ lock' = lock
    BY DEF ReleaseOwnership, At, fixed, index
  <1>2. /\ Others(p) /\ proc'[p].pc = "PersistTerminal" /\ proc'[p].seen = proc[p].seen
        /\ proc'[p].base = proc[p].base
    BY TypesHere, GotoGoes DEF ReleaseOwnership
  <1>3. HoldsLock(p)
    <2>1. Directory => lock.holder = p
      BY <1>1 DEF RegistryInv, StoreFits, Holding
    <2>2. CASE Directory
      BY <1>1, <1>2, <2>1, <2>2, TypesHere, LockLeft DEF Holding
    <2>3. CASE ~Directory
      BY <2>3 DEF HoldsLock
    <2> QED BY <2>2, <2>3
  <1>4. Quiet(p)
    BY <1>1, <1>2 DEF Quiet
  <1> QED
    BY <1>1, <1>2, <1>3, <1>4, LateQuiet DEF Undecided, Early, Unjournaled, Unregistered

-----------------------------------------------------------------------------
(* The swap and its undoing.                                               *)

LEMMA SwapTreeStore ==
    ASSUME UpdateInv, RegistryInv, Registry, NEW p \in Processes, SwapTree(p)
    PROVE  RegistryInv'
  <1>1. TypeOK /\ StoreFits(p) /\ proc[p].seen = NoRecord
    BY TypesHere, NothingSeen DEF RegistryInv, SwapTree, At, Operations
  <1>2. /\ proc[p].pc = "swapping" /\ journal # "none"
        /\ UNCHANGED <<kind, record, lock>>
    BY DEF SwapTree, At, fixed, index
  <1>3. Directory /\ (p = "host" => proc["owner"].pc = "ended")
    BY <1>1, <1>2 DEF StoreFits
  <1>4. CASE target # "new" /\ proc' = proc
    <2>1. HoldsLock(p)
      BY <1>2, <1>4, LockStays
    <2>2. StoreStep(p)
      BY <1>2, <1>3, <1>4, <2>1 DEF StoreStep, HoldsLock, Unjournaled, Unregistered, Early
    <2>3. StoreFits(p)'
      BY <1>1, <1>2, <1>3, <1>4, <2>1, <2>2, OwnerBack, RecordFacts
         DEF StoreFits, HoldsLock, Completed, RolledBack
    <2> QED BY <2>2, <2>3, StoreKept
  <1>5. CASE /\ target = "new" /\ target' = target /\ journal' = "none"
             /\ Continue(p, "PersistCleanupPending", "completed")
    <2>1. /\ Others(p) /\ proc'[p].pc = "PersistCleanupPending" /\ proc'[p].seen = NoRecord
          /\ proc'[p].base = proc[p].base /\ proc'[p].out = "completed"
      BY <1>1, <1>5, ContinueGoes
    <2>2. HoldsLock(p)
      BY <1>2, <2>1, LockStays DEF Holding
    <2>3. StoreStep(p)
      BY <1>2, <1>3, <1>5, <2>1, <2>2, RecordFacts
         DEF StoreStep, HoldsLock, Others, Unjournaled, Unregistered, Early, Undecided
    <2>4. StaysNew'
      BY <1>3, <1>5, <2>3, OwnerBack DEF StaysNew, Decided
    <2>5. StoreFits(p)'
      BY <1>1, <1>2, <1>3, <2>1, <2>2, <2>3, <2>4, OwnerBack, RecordFacts
         DEF StoreFits, HoldsLock, RolledBack
    <2> QED BY <2>3, <2>5, StoreKept
  <1>6. CASE target = "new"
    BY <1>5, <1>6 DEF SwapTree
  <1>7. CASE target # "new"
    BY <1>4, <1>7 DEF SwapTree
  <1> QED BY <1>6, <1>7

(* Before the owner has its journal nobody else can be rolling one back.   *)
LEMMA RollBackTreeStore ==
    ASSUME UpdateInv, RegistryInv, Registry, NEW p \in Processes, RollBackTree(p)
    PROVE  RegistryInv'
  <1>1. TypeOK /\ StoreFits(p) /\ proc[p].seen = NoRecord
    BY TypesHere, NothingSeen DEF RegistryInv, RollBackTree, At, Operations
  <1>2. proc[p].pc = "rollingBack" /\ UNCHANGED <<kind, record, target>>
    BY DEF RollBackTree, At, fixed
  <1>3. Directory /\ (p = "host" => proc["owner"].pc = "ended")
    BY <1>1, <1>2 DEF StoreFits
  <1>4. CASE Throw(p)
    BY <1>2, <1>4, ThrowStore
  <1>5. CASE /\ journal = "prepared" /\ target = "old" /\ journal' = "none" /\ lock' = lock
             /\ Continue(p, "PersistCleanupPending", "rolledBack")
    <2>1. /\ Others(p) /\ proc'[p].pc = "PersistCleanupPending" /\ proc'[p].seen = NoRecord
          /\ proc'[p].base = proc[p].base /\ proc'[p].out = "rolledBack"
      BY <1>1, <1>5, ContinueGoes
    <2>2. HoldsLock(p)
      BY <1>2, <1>5, <2>1, LockStays DEF Holding
    <2>3. StoreStep(p)
      BY <1>2, <1>3, <1>5, <2>1, <2>2, RecordFacts
         DEF StoreStep, HoldsLock, Others, Unjournaled, Unregistered, Early, Undecided
    <2>4. proc["owner"].pc \notin Early
      <3>1. proc["owner"].pc \notin Unjournaled
        BY <1>3, <1>5 DEF RegistryInv, TargetFits
      <3>2. lock.holder = p /\ (proc["owner"].pc = "staging" => lock.holder = "owner")
        BY <1>2, <1>3, NamesDiffer DEF RegistryInv, StoreFits, Holding
      <3> QED BY <1>2, <3>1, <3>2 DEF Early
    <2>5. StaysOld'
      BY <1>2, <1>3, <1>5, <2>3, <2>4, OwnerBack DEF StaysOld, Decided
    <2>6. StoreFits(p)'
      BY <1>1, <1>2, <1>3, <2>1, <2>2, <2>3, <2>5, OwnerBack, RecordFacts
         DEF StoreFits, HoldsLock, Completed
    <2> QED BY <2>3, <2>6, StoreKept
  <1> QED BY <1>4, <1>5 DEF RollBackTree

-----------------------------------------------------------------------------
(* Recovery.                                                               *)

LEMMA OwnerGone ==
    ASSUME UpdateInv, record.state # "none", ~Alive("owner")
    PROVE  proc["owner"].pc = "ended"
  BY DEF UpdateInv, ServiceInv, ReachFits, Unregistered, Alive

LEMMA OwnerActiveStore ==
    ASSUME UpdateInv, RegistryInv, Registry, NEW p \in Processes,
           proc[p].pc \in {"recovering", "locking"}, p # "owner", OwnerActive(p),
           UNCHANGED <<kind, record, target, journal>>
    PROVE  RegistryInv'
  <1>1. PICK pc \in {"answering", "recovering"} : Continue(p, pc, "recoveryRequired")
    BY DEF OwnerActive, Continue
  <1>2. /\ Others(p) /\ proc'[p].pc = pc /\ proc'[p].seen = proc[p].seen
        /\ proc'[p].base = proc[p].base
    BY <1>1, TypesHere, ContinueGoes
  <1>3. HoldsLock(p)
    BY <1>2, LockStays DEF OwnerActive, Holding
  <1>4. Quiet(p)
    BY <1>2 DEF Quiet
  <1> QED BY <1>2, <1>3, <1>4, LateQuiet

(* Steps that leave the record and the target as they are.                 *)
LEMMA PlainRecoveryStore ==
    ASSUME UpdateInv, RegistryInv, Registry, NEW p \in Processes,
           \/ RecoverTerminal(p) \/ RecoverManual(p) \/ RecoverCleanupPending(p)
           \/ LoadForRecovery(p)
    PROVE  RegistryInv'
  <1>1. /\ proc[p].pc = "recovering" /\ UNCHANGED <<kind, record, target>>
        /\ p # "owner" /\ proc[p].seen = NoRecord
    BY Recovering
       DEF RecoverTerminal, RecoverManual, RecoverCleanupPending, LoadForRecovery, At, fixed,
           index, tree
  <1>2. (Directory => lock.holder # p) /\ TypeOK
    BY <1>1, TypesHere DEF RegistryInv, StoreFits, Holding
  <1>3. ASSUME Others(p), proc'[p].seen = NoRecord,
               proc'[p].base \in {proc[p].base, record.state},
               proc'[p].pc \in {"settled", "answering", "PersistTerminal", "lookingUp"},
               Directory => journal' \in {journal, "none"},
               lock' = lock \/ (lock.holder \in {p, "none"} /\ lock' = Unlocked)
        PROVE  RegistryInv'
    <2>1. HoldsLock(p)
      BY <1>1, <1>2, <1>3, LockStays, LockLeft DEF Holding
    <2>2. Quiet(p)
      BY <1>1, <1>3 DEF Quiet
    <2> QED BY <1>1, <1>3, <2>1, <2>2, LateQuiet
  <1>4. CASE RecoverTerminal(p)
    BY <1>1, <1>2, <1>3, <1>4, ContinueGoes DEF RecoverTerminal
  <1>5. CASE RecoverManual(p)
    BY <1>1, <1>2, <1>3, <1>5, ContinueGoes DEF RecoverManual, tree
  <1>6. CASE RecoverCleanupPending(p)
    <2>1. CASE OwnerActive(p) /\ UNCHANGED journal
      BY <1>1, <2>1, OwnerActiveStore
    <2>2. CASE Continue(p, "answering", "manualActionRequired") /\ UNCHANGED <<journal, lock>>
      BY <1>1, <1>2, <1>3, <2>2, ContinueGoes
    <2>3. CASE /\ ~(OwnerActive(p) /\ UNCHANGED journal)
               /\ ~(/\ Continue(p, "answering", "manualActionRequired")
                    /\ UNCHANGED <<journal, lock>>)
      <3> DEFINE out == VerifiedOutcome(record.state)
      <3>1. proc' = [proc EXCEPT ![p] = [proc[p] EXCEPT !.pc = "PersistTerminal", !.out = out,
                                                        !.base = record.state]]
        BY <1>2, <1>6, <2>3 DEF RecoverCleanupPending, TypeOK
      <3>2. /\ Others(p) /\ proc'[p].pc = "PersistTerminal" /\ proc'[p].seen = NoRecord
            /\ proc'[p].base = record.state
        <4>1. proc[p] \in ProcType
          BY <1>2 DEF TypeOK, ProcType
        <4> HIDE DEF out
        <4> QED BY <1>1, <1>2, <3>1, <4>1 DEF TypeOK, Others, ProcType
      <3>3. \/ Directory /\ ~HeldElsewhere(p) /\ lock' = Unlocked /\ journal' = journal
            \/ ~Directory /\ lock' = lock
        BY <1>6, <2>3 DEF RecoverCleanupPending
      <3> QED BY <1>3, <3>2, <3>3 DEF HeldElsewhere
    <2> QED BY <2>1, <2>2, <2>3
  <1>7. CASE LoadForRecovery(p)
    <2>1. /\ proc' = [proc EXCEPT ![p] = [proc[p] EXCEPT !.pc = "lookingUp",
                                                         !.base = record.state]]
          /\ proc[p] \in ProcType
      BY <1>2, <1>7 DEF LoadForRecovery, TypeOK, ProcType
    <2>2. /\ Others(p) /\ proc'[p].pc = "lookingUp" /\ proc'[p].seen = NoRecord
          /\ proc'[p].base = record.state
      BY <1>1, <1>2, <2>1 DEF TypeOK, Others, ProcType
    <2> QED BY <1>3, <1>7, <2>2 DEF LoadForRecovery, tree
  <1> QED BY <1>4, <1>5, <1>6, <1>7

LEMMA LoadCurrentJournalStore ==
    ASSUME UpdateInv, RegistryInv, Registry, NEW p \in Processes, LoadCurrentJournal(p)
    PROVE  RegistryInv'
  <1>1. /\ proc[p].pc = "lookingUp" /\ UNCHANGED <<kind, record, target, journal, lock>>
        /\ p # "owner" /\ TypeOK /\ proc[p] \in ProcType
    BY LookingUp, TypesHere
       DEF LoadCurrentJournal, At, fixed, index, tree, TypeOK, ProcType
  <1>2. PICK pc \in {"answering", "locking"} :
           /\ Others(p) /\ proc'[p].pc = pc /\ proc'[p].seen = proc[p].seen
           /\ proc'[p].base = proc[p].base
    <2>1. CASE Continue(p, "answering", "manualActionRequired")
      BY <1>1, <2>1, ContinueGoes
    <2>2. ASSUME NEW then, proc' = [proc EXCEPT ![p].pc = "locking", ![p].then = then]
          PROVE  /\ Others(p) /\ proc'[p].pc = "locking" /\ proc'[p].seen = proc[p].seen
                 /\ proc'[p].base = proc[p].base
      BY <1>1, <2>2 DEF TypeOK, Others, ProcType
    <2> QED BY <2>1, <2>2 DEF LoadCurrentJournal
  <1>3. HoldsLock(p)
    BY <1>1, <1>2, LockStays DEF Holding
  <1>4. Quiet(p)
    BY <1>1, <1>2 DEF Quiet
  <1> QED BY <1>1, <1>2, <1>3, <1>4, LateQuiet

(* The owner of an Inno transaction has ended, so what is observed stays.  *)
LEMMA RecoverInnoStore ==
    ASSUME UpdateInv, RegistryInv, Registry, NEW p \in Processes, RecoverInno(p)
    PROVE  RegistryInv'
  <1>1. /\ proc[p].pc = "recovering" /\ ~Directory /\ record.state # "none"
        /\ UNCHANGED <<kind, record, target, journal>>
        /\ p # "owner" /\ proc[p].seen = NoRecord
    BY Recovering DEF RecoverInno, At, fixed, index, ActiveStates
  <1>2. TypeOK /\ StoreFits(p)
    BY TypesHere DEF RegistryInv
  <1>3. CASE OwnerActive(p)
    BY <1>1, <1>3, OwnerActiveStore
  <1>4. CASE ~OwnerActive(p)
    <2> DEFINE out == DecideInnoRecovery(record.state)
               pc == CASE out = "completed" -> "PersistCleanupPending"
                       [] out = "rolledBack" -> "MarkCancelling"
                       [] OTHER -> "PersistTerminal"
    <2>1. /\ ~Alive("owner") /\ lock' = lock
          /\ proc' = [proc EXCEPT ![p] = [proc[p] EXCEPT !.base = record.state, !.out = out,
                         !.then = "PersistCleanupPending", !.pc = pc]]
      BY <1>2, <1>4 DEF RecoverInno, TypeOK
    <2>2. /\ Others(p) /\ proc'[p].pc = pc /\ proc'[p].seen = NoRecord
          /\ proc'[p].base = record.state /\ proc'[p].out = out
      <3>1. proc[p] \in ProcType
        BY <1>2 DEF TypeOK, ProcType
      <3> HIDE DEF out, pc
      <3> QED BY <1>1, <1>2, <2>1, <3>1 DEF TypeOK, Others, ProcType
    <2>3. /\ pc \in {"PersistCleanupPending", "MarkCancelling", "PersistTerminal"}
          /\ pc = "PersistCleanupPending" => out = "completed" /\ target = "new"
          /\ pc = "MarkCancelling" => target = "old"
      BY DEF DecideInnoRecovery
    <2> HIDE DEF out, pc
    <2>4. proc["owner"].pc = "ended" /\ proc'["owner"].pc = "ended"
      BY <1>1, <2>1, <2>2, OwnerGone, NamesDiffer DEF Others
    <2>5. StoreStep(p)
      BY <1>1, <2>1, <2>2, <2>3, RecordFacts DEF StoreStep, Others, Directory
    <2>6. /\ pc = "PersistCleanupPending" => StaysNew'
          /\ pc = "MarkCancelling" => StaysOld'
      BY <1>1, <2>3, <2>4, <2>5, OwnerBack
         DEF StaysNew, StaysOld, Decided, Undecided, Early, Unjournaled, Unregistered
    <2>7. StoreFits(p)'
      BY <1>1, <2>2, <2>3, <2>4, <2>5, <2>6, OwnerBack, RecordFacts
         DEF StoreFits, Completed, RolledBack
    <2> QED BY <2>5, <2>7, StoreKept
  <1> QED BY <1>3, <1>4

LEMMA RecoverWithJournalStore ==
    ASSUME UpdateInv, RegistryInv, Registry, NEW p \in Processes,
           RecoverWithJournal(p) \/ RecoverWithoutJournal(p)
    PROVE  RegistryInv'
  <1>1. /\ proc[p].pc = "locking" /\ p # "owner" /\ Directory
        /\ UNCHANGED <<kind, record, target, journal>> /\ proc[p].seen = NoRecord
    <2>1. proc[p].pc = "locking" /\ p # "owner"
      BY DEF RecoverWithJournal, RecoverWithoutJournal, At
    <2> QED BY <2>1, LockingFacts DEF RecoverWithJournal, RecoverWithoutJournal, fixed, index
  <1>2. /\ TypeOK /\ StoreFits(p) /\ lock.holder # p
        /\ p = "host" => proc["owner"].pc = "ended"
    BY <1>1, TypesHere DEF RegistryInv, StoreFits, Holding
  <1>3. CASE OwnerActive(p)
    BY <1>1, <1>3, OwnerActiveStore
  <1>4. CASE Continue(p, "answering", "manualActionRequired") /\ lock' = lock
    <2>1. /\ Others(p) /\ proc'[p].pc = "answering" /\ proc'[p].seen = NoRecord
          /\ proc'[p].base = proc[p].base
      BY <1>1, <1>2, <1>4, ContinueGoes
    <2>2. HoldsLock(p)
      BY <1>1, <1>4, <2>1, LockStays DEF Holding
    <2>3. Quiet(p)
      BY <1>1, <2>1 DEF Quiet
    <2> QED BY <1>1, <2>1, <2>2, <2>3, LateQuiet
  <1>5. ASSUME lock.holder = "none", lock' = [file |-> TRUE, holder |-> p],
               NEW pc \in {"swapping", "inspecting", "MarkCancelling"},
               Others(p), proc'[p].pc = pc, proc'[p].seen = NoRecord,
               proc'[p].base = proc[p].base,
               pc # "MarkCancelling" => proc[p].base = "commitAccepted"
        PROVE  RegistryInv'
    <2>1. HoldsLock(p)
      BY <1>5, NamesDiffer DEF HoldsLock, Holding
    <2>2. StoreStep(p)
      BY <1>1, <1>5, <2>1, RecordFacts DEF StoreStep, HoldsLock, Others
    <2>3. StoreFits(p)'
      BY <1>1, <1>2, <1>5, <2>1, <2>2, OwnerBack, RecordFacts
         DEF StoreFits, HoldsLock, Completed, RolledBack
    <2> QED BY <2>2, <2>3, StoreKept
  <1>6. proc[p] \in ProcType
    BY <1>2 DEF TypeOK, ProcType
  <1>7. CASE RecoverWithJournal(p)
    <2>1. CASE /\ lock = [file |-> TRUE, holder |-> "none"]
               /\ lock' = [lock EXCEPT !.holder = p]
               /\ Goto(p, IF RecoveryIntent(p) = "swapping" THEN "swapping"
                          ELSE "MarkCancelling")
      <3> DEFINE pc == IF RecoveryIntent(p) = "swapping" THEN "swapping" ELSE "MarkCancelling"
      <3>1. proc' = [proc EXCEPT ![p] = [proc[p] EXCEPT !.pc = pc]]
        BY <1>2, <2>1 DEF TypeOK, Goto
      <3>2. /\ pc \in {"swapping", "MarkCancelling"}
            /\ pc # "MarkCancelling" => proc[p].base = "commitAccepted"
        BY DEF RecoveryIntent
      <3> HIDE DEF pc
      <3>3. /\ Others(p) /\ proc'[p].pc = pc /\ proc'[p].seen = NoRecord
            /\ proc'[p].base = proc[p].base
        BY <1>1, <1>2, <1>6, <3>1 DEF TypeOK, Others, ProcType
      <3>4. lock.holder = "none" /\ lock' = [file |-> TRUE, holder |-> p]
        BY <2>1
      <3> QED BY <1>5, <3>2, <3>3, <3>4
    <2>2. CASE /\ ~HeldElsewhere(p) /\ lock' = Unlocked
               /\ proc' = [proc EXCEPT ![p].then = "inspecting"]
      <3>1. /\ Others(p) /\ proc'[p].pc = "locking" /\ proc'[p].seen = NoRecord
            /\ proc'[p].base = proc[p].base
        BY <1>1, <1>2, <1>6, <2>2 DEF TypeOK, Others, ProcType
      <3>2. lock.holder \in {p, "none"}
        BY <2>2 DEF HeldElsewhere
      <3>3. HoldsLock(p)
        BY <1>2, <2>2, <3>1, <3>2, LockLeft DEF Holding
      <3>4. Quiet(p)
        BY <1>1, <3>1 DEF Quiet
      <3> QED BY <1>1, <3>1, <3>3, <3>4, LateQuiet
    <2> QED BY <1>3, <1>4, <1>7, <2>1, <2>2 DEF RecoverWithJournal
  <1>8. CASE RecoverWithoutJournal(p)
    <2>1. CASE /\ lock.holder = "none" /\ lock' = [file |-> TRUE, holder |-> p]
               /\ proc' = [proc EXCEPT ![p].created = ~lock.file,
                     ![p].pc = IF proc[p].base = "commitAccepted" THEN "inspecting"
                               ELSE "MarkCancelling"]
      <3> DEFINE pc == IF proc[p].base = "commitAccepted" THEN "inspecting"
                       ELSE "MarkCancelling"
      <3>1. proc' = [proc EXCEPT ![p] = [proc[p] EXCEPT !.created = ~lock.file,
                                            !.pc = pc]]
        BY <1>2, <2>1 DEF TypeOK
      <3>2. /\ pc \in {"inspecting", "MarkCancelling"}
            /\ pc # "MarkCancelling" => proc[p].base = "commitAccepted"
        OBVIOUS
      <3> HIDE DEF pc
      <3>3. /\ Others(p) /\ proc'[p].pc = pc /\ proc'[p].seen = NoRecord
            /\ proc'[p].base = proc[p].base
        BY <1>1, <1>2, <1>6, <3>1 DEF TypeOK, Others, ProcType
      <3> QED BY <1>5, <2>1, <3>2, <3>3
    <2> QED BY <1>3, <1>8, <2>1 DEF RecoverWithoutJournal
  <1> QED BY <1>7, <1>8

(* An outcome without a journal is recorded only when nobody can change it *)
(* any more: this is where a second resolver at work would be one too      *)
(* many.                                                                   *)
LEMMA InspectStore ==
    ASSUME UpdateInv, RegistryInv, Registry, NEW p \in Processes, InspectTopology(p)
    PROVE  RegistryInv'
  <1>1. /\ proc[p].pc = "inspecting" /\ UNCHANGED <<kind, record, target, journal>>
        /\ TypeOK /\ StoreFits(p) /\ proc[p].seen = NoRecord
    BY TypesHere, NothingSeen
       DEF InspectTopology, At, fixed, index, RegistryInv, Operations
  <1>2. /\ Directory /\ lock.holder = p
        /\ p = "host" => proc["owner"].pc = "ended"
    BY <1>1 DEF StoreFits, Holding
  <1>3. p # "owner"
    BY <1>1, TypesHere, NamesDiffer
       DEF ProcessFits, OwnerPcs, Shared, Early, Unjournaled, Unregistered, Done
  <1>4. CASE /\ FinalTopology # PromisedOutcome(p)
             /\ lock' = IF proc[p].created THEN Unlocked ELSE Released(p)
             /\ Continue(p, "answering", "manualActionRequired")
    <2>1. /\ Others(p) /\ proc'[p].pc = "answering" /\ proc'[p].seen = proc[p].seen
          /\ proc'[p].base = proc[p].base
      BY <1>1, <1>4, ContinueGoes
    <2>2. HoldsLock(p)
      BY <1>1, <1>2, <1>4, <2>1, LockLeft DEF Holding
    <2>3. Quiet(p)
      BY <1>1, <2>1 DEF Quiet
    <2> QED BY <1>1, <1>3, <2>1, <2>2, <2>3, LateQuiet
  <1>5. CASE /\ FinalTopology = PromisedOutcome(p) /\ lock' = lock
             /\ Continue(p, "PersistCleanupPending", PromisedOutcome(p))
    <2> DEFINE out == PromisedOutcome(p)
    <2>1. /\ Others(p) /\ proc'[p].pc = "PersistCleanupPending" /\ proc'[p].seen = NoRecord
          /\ proc'[p].base = proc[p].base /\ proc'[p].out = out
      BY <1>1, <1>5, ContinueGoes
    <2>2. /\ out = IF proc[p].base = "commitAccepted" THEN "completed" ELSE "rolledBack"
          /\ journal = "none" /\ target = IF out = "completed" THEN "new" ELSE "old"
      BY <1>5 DEF PromisedOutcome, FinalTopology
    <2> HIDE DEF out
    <2>3. HoldsLock(p)
      BY <1>1, <1>5, <2>1, LockStays DEF Holding
    <2>4. StoreStep(p)
      BY <1>1, <1>2, <1>3, <2>1, <2>3, RecordFacts DEF StoreStep, HoldsLock, Others
    <2>5. out = "completed" => StaysNew'
      BY <1>1, <1>2, <2>2, <2>4, OwnerBack DEF StaysNew, Decided
    <2>6. ASSUME out = "rolledBack", proc["owner"].pc \in Early PROVE CommitIsOff
      <3>1. record.state \in Cancelled /\ proc[p].base # "commitAccepted"
        BY <1>1, <2>2, <2>6 DEF StoreFits
      <3>2. /\ proc["owner"].pc \notin {"committed", "ended", "swapping"} \cup Operations
            /\ proc["owner"].seen = NoRecord
        BY <2>6, NothingSeen, NamesDiffer DEF Early, Unjournaled, Unregistered, Operations
      <3>3. /\ proc["host"].pc \in {"idle", "waiting"} /\ proc["host"].base = "none"
            /\ proc["host"].seen = NoRecord
        <4>1. StoreFits("host")
          BY NamesDiffer DEF RegistryInv
        <4>2. proc["host"].pc \in {"idle", "waiting"} /\ proc["host"].base = "none"
          BY <3>2, <4>1 DEF StoreFits
        <4> QED BY <4>2, NothingSeen, NamesDiffer DEF Operations
      <3>4. p \in Resolvers /\ kind = "protected" /\ Alive(p)
        BY <1>1, <1>2, <1>3, <3>2
           DEF Registry, Processes, Directory, TypeOK, Kinds, Alive
      <3>5. ASSUME NEW r \in Resolvers, r # p
            PROVE  /\ proc[r].pc \in {"idle", "ended"} /\ proc[r].base = "none"
                   /\ proc[r].seen = NoRecord
        <4>1. proc[r].pc \in {"idle", "ended"}
          BY <2>6, <3>4, <3>5 DEF Registry, ResolvesAlone, Alive
        <4>2. r \in Processes /\ r # "owner" /\ StoreFits(r)
          BY NamesDiffer DEF RegistryInv
        <4> QED BY <4>1, <4>2, NothingSeen DEF StoreFits, Operations
      <3> QED
        BY <1>1, <1>3, <3>1, <3>2, <3>3, <3>5, RecordFacts DEF CommitIsOff, Processes
    <2>7. out = "rolledBack" => StaysOld
      BY <1>2, <2>2, <2>6 DEF StaysOld, Decided
    <2>8. out = "rolledBack" => StaysOld'
      BY <2>4, <2>7, OldStays
    <2>9. out \in {"completed", "rolledBack"}
      BY <2>2
    <2>10. StoreFits(p)'
      BY <1>1, <1>2, <1>3, <2>1, <2>3, <2>4, <2>5, <2>8, OwnerBack, RecordFacts
         DEF StoreFits, HoldsLock, Completed, RolledBack
    <2> QED BY <2>4, <2>10, StoreKept
  <1> QED BY <1>4, <1>5 DEF InspectTopology

-----------------------------------------------------------------------------
(* The host and the resolvers.                                             *)

LEMMA HostStore ==
    ASSUME UpdateInv, RegistryInv, Registry, HostStarts \/ ActorsExited \/ HostEnds
    PROVE  RegistryInv'
  <1>1. /\ UNCHANGED <<kind, record, target, journal, lock>> /\ "host" \in Processes
        /\ "host" # "owner" /\ TypeOK
    BY NamesDiffer, TypesHere
       DEF HostStarts, ActorsExited, HostEnds, fixed, index, tree
  <1>2. ASSUME NEW pc \in {"idle", "waiting"}, proc["host"].pc \notin Holding,
               proc' = [proc EXCEPT !["host"] = [Fresh EXCEPT !.pc = pc]]
        PROVE  RegistryInv'
    <2>1. /\ Others("host") /\ proc'["host"].pc = pc /\ proc'["host"].seen = NoRecord
          /\ proc'["host"].base = "none"
      BY <1>1, <1>2, FreshGoes
    <2>2. HoldsLock("host")
      BY <1>1, <1>2, <2>1, LockStays DEF Holding
    <2>3. Quiet("host") /\ KeepsOrder("host")
      BY <1>1, <2>1 DEF Quiet, KeepsOrder
    <2> QED BY <1>1, <2>2, <2>3, QuietKept
  <1>3. CASE HostStarts
    BY <1>2, <1>3 DEF HostStarts, At, Holding
  <1>4. CASE HostEnds
    <2>1. proc' = [proc EXCEPT !["host"] = [Fresh EXCEPT !.pc = "idle"]]
      BY <1>4 DEF HostEnds, Fresh
    <2> QED BY <1>2, <1>4, <2>1 DEF HostEnds, At, Holding
  <1>5. CASE ActorsExited
    <2>1. /\ proc["host"].pc = "waiting" /\ ~Alive("owner") /\ Goto("host", "recovering")
      BY <1>5 DEF ActorsExited, At
    <2>2. /\ Others("host") /\ proc'["host"].pc = "recovering"
          /\ proc'["host"].seen = proc["host"].seen /\ proc'["host"].base = proc["host"].base
      BY <1>1, <2>1, GotoGoes
    <2>3. record.state # "none"
      BY <1>1, <2>1, RecordThere DEF Unregistered
    <2>4. proc["owner"].pc = "ended"
      BY <2>1, <2>3, OwnerGone
    <2>5. HoldsLock("host")
      BY <1>1, <2>1, <2>2, LockStays DEF Holding
    <2>6. Quiet("host") /\ KeepsOrder("host")
      BY <1>1, <2>2, <2>4 DEF Quiet, KeepsOrder
    <2> QED BY <1>1, <2>5, <2>6, QuietKept
  <1> QED BY <1>3, <1>4, <1>5

LEMMA ResolverStore ==
    ASSUME UpdateInv, RegistryInv, Registry, NEW r \in Resolvers,
           BeginResolve(r) \/ Announce(r) \/ ResolverCallerExits(r) \/ ResolverEnds(r)
    PROVE  RegistryInv'
  <1>1. /\ UNCHANGED <<kind, record, target, journal, lock>> /\ r \in Processes
        /\ r # "owner" /\ r # "host" /\ TypeOK
        /\ proc[r].pc \in {"idle", "announcing", "acknowledged", "answering"}
    BY NamesDiffer, TypesHere
       DEF BeginResolve, Announce, ResolverCallerExits, ResolverEnds, fixed, index, tree, At
  <1>2. PICK pc \in {"MarkRelaunchPending", "announcing", "acknowledged", "answering",
                     "recovering", "ended"} :
           /\ Others(r) /\ proc'[r].pc = pc /\ proc'[r].seen \in {proc[r].seen, NoRecord}
           /\ proc'[r].base \in {proc[r].base, "none"}
           /\ pc = "ended" => proc'[r].base = "none"
    <2>1. CASE ResolverEnds(r)
      BY <1>1, <2>1, FreshGoes DEF ResolverEnds
    <2>2. CASE BeginResolve(r) \/ Announce(r) \/ ResolverCallerExits(r)
      <3>1. PICK pc \in {"MarkRelaunchPending", "announcing", "acknowledged", "answering",
                         "recovering"} : Goto(r, pc) \/ \E out : Continue(r, pc, out)
        BY <2>2 DEF BeginResolve, Announce, ResolverCallerExits
      <3> QED BY <1>1, <3>1, GotoGoes, ContinueGoes
    <2> QED BY <2>1, <2>2
  <1>3. HoldsLock(r)
    BY <1>1, <1>2, LockStays DEF Holding
  <1>4. Quiet(r) /\ KeepsOrder(r)
    BY <1>1, <1>2 DEF Quiet, KeepsOrder
  <1> QED BY <1>1, <1>3, <1>4, QuietKept

LEMMA NothingStore ==
    ASSUME RegistryInv, UNCHANGED <<kind, record, target, journal, lock, proc>>
    PROVE  RegistryInv'
  <1>1. Directory' = Directory
    BY DEF Directory
  <1>2. StaysNew' = StaysNew /\ StaysOld' = StaysOld
    BY <1>1 DEF StaysNew, StaysOld, Decided, CommitIsOff, Processes
  <1> QED BY <1>1, <1>2 DEF RegistryInv, TargetFits, StoreFits, Processes

-----------------------------------------------------------------------------
(* The owner.                                                              *)

LEMMA FirstStepsStore ==
    ASSUME UpdateInv, RegistryInv, Registry,
           \/ PrepareInstall \/ OpenSession \/ Authorize \/ RestagePayload
           \/ BindEndpoint \/ ArmAndStart \/ HostIsLate
    PROVE  RegistryInv'
  <1>1. /\ UNCHANGED <<kind, record, target>> /\ "owner" \in Processes /\ TypeOK
        /\ proc["owner"].pc \in Unjournaled
    BY NamesDiffer, TypesHere
       DEF PrepareInstall, OpenSession, Authorize, RestagePayload, BindEndpoint, ArmAndStart,
           HostIsLate, OwnerOnly, fixed, index, tree, At, Unjournaled, Unregistered
  <1>2. ASSUME NEW pc \in Unjournaled, OwnerEnds \/ Goto("owner", pc),
               lock' = lock, Directory => journal' = journal
        PROVE  RegistryInv'
    <2>1. /\ Others("owner") /\ proc'["owner"].pc \in {pc, "ended"}
          /\ proc'["owner"].seen \in {proc["owner"].seen, NoRecord}
      BY <1>1, <1>2, GotoGoes, FreshGoes DEF OwnerEnds
    <2> QED BY <1>1, <1>2, <2>1, OwnerQuiet
  <1>3. CASE PrepareInstall \/ OpenSession \/ Authorize \/ RestagePayload
    <2>1. /\ lock' = lock
          /\ Directory => journal' = journal
          /\ \E pc \in Unjournaled : OwnerEnds \/ Goto("owner", pc)
      BY <1>3
         DEF PrepareInstall, OpenSession, Authorize, RestagePayload, OwnerOnly, tree,
             Unjournaled, Unregistered
    <2> QED BY <1>2, <2>1
  <1>4. CASE BindEndpoint \/ ArmAndStart \/ HostIsLate
    <2>1. /\ proc["owner"].pc \notin {"idle", "ended", "waiting"}
          /\ \/ Throw("owner")
             \/ /\ lock' = lock /\ journal' = journal
                /\ \E pc \in Unjournaled : Goto("owner", pc)
      BY <1>4
         DEF BindEndpoint, ArmAndStart, HostIsLate, At, effects, Unjournaled, Unregistered
    <2> QED BY <1>1, <1>2, <2>1, ThrowStore
  <1> QED BY <1>3, <1>4

LEMMA ProvisionStore ==
    ASSUME UpdateInv, RegistryInv, Registry, ProvisionPortableWindowsRecoveryHost
    PROVE  RegistryInv'
  <1>1. /\ UNCHANGED <<kind, record, target, journal, lock>> /\ "owner" \in Processes
        /\ TypeOK /\ proc["owner"].pc = "provisioning"
    BY NamesDiffer, TypesHere
       DEF ProvisionPortableWindowsRecoveryHost, OwnerOnly, index, tree, At
  <1>2. /\ Others("owner") /\ proc'["owner"].pc \in {"provisioning", "authorizing"}
        /\ proc'["owner"].seen = proc["owner"].seen
    <2>1. proc["owner"] \in ProcType
      BY <1>1 DEF TypeOK, ProcType
    <2>2. CASE proc' = proc \/ Goto("owner", "authorizing")
      BY <1>1, <2>2, GotoGoes DEF Others
    <2>3. CASE proc' = [proc EXCEPT !["owner"].created = TRUE]
      <3>1. proc' = [proc EXCEPT !["owner"] = [proc["owner"] EXCEPT !.created = TRUE]]
        BY <1>1, <2>3 DEF TypeOK
      <3> QED BY <1>1, <2>1, <3>1 DEF TypeOK, Others, ProcType
    <2>4. CASE proc' = [proc EXCEPT !["owner"].created = FALSE, !["owner"].pc = "authorizing"]
      <3>1. proc' = [proc EXCEPT !["owner"] = [proc["owner"] EXCEPT !.created = FALSE,
                                                                    !.pc = "authorizing"]]
        BY <1>1, <2>4 DEF TypeOK
      <3> QED BY <1>1, <2>1, <3>1 DEF TypeOK, Others, ProcType
    <2> QED
      BY <2>2, <2>3, <2>4 DEF ProvisionPortableWindowsRecoveryHost
  <1> QED BY <1>1, <1>2, OwnerQuiet DEF Unjournaled, Unregistered

(* The record is new: until now there was none.                            *)
LEMMA PersistPreparingStore ==
    ASSUME UpdateInv, RegistryInv, Registry, PersistPreparing
    PROVE  RegistryInv'
  <1>1. /\ proc["owner"].pc = "preparing" /\ "owner" \in Processes /\ TypeOK
        /\ UNCHANGED <<kind, target, journal, lock>> /\ record'.state = "preparing"
        /\ StoreFits("owner")
    BY NamesDiffer, TypesHere DEF PersistPreparing, At, fixed, RegistryInv, NoRecord
  <1>2. record.state = "none" /\ proc["owner"].seen = NoRecord
    BY <1>1, NothingSeen DEF UpdateInv, ServiceInv, ReachFits, Unregistered, Operations
  <1>3. /\ Others("owner") /\ proc'["owner"].pc = "arming" /\ proc'["owner"].seen = NoRecord
    BY <1>1, <1>2, GotoGoes DEF PersistPreparing
  <1>4. HoldsLock("owner")
    BY <1>1, <1>3, LockStays DEF Holding
  <1>5. StoreStep("owner")
    BY <1>1, <1>2, <1>3, <1>4, RecordFacts
       DEF StoreStep, HoldsLock, Others, Unjournaled, Unregistered, Early, Undecided
  <1>6. StoreFits("owner")'
    BY <1>1, <1>3, <1>4, <1>5, OwnerBack, NamesDiffer, RecordFacts
       DEF StoreFits, HoldsLock, Completed, RolledBack
  <1> QED BY <1>1, <1>5, <1>6, StoreKept

LEMMA HostIsReadyStore ==
    ASSUME UpdateInv, RegistryInv, Registry, HostIsReady
    PROVE  RegistryInv'
  <1>1. /\ proc["owner"].pc = "starting" /\ "owner" \in Processes /\ TypeOK
        /\ UNCHANGED <<kind, record, target, journal, lock>>
    BY NamesDiffer, TypesHere DEF HostIsReady, At, fixed, index, tree
  <1>2. /\ Others("owner") /\ proc'["owner"].seen = proc["owner"].seen
        /\ proc'["owner"].pc = IF Directory THEN "locking" ELSE "PersistActive"
    BY <1>1, GotoGoes DEF HostIsReady
  <1>3. HoldsLock("owner")
    <2>1. CASE Directory
      BY <1>1, <1>2, <2>1, LockStays DEF Holding
    <2>2. CASE ~Directory
      BY <2>2 DEF HoldsLock
    <2> QED BY <2>1, <2>2
  <1>4. Quiet("owner") /\ KeepsOrder("owner")
    BY <1>1, <1>2, NamesDiffer
       DEF Quiet, KeepsOrder, Unjournaled, Unregistered, Early, Undecided
  <1> QED BY <1>1, <1>3, <1>4, QuietKept

LEMMA TakeLockStore ==
    ASSUME UpdateInv, RegistryInv, Registry, TakeLock
    PROVE  RegistryInv'
  <1>1. /\ proc["owner"].pc = "locking" /\ "owner" \in Processes /\ TypeOK
        /\ UNCHANGED <<kind, record, target>>
    BY NamesDiffer, TypesHere DEF TakeLock, At, fixed
  <1>2. CASE Throw("owner")
    BY <1>1, <1>2, ThrowStore
  <1>3. CASE /\ ~lock.file /\ lock' = [file |-> TRUE, holder |-> "owner"]
             /\ Goto("owner", "staging") /\ UNCHANGED journal
    <2>1. /\ Others("owner") /\ proc'["owner"].seen = proc["owner"].seen
          /\ proc'["owner"].pc = "staging"
      BY <1>1, <1>3, GotoGoes
    <2>2. HoldsLock("owner")
      <3>1. Directory => lock.holder = "none"
        BY <1>3 DEF RegistryInv, TargetFits
      <3> QED BY <1>3, <2>1, <3>1, NamesDiffer DEF HoldsLock, Holding
    <2>3. Quiet("owner") /\ KeepsOrder("owner")
      BY <1>1, <1>3, <2>1, NamesDiffer
         DEF Quiet, KeepsOrder, Unjournaled, Unregistered, Early, Undecided
    <2> QED BY <1>1, <2>2, <2>3, QuietKept
  <1> QED BY <1>2, <1>3 DEF TakeLock

LEMMA PrepareTransactionStore ==
    ASSUME UpdateInv, RegistryInv, Registry, PrepareTransaction
    PROVE  RegistryInv'
  <1>1. /\ proc["owner"].pc = "staging" /\ "owner" \in Processes /\ TypeOK
        /\ UNCHANGED <<kind, record, target, lock>> /\ StoreFits("owner")
    BY NamesDiffer, TypesHere DEF PrepareTransaction, At, fixed, index, RegistryInv
  <1>2. proc["owner"].seen = NoRecord
    BY <1>1, NothingSeen DEF Operations
  <1>3. /\ Others("owner") /\ proc'["owner"].pc \in {"staging", "PersistActive"}
        /\ proc'["owner"].seen = NoRecord
        /\ journal' = journal \/ journal = "none"
    <2>1. CASE Goto("owner", "PersistActive") /\ UNCHANGED journal
      BY <1>1, <1>2, <2>1, GotoGoes
    <2>2. CASE journal = "none" /\ UNCHANGED proc
      BY <1>1, <1>2, <2>2 DEF Others
    <2> QED BY <2>1, <2>2 DEF PrepareTransaction
  <1>4. HoldsLock("owner")
    BY <1>1, <1>3, LockStays DEF Holding
  <1>5. StoreStep("owner")
    BY <1>1, <1>3, <1>4, RecordFacts
       DEF StoreStep, HoldsLock, Others, Unjournaled, Unregistered, Early, Undecided
  <1>6. StoreFits("owner")'
    BY <1>1, <1>3, <1>4, <1>5, OwnerBack, NamesDiffer, RecordFacts
       DEF StoreFits, HoldsLock, Completed, RolledBack
  <1> QED BY <1>1, <1>5, <1>6, StoreKept

LEMMA AcceptCommitStore ==
    ASSUME UpdateInv, RegistryInv, Registry, AcceptCommit
    PROVE  RegistryInv'
  <1>1. /\ proc["owner"].pc = "reserved" /\ "owner" \in Processes /\ TypeOK
        /\ UNCHANGED <<kind, record, target, journal, lock>>
    BY NamesDiffer, TypesHere DEF AcceptCommit, At, fixed, index, tree
  <1>2. /\ Others("owner") /\ proc'["owner"].seen = proc["owner"].seen
        /\ proc'["owner"].pc = "MarkCommitAccepted"
    BY <1>1, GotoGoes DEF AcceptCommit
  <1>3. HoldsLock("owner")
    BY <1>1, <1>2, LockStays DEF Holding
  <1>4. Quiet("owner") /\ KeepsOrder("owner")
    BY <1>1, <1>2, NamesDiffer
       DEF Quiet, KeepsOrder, Unjournaled, Unregistered, Early, Undecided
  <1> QED BY <1>1, <1>3, <1>4, QuietKept

(* The installer has not run, or the directory's swap has not begun.       *)
LEMMA CancelPreparedStore ==
    ASSUME UpdateInv, RegistryInv, Registry, CancelPrepared
    PROVE  RegistryInv'
  <1>1. /\ proc["owner"].pc \in {"reserved", "committed"} /\ "owner" \in Processes /\ TypeOK
        /\ UNCHANGED <<kind, record, target, journal, lock>> /\ StoreFits("owner")
    BY NamesDiffer, TypesHere DEF CancelPrepared, fixed, index, tree, RegistryInv
  <1>2. proc["owner"].seen = NoRecord
    BY <1>1, NothingSeen DEF Operations
  <1>3. /\ Others("owner") /\ proc'["owner"].pc = "MarkCancelling"
        /\ proc'["owner"].seen = NoRecord
    <2> DEFINE base == IF At("owner", "committed") THEN "commitAccepted" ELSE "none"
               then == IF Directory THEN "rollingBack" ELSE "PersistCleanupPending"
    <2>1. /\ proc["owner"] \in ProcType
          /\ proc' = [proc EXCEPT !["owner"] = [proc["owner"] EXCEPT !.pc = "MarkCancelling",
                         !.out = "rolledBack", !.base = base, !.then = then]]
      BY <1>1 DEF CancelPrepared, TypeOK, ProcType
    <2> HIDE DEF base, then
    <2> QED BY <1>1, <1>2, <2>1 DEF TypeOK, Others, ProcType
  <1>4. HoldsLock("owner")
    BY <1>1, <1>3, LockStays DEF Holding
  <1>5. StoreStep("owner")
    BY <1>1, <1>3, <1>4, RecordFacts
       DEF StoreStep, HoldsLock, Others, Unjournaled, Unregistered, Early, Undecided
  <1>6. ~Directory => StaysOld'
    BY <1>1, <1>3
       DEF StaysOld, Decided, Directory, RegistryInv, TargetFits, Undecided, Early, Unjournaled,
           Unregistered
  <1>7. StoreFits("owner")'
    BY <1>1, <1>3, <1>4, <1>5, <1>6, OwnerBack, NamesDiffer, RecordFacts
       DEF StoreFits, HoldsLock, Completed, RolledBack
  <1> QED BY <1>1, <1>5, <1>7, StoreKept

LEMMA ExecuteStore ==
    ASSUME UpdateInv, RegistryInv, Registry, ExecuteAfterCallerExit
    PROVE  RegistryInv'
  <1>1. /\ proc["owner"].pc = "committed" /\ "owner" \in Processes /\ TypeOK
        /\ UNCHANGED <<kind, record, target, journal, lock>> /\ StoreFits("owner")
    BY NamesDiffer, TypesHere DEF ExecuteAfterCallerExit, At, fixed, index, tree, RegistryInv
  <1>2. proc["owner"].seen = NoRecord
    BY <1>1, NothingSeen DEF Operations
  <1>3. /\ Others("owner") /\ proc'["owner"].seen = NoRecord
        /\ proc'["owner"].pc = IF Directory THEN "swapping" ELSE "installing"
    <2> DEFINE pc == IF Directory THEN "swapping" ELSE "installing"
    <2>1. /\ proc' = [proc EXCEPT !["owner"] = [proc["owner"] EXCEPT !.base = "ran", !.pc = pc]]
          /\ proc["owner"] \in ProcType
      BY <1>1 DEF ExecuteAfterCallerExit, TypeOK, ProcType
    <2> HIDE DEF pc
    <2>2. /\ Others("owner") /\ proc'["owner"].seen = NoRecord /\ proc'["owner"].pc = pc
      BY <1>1, <1>2, <2>1 DEF TypeOK, Others, ProcType
    <2> QED BY <2>2 DEF pc
  <1>4. HoldsLock("owner")
    <2>1. CASE Directory
      BY <1>1, <1>3, <2>1, LockStays DEF Holding
    <2>2. CASE ~Directory
      BY <2>2 DEF HoldsLock
    <2> QED BY <2>1, <2>2
  <1>5. StoreStep("owner")
    BY <1>1, <1>3, <1>4, RecordFacts
       DEF StoreStep, HoldsLock, Others, Unjournaled, Unregistered, Early, Undecided
  <1>6. StoreFits("owner")'
    BY <1>1, <1>3, <1>4, <1>5, OwnerBack, NamesDiffer, RecordFacts
       DEF StoreFits, HoldsLock, Completed, RolledBack
  <1> QED BY <1>1, <1>5, <1>6, StoreKept

(* What the installer left is recorded as it is observed.                  *)
LEMMA RunInstallerStore ==
    ASSUME UpdateInv, RegistryInv, Registry, RunInstaller
    PROVE  RegistryInv'
  <1>1. /\ proc["owner"].pc = "installing" /\ "owner" \in Processes /\ TypeOK
        /\ UNCHANGED <<kind, record, journal, lock>> /\ StoreFits("owner") /\ ~Directory
    BY NamesDiffer, TypesHere DEF RunInstaller, At, fixed, index, RegistryInv, ProcessFits
  <1>2. proc["owner"].seen = NoRecord
    BY <1>1, NothingSeen DEF Operations
  <1>3. CASE proc' = proc
    <2>1. StoreStep("owner")
      BY <1>1, <1>3
         DEF StoreStep, Unjournaled, Unregistered, Early, Undecided
    <2>2. StoreFits("owner")'
      BY <1>1, <1>2, <1>3, <2>1, OwnerBack, NamesDiffer, RecordFacts
         DEF StoreFits, Completed, RolledBack
    <2> QED BY <1>1, <2>1, <2>2, StoreKept
  <1>4. CASE proc' # proc
    <2> DEFINE out == CASE target' = "new" -> "completed"
                        [] target' = "old" -> "rolledBack"
                        [] OTHER -> "manualActionRequired"
               pc == CASE out = "completed" -> "PersistCleanupPending"
                       [] out = "rolledBack" -> "MarkCancelling"
                       [] OTHER -> "PersistTerminal"
    <2>1. proc' = [proc EXCEPT !["owner"] = [proc["owner"] EXCEPT !.out = out,
                      !.then = "PersistCleanupPending", !.pc = pc]]
      BY <1>1, <1>4 DEF RunInstaller, TypeOK
    <2>2. /\ pc \in {"PersistCleanupPending", "MarkCancelling", "PersistTerminal"}
          /\ pc = "PersistCleanupPending" => out = "completed" /\ target' = "new"
          /\ pc = "MarkCancelling" => target' = "old"
      OBVIOUS
    <2> HIDE DEF out, pc
    <2>3. /\ Others("owner") /\ proc'["owner"].seen = NoRecord /\ proc'["owner"].pc = pc
          /\ proc'["owner"].out = out
      <3>1. proc["owner"] \in ProcType
        BY <1>1 DEF TypeOK, ProcType
      <3> QED BY <1>1, <1>2, <2>1, <3>1 DEF TypeOK, Others, ProcType
    <2>4. StoreStep("owner")
      BY <1>1, <2>2, <2>3, RecordFacts
         DEF StoreStep, Others, Unjournaled, Unregistered, Early, Undecided
    <2>5. /\ pc = "PersistCleanupPending" => StaysNew'
          /\ pc = "MarkCancelling" => StaysOld'
      BY <1>1, <2>2, <2>3, <2>4, OwnerBack
         DEF StaysNew, StaysOld, Decided, Unjournaled, Unregistered, Early, Undecided
    <2>6. StoreFits("owner")'
      BY <1>1, <2>2, <2>3, <2>4, <2>5, OwnerBack, NamesDiffer, RecordFacts
         DEF StoreFits, Completed, RolledBack
    <2> QED BY <1>1, <2>4, <2>6, StoreKept
  <1> QED BY <1>3, <1>4

LEMMA OwnerDisarmsStore ==
    ASSUME UpdateInv, RegistryInv, Registry, OwnerDisarms
    PROVE  RegistryInv'
  <1>1. /\ proc["owner"].pc = "disarming" /\ "owner" \in Processes /\ TypeOK
        /\ UNCHANGED <<kind, record, target, journal, lock>>
    BY NamesDiffer, TypesHere DEF OwnerDisarms, At, fixed, index, tree
  <1>2. /\ Others("owner") /\ proc'["owner"].seen = proc["owner"].seen
        /\ proc'["owner"].pc = "ended"
    BY <1>1, GotoGoes DEF OwnerDisarms
  <1>3. HoldsLock("owner")
    BY <1>1, <1>2, LockStays DEF Holding
  <1>4. Quiet("owner")
    BY <1>1, <1>2 DEF Quiet
  <1> QED
    BY <1>1, <1>2, <1>3, <1>4, LateQuiet DEF Unjournaled, Unregistered, Early, Undecided

-----------------------------------------------------------------------------
(* The theorems.                                                           *)

StoreInv == UpdateInv /\ (kind # "portable" => RegistryInv)

InnoInv == UpdateInv /\ (kind = "inno" => RegistryInv)

LEMMA InitStore == Init => RegistryInv
  <1> SUFFICES ASSUME Init PROVE RegistryInv
    OBVIOUS
  <1>1. /\ Fresh.pc = "idle" /\ Fresh.seen.state = "none" /\ Fresh.base = "none"
        /\ \A p \in Processes : proc[p] = Fresh
    BY RecordFacts DEF Fresh, Init
  <1>2. TargetFits
    BY RecordFacts DEF Init, TargetFits, Completed, RolledBack
  <1>3. ASSUME NEW p \in Processes PROVE StoreFits(p)
    <2>1. lock.holder # p
      BY NamesDiffer DEF Init
    <2> QED BY <1>1, <2>1 DEF StoreFits, Holding, Completed, RolledBack
  <1> QED BY <1>2, <1>3 DEF RegistryInv

LEMMA NextStore ==
    ASSUME UpdateInv, RegistryInv, Registry, [Next]_vars
    PROVE  RegistryInv'
  <1>1. ASSUME NEW p \in Processes, RecoveryStep(p) PROVE RegistryInv'
    BY <1>1, PlainRecoveryStore, RecoverInnoStore, LoadCurrentJournalStore,
       RecoverWithJournalStore, InspectStore
       DEF RecoveryStep
  <1>2. ASSUME NEW p \in Processes, CommonStep(p) \/ Die(p) PROVE RegistryInv'
    BY <1>2, LoadStore, WriteStore, ClaimStore, SwapTreeStore, RollBackTreeStore, ReleaseStore,
       SettledStore, LaunchStore, RelaunchedStore, DieStore
       DEF CommonStep
  <1>3. CASE PrepareInstall \/ OwnerStep
    BY <1>3, FirstStepsStore, ProvisionStore, PersistPreparingStore, HostIsReadyStore,
       TakeLockStore, PrepareTransactionStore, AcceptCommitStore, CancelPreparedStore,
       ExecuteStore, RunInstallerStore, OwnerDisarmsStore
       DEF OwnerStep
  <1>4. CASE HostStep
    BY <1>1, <1>4, HostStore, NamesDiffer DEF HostStep
  <1>5. CASE CallerExits \/ UNCHANGED vars
    BY <1>5, NothingStore DEF CallerExits, vars, fixed, index, tree
  <1>6. ASSUME NEW r \in Resolvers, ResolveIsAnswered(r) \/ BeginResolve(r) \/ ResolverStep(r)
        PROVE  RegistryInv'
    BY <1>1, <1>5, <1>6, ResolverStore, NamesDiffer DEF ResolveIsAnswered, ResolverStep
  <1> QED BY <1>2, <1>3, <1>4, <1>5, <1>6 DEF Next

LEMMA KindStays ==
    ASSUME [Next]_vars
    PROVE  kind' = kind
  <1>1. ASSUME NEW p, RecoveryStep(p) PROVE kind' = kind
    BY <1>1
       DEF RecoveryStep, RecoverTerminal, RecoverManual, RecoverCleanupPending, RecoverInno,
           LoadForRecovery, LoadCurrentJournal, RecoverWithJournal, RecoverWithoutJournal,
           InspectTopology, fixed
  <1>2. ASSUME NEW p, CommonStep(p) \/ Die(p) PROVE kind' = kind
    BY <1>2
       DEF CommonStep, LoadIndex, WriteIndex, ClaimResolver, ConsumeResolverClaim, SwapTree,
           RollBackTree, ReleaseOwnership, Settled, Launch, Relaunched, Die, fixed
  <1>3. CASE PrepareInstall \/ OwnerStep
    BY <1>3
       DEF PrepareInstall, OwnerStep, OpenSession, ProvisionPortableWindowsRecoveryHost,
           Authorize, RestagePayload, BindEndpoint, PersistPreparing, ArmAndStart, HostIsReady,
           HostIsLate, TakeLock, PrepareTransaction, AcceptCommit, CancelPrepared,
           ExecuteAfterCallerExit, RunInstaller, OwnerDisarms, OwnerOnly, fixed
  <1>4. CASE HostStep \/ CallerExits \/ UNCHANGED vars
    BY <1>1, <1>4 DEF HostStep, HostStarts, ActorsExited, HostEnds, CallerExits, vars, fixed
  <1>5. ASSUME NEW r, ResolveIsAnswered(r) \/ BeginResolve(r) \/ ResolverStep(r)
        PROVE  kind' = kind
    BY <1>1, <1>5
       DEF ResolveIsAnswered, BeginResolve, ResolverStep, Announce, ResolverCallerExits,
           ResolverEnds, vars, fixed
  <1> QED BY <1>2, <1>3, <1>4, <1>5 DEF Next

(* The steps of windows_persistent_recovery.cpp also keep the invariant of *)
(* the stores that do not compare what they replace, while the resolvers   *)
(* of a protected directory keep apart.                                    *)
THEOREM StoreInvariance == Spec /\ []ResolvesAlone => []StoreInv
  <1>1. Init => StoreInv
    BY InitFits, InitStore DEF StoreInv
  <1>2. StoreInv /\ ResolvesAlone /\ [Next]_vars => StoreInv'
    BY KindStays, NextFits, NextStore DEF StoreInv, Registry
  <1> QED BY <1>1, <1>2, PTL DEF Spec

(* They keep that of an Inno transaction whatever resolvers do             *)
(* (RecoverActive asks for the owner's end).                               *)
THEOREM InnoInvariance == Spec => []InnoInv
  <1>1. Init => InnoInv
    BY InitFits, InitStore DEF InnoInv
  <1>2. InnoInv /\ [Next]_vars => InnoInv'
    BY KindStays, NextFits, NextStore DEF InnoInv, Registry, ResolvesAlone
  <1> QED BY <1>1, <1>2, PTL DEF Spec

(* An Inno transaction's record is its outcome, for any number of          *)
(* resolvers, although its store replaces without comparing: an outcome is *)
(* recorded only when the installer can no longer run, and it is what was  *)
(* observed (DecidePersistentInnoRecovery, PersistCleanupPending).         *)
THEOREM InnoRecordTellsTarget == Spec => [](kind = "inno" => RecordTellsTarget)
  <1>1. InnoInv => (kind = "inno" => RecordTellsTarget)
    BY DEF InnoInv, RegistryInv, TargetFits, StaysNew, StaysOld, Completed, RolledBack,
           RecordTellsTarget
  <1> QED BY <1>1, InnoInvariance, PTL

(* The record is the outcome in all three stores, for any number of        *)
(* resolvers, in every behaviour in which two of them are never at work    *)
(* together before the owner of a protected directory has its journal:     *)
(* whichever process wrote it over whichever snapshot, completed only with *)
(* the new bundle installed and rolled back only with the old one          *)
(* (PersistCleanupPending, PersistTerminal,                                *)
(* RecoverPreparingWithoutJournal).                                        *)
THEOREM RecordsTellTarget == Spec /\ []ResolvesAlone => []RecordTellsTarget
  <1>1. StoreInv => RecordTellsTarget
    <2> SUFFICES ASSUME StoreInv PROVE RecordTellsTarget
      OBVIOUS
    <2>1. CASE kind = "portable"
      BY <2>1
         DEF StoreInv, UpdateInv, PortableInv, SwapFits, SwapIsOff, Completed, RolledBack,
             RecordTellsTarget
    <2>2. CASE kind # "portable"
      BY <2>2
         DEF StoreInv, RegistryInv, TargetFits, StaysNew, StaysOld, Completed, RolledBack,
             RecordTellsTarget
    <2> QED BY <2>1, <2>2
  <1> QED BY <1>1, StoreInvariance, PTL

=============================================================================
