------------------------ MODULE WindowsInstallService ------------------------
(***************************************************************************)
(* One update on Windows across the processes that share its persistent    *)
(* record: the install helper (the owner), the recovery host that a        *)
(* scheduled task starts, and helpers that an app starts to resolve a      *)
(* pending install.  Three prepared transactions: a portable directory     *)
(* replacement (record in a per-user store, host run by the user), a       *)
(* protected one (record in the registry, host run by SYSTEM), and a       *)
(* protected Inno installer.  What must be verified before each step is in *)
(* WindowsHelperChecks.                                                    *)
(*                                                                         *)
(* Every index operation is a Load and a Persist, two steps: nothing holds *)
(* the record in between.  The swap itself is WindowsFileTransaction's; a  *)
(* step here is one of its renames or the removal of its journal.  Writes  *)
(* of the portable store, with the check they make, are one step.          *)
(***************************************************************************)
EXTENDS Naturals, WindowsHelperChecks

CONSTANTS Resolvers,  \* helpers started by an app for this transaction
          MaxDeaths   \* how many processes are killed

ASSUME ServiceAssumption == /\ {"owner", "host", "none"} \cap Resolvers = {}
                            /\ MaxDeaths \in Nat

VARIABLES wants,     \* the journal asks for a relaunch
          endpoint,  \* the portable host's stable helper and policy
          locator,   \* the transaction names its endpoint
          marker,    \* the portable target's identity marker is there
          record,    \* the persistent record: its state and relaunch state
          claim,     \* the resolver claim beside it
          target,    \* what is installed; "away" in the middle of a change
          stage,     \* where the restaged payload is, or gone
          journal,   \* the swap's journal, or the retained Inno installer
          lock,      \* the target's lock file and who has it open
          armed,     \* the recovery task is registered
          token,     \* the host retained a launch token of the caller
          caller,    \* the app that asked for the install is running
          launches,  \* how often a relaunch has started the app
          deaths,
          proc       \* per process: where it is

index == <<record, claim>>

tree == <<target, stage, journal, lock>>

world == <<armed, token, caller, launches, deaths>>

fixed == <<kind, wants, endpoint, locator, marker>>

vars == <<fixed, index, tree, world, proc>>

-----------------------------------------------------------------------------
Processes == {"owner", "host"} \cup Resolvers

TerminalStates == {"completed", "rolledBack", "manualActionRequired"}

CleanupStates == {"completedCleanupPending", "rolledBackCleanupPending"}

RecordStates == {"none", "preparing", "prepared", "commitAccepted",
                 "cancelling"} \cup CleanupStates \cup TerminalStates

RelaunchStates == {"notRequested", "launchPending", "launchAttempting",
                   "launched", "launchFailed"}

Records == [state : RecordStates, relaunch : RelaunchStates]

NoRecord == [state |-> "none", relaunch |-> "notRequested"]

NoClaim == [by |-> "none", state |-> "none", live |-> FALSE]

(* Index operations; a process that is in one is at its name.              *)
Operations == {"PersistActive", "MarkCommitAccepted", "MarkCancelling",
               "MarkRelaunchPending", "MarkRelaunchAttempting",
               "PersistRelaunchOutcome", "PersistCleanupPending",
               "PersistTerminal"}

Pcs == Operations \cup
       {"idle", "opening", "provisioning", "authorizing", "restaging",
        "binding", "preparing", "arming", "starting", "locking", "staging", "reserved",
        "committed", "swapping", "installing", "rollingBack", "inspecting",
        "releasing", "settled", "claiming", "consuming", "launching",
        "relaunched", "disarming", "announcing", "acknowledged", "waiting",
        "recovering", "lookingUp", "answering", "ended"}

Outs == {"none", "completed", "rolledBack", "manualActionRequired",
         "recoveryRequired", "relaunchFailure"}

(* seen: the updated copy of a loaded record; base: the state recovery     *)
(* loaded, or for the owner how far its session is; then: where            *)
(* MarkCancelling continues, or how the launch went.                       *)
Fresh == [pc |-> "idle", seen |-> NoRecord, base |-> "none", out |-> "none",
          then |-> "none", created |-> FALSE]

TypeOK ==
    /\ kind \in Kinds /\ wants \in BOOLEAN
    /\ endpoint \in {"none", "incomplete", "stable"}
    /\ locator \in BOOLEAN /\ marker \in BOOLEAN
    /\ record \in Records
    /\ claim \in [by : Processes \cup {"none"},
                  state : {"none", "claimed", "consumed"}, live : BOOLEAN]
    /\ target \in {"old", "away", "new"}
    /\ stage \in {"staged", "prepared", "gone"}
    /\ journal \in {"none", "prepared", "moved"}
    /\ lock \in [file : BOOLEAN, holder : Processes \cup {"none"}]
    /\ armed \in BOOLEAN /\ token \in BOOLEAN /\ caller \in BOOLEAN
    /\ launches \in 0..2 /\ deaths \in 0..MaxDeaths
    /\ proc \in [Processes ->
          [pc : Pcs, seen : Records, base : RecordStates \cup {"ran"},
           out : Outs, then : Pcs \cup {"none", "launched", "launchFailed"},
           created : BOOLEAN]]

Init ==
    /\ kind \in Kinds
    /\ wants \in IF kind = "inno" THEN BOOLEAN ELSE {TRUE}
    /\ endpoint \in IF Portable THEN {"none", "incomplete", "stable"}
                    ELSE {"stable"}
    /\ locator = FALSE /\ marker \in IF Portable THEN BOOLEAN ELSE {TRUE}
    /\ record = NoRecord /\ claim = NoClaim
    /\ target = "old" /\ stage = "gone" /\ journal = "none"
    /\ lock = [file |-> FALSE, holder |-> "none"]
    /\ armed = FALSE /\ token = FALSE /\ caller = TRUE
    /\ launches = 0 /\ deaths = 0
    /\ proc = [p \in Processes |-> Fresh]

-----------------------------------------------------------------------------
At(p, pc) == proc[p].pc = pc

Goto(p, pc) == proc' = [proc EXCEPT ![p].pc = pc]

Continue(p, pc, out) == proc' = [proc EXCEPT ![p].pc = pc, ![p].out = out]

Alive(p) == proc[p].pc \notin {"idle", "ended"}

(* Mutated Released: the lock file is opened to be deleted on close.       *)
DeletedOnClose(p) ==
    IF lock.holder = p THEN [file |-> FALSE, holder |-> "none"] ELSE lock

Released(p) == IF lock.holder = p THEN [lock EXCEPT !.holder = "none"] ELSE lock

Unlocked == [file |-> FALSE, holder |-> "none"]

HeldElsewhere(p) == lock.holder \notin {"none", p}

-----------------------------------------------------------------------------
(* WindowsPersistentTransactionIndex.                                      *)

CleanupStateOf(out) == IF out = "completed" THEN "completedCleanupPending"
                       ELSE "rolledBackCleanupPending"

PersistActiveAllows(r) == r.state = "preparing"

MarkCommitAcceptedAllows(r) == r.state = "prepared"

MarkCancellingAllows(r) == r.state \in {"preparing", "prepared", "commitAccepted"}

MarkRelaunchPendingAllows(r) ==
    r.state # "manualActionRequired" /\ r.relaunch = "notRequested"

MarkRelaunchAttemptingAllows(r) ==
    r.state \in {"completed", "rolledBack"} /\ r.relaunch = "launchPending"

PersistRelaunchOutcomeAllows(r) ==
    r.state \in {"completed", "rolledBack"} /\ r.relaunch = "launchAttempting"

PersistCleanupPendingAllows(r, out) ==
    r.state = IF out = "completed" THEN "commitAccepted" ELSE "cancelling"

PersistTerminalAllows(r, out) ==
    IF out = "manualActionRequired" THEN r.state \notin TerminalStates
    ELSE r.state = CleanupStateOf(out)

Allows(p, r) ==
    CASE At(p, "PersistActive") -> PersistActiveAllows(r)
      [] At(p, "MarkCommitAccepted") -> MarkCommitAcceptedAllows(r)
      [] At(p, "MarkCancelling") -> MarkCancellingAllows(r)
      [] At(p, "MarkRelaunchPending") -> MarkRelaunchPendingAllows(r)
      [] At(p, "MarkRelaunchAttempting") -> MarkRelaunchAttemptingAllows(r)
      [] At(p, "PersistRelaunchOutcome") -> PersistRelaunchOutcomeAllows(r)
      [] At(p, "PersistCleanupPending") ->
            PersistCleanupPendingAllows(r, proc[p].out)
      [] OTHER -> PersistTerminalAllows(r, proc[p].out)

(* The record the operation would write; the verified outcome follows from *)
(* the state.                                                              *)
Updated(p, r) ==
    CASE At(p, "PersistActive") -> [r EXCEPT !.state = "prepared"]
      [] At(p, "MarkCommitAccepted") ->
            [state |-> "commitAccepted",
             relaunch |-> IF wants THEN "launchPending" ELSE r.relaunch]
      [] At(p, "MarkCancelling") -> [r EXCEPT !.state = "cancelling"]
      [] At(p, "MarkRelaunchPending") -> [r EXCEPT !.relaunch = "launchPending"]
      [] At(p, "MarkRelaunchAttempting") ->
            [r EXCEPT !.relaunch = "launchAttempting"]
      [] At(p, "PersistRelaunchOutcome") -> [r EXCEPT !.relaunch = proc[p].then]
      [] At(p, "PersistCleanupPending") ->
            [r EXCEPT !.state = CleanupStateOf(proc[p].out)]
      [] OTHER -> [r EXCEPT !.state = proc[p].out]

(* Repeating one of these operations returns without a write.              *)
AlreadyDone(p, r) ==
    /\ proc[p].pc \in Operations \ {"PersistActive", "MarkCommitAccepted"}
    /\ Updated(p, r) = r
    /\ proc[p].pc \in {"MarkRelaunchAttempting", "PersistRelaunchOutcome"} =>
          r.state \in {"completed", "rolledBack"}
    /\ At(p, "MarkRelaunchPending") => r.state # "manualActionRequired"

(* Where a process goes when its operation has returned.                   *)
After(p) ==
    CASE At(p, "PersistActive") -> "reserved"
      [] At(p, "MarkCommitAccepted") -> "committed"
      [] At(p, "MarkCancelling") -> proc[p].then
      [] At(p, "MarkRelaunchPending") -> "announcing"
      [] At(p, "MarkRelaunchAttempting") -> "launching"
      [] At(p, "PersistRelaunchOutcome") -> "relaunched"
      [] At(p, "PersistCleanupPending") -> "releasing"
      [] OTHER -> "settled"

IsRelaunchForwardTransition(state, from, to) ==
    \/ from = to
    \/ from = "notRequested" /\ to = "launchPending"
       /\ state # "manualActionRequired"
    \/ /\ state \in {"completed", "rolledBack"}
       /\ <<from, to>> \in {<<"launchPending", "launchAttempting">>,
                            <<"launchAttempting", "launched">>,
                            <<"launchAttempting", "launchFailed">>}

IsRecordForwardTransition(final, next) ==
    \/ /\ final.state = next.state
       /\ IsRelaunchForwardTransition(final.state, final.relaunch, next.relaunch)
    \/ /\ final.relaunch = next.relaunch
       /\ \/ next.state = "manualActionRequired"
             /\ final.state \notin TerminalStates
          \/ <<final.state, next.state>> \in
                {<<"preparing", "prepared">>, <<"preparing", "cancelling">>,
                 <<"prepared", "cancelling">>, <<"commitAccepted", "cancelling">>,
                 <<"commitAccepted", "completedCleanupPending">>,
                 <<"cancelling", "rolledBackCleanupPending">>,
                 <<"completedCleanupPending", "completed">>,
                 <<"rolledBackCleanupPending", "rolledBack">>}
    \/ /\ final.state = "prepared" /\ next.state = "commitAccepted"
       /\ next.relaunch = "launchPending"
       /\ final.relaunch \in {"notRequested", "launchPending"}

(* Only the portable store compares what it replaces.                      *)
WriteAccepts(old, new) ==
    kind = "portable" => IsRecordForwardTransition(old, new)

(* An exception.  The owner cancels what it could not commit, and else     *)
(* ends: its destructors delete the restaged payload or installer that no  *)
(* journal owns yet.  The lock file stays: an owner that throws with it    *)
(* open has persisted its journal, and is not through with it even when it *)
(* has just removed it.  RecoverBound answers manual,                      *)
(* RecoverCleanupPending asks again later, and a relaunch that throws has  *)
(* failed.                                                                 *)
ThrownOut(p) ==
    IF proc[p].pc \in {"claiming", "consuming", "MarkRelaunchAttempting",
                       "PersistRelaunchOutcome"} THEN "relaunchFailure"
    ELSE IF proc[p].base \in CleanupStates THEN "recoveryRequired"
    ELSE "manualActionRequired"

BeforeJournal == {"binding", "preparing", "arming", "starting", "locking"}

effects == <<lock, claim, stage, journal>>

Throw(p) ==
    CASE p = "owner" /\ At(p, "MarkCommitAccepted") ->
            /\ proc' = [proc EXCEPT ![p].pc = "MarkCancelling", ![p].seen = NoRecord,
                          ![p].out = "rolledBack",
                          ![p].then = IF Directory THEN "rollingBack"
                                      ELSE "PersistCleanupPending"]
            /\ UNCHANGED effects
      [] p = "owner" /\ ~At(p, "MarkCommitAccepted") ->
            /\ proc' = [proc EXCEPT ![p] = [Fresh EXCEPT !.pc = "ended"]]
            /\ lock' = Released(p)
            /\ claim' = IF claim.by = p THEN [claim EXCEPT !.live = FALSE]
                        ELSE claim
            /\ stage' = IF Directory /\ proc[p].pc \in BeforeJournal
                        THEN "gone" ELSE stage
            /\ journal' = IF ~Directory /\ proc[p].pc \in
                                BeforeJournal \cup {"PersistActive"}
                          THEN "none" ELSE journal
      [] OTHER ->
            /\ proc' = [proc EXCEPT ![p].pc = "answering", ![p].seen = NoRecord,
                                    ![p].out = ThrownOut(p)]
            /\ lock' = Released(p)
            /\ UNCHANGED <<claim, stage, journal>>

(* The Load of an operation, with its guard.                               *)
LoadIndex(p) ==
    /\ proc[p].pc \in Operations /\ proc[p].seen = NoRecord
    /\ \/ /\ AlreadyDone(p, record)
          /\ Goto(p, After(p))
          /\ UNCHANGED effects
       \/ /\ ~AlreadyDone(p, record) /\ Allows(p, record)
          /\ proc' = [proc EXCEPT ![p].seen = Updated(p, record)]
          /\ UNCHANGED effects
       \/ /\ ~AlreadyDone(p, record) /\ ~Allows(p, record)
          /\ Throw(p)
    /\ UNCHANGED <<fixed, record, target, world>>

(* Its Persist.                                                            *)
WriteIndex(p) ==
    /\ proc[p].pc \in Operations /\ proc[p].seen # NoRecord
    /\ IF WriteAccepts(record, proc[p].seen)
       THEN /\ record' = proc[p].seen
            /\ proc' = [proc EXCEPT ![p].pc = After(p), ![p].seen = NoRecord]
            /\ UNCHANGED effects
       ELSE Throw(p) /\ UNCHANGED record
    /\ UNCHANGED <<fixed, target, world>>

(* Mutated DecideResolverClaim: a dead resolver's used claim is free.      *)
DecideResolverClaimReusing(p) ==
    IF claim.state = "none" \/ ~claim.live THEN "own"
    ELSE IF claim.state = "consumed" THEN "consumed"
    ELSE IF claim.by = p THEN "own" ELSE "follow"

DecideResolverClaim(p) ==
    IF claim.state = "none" THEN "own"
    ELSE IF claim.state = "consumed" THEN "consumed"
    ELSE IF claim.live /\ claim.by # p THEN "follow" ELSE "own"

(* The host claims for the app that asked for the install, as the owner    *)
(* does; a resolver for the app that started it.                           *)
CallerOf(p) == IF p \in Resolvers THEN p ELSE "caller"

(* The portable store does not replace the claim of another app's helper.  *)
ClaimWriteAccepts(p) ==
    (kind = "portable" /\ claim.state # "none") =>
        CallerOf(claim.by) = CallerOf(p)

ClaimAs(p) == [by |-> p, state |-> "claimed", live |-> TRUE]

(* ClaimResolver under its mutex, before a relaunch.                       *)
ClaimResolver(p) ==
    LET decision == DecideResolverClaim(p) IN
    /\ At(p, "claiming")
    /\ \/ /\ decision = "own" /\ ClaimWriteAccepts(p)
          /\ claim' = ClaimAs(p)
          /\ Goto(p, "consuming")
          /\ UNCHANGED <<lock, stage, journal>>
       \/ /\ \/ decision = "own" /\ ~ClaimWriteAccepts(p)
             \/ decision # "own" /\ p = "owner"
          /\ Throw(p)
       \/ /\ decision # "own" /\ p = "host"
          /\ Continue(p, "answering",
                      CASE decision = "follow" -> "recoveryRequired"
                        [] decision = "consumed" /\ record.relaunch = "launched" ->
                              proc[p].out
                        [] OTHER -> "relaunchFailure")
          /\ UNCHANGED effects
       \/ /\ decision # "own" /\ p \in Resolvers
          /\ Goto(p, "answering")
          /\ UNCHANGED effects
    /\ UNCHANGED <<fixed, record, target, world>>

(* ConsumeResolverClaim: the point after which nobody else may launch.     *)
ConsumeResolverClaim(p) ==
    /\ At(p, "consuming")
    /\ \/ /\ claim = ClaimAs(p)
          /\ claim' = [claim EXCEPT !.state = "consumed"]
          /\ Goto(p, "MarkRelaunchAttempting")
          /\ UNCHANGED <<lock, stage, journal>>
       \/ /\ claim # ClaimAs(p)
          /\ Throw(p)
    /\ UNCHANGED <<fixed, record, target, world>>

-----------------------------------------------------------------------------
(* The owner: PrepareDurableJournal, MarkCommitAccepted,                   *)
(* ExecuteAfterCallerExit and CancelPrepared, called by the session.       *)

OwnerOnly == UNCHANGED <<kind, wants, index, tree, world>>

OwnerEnds == proc' = [proc EXCEPT !["owner"] = [Fresh EXCEPT !.pc = "ended"]]

(* PrepareInstall in the app, then the helper's start: a check that fails  *)
(* ends the attempt, and nothing was written.                              *)
PrepareInstall ==
    /\ At("owner", "idle") /\ caller
    /\ \E d \in AppDefects \cup {"none"} :
       IF AppAccepts(d) /\ HelperLaunches(d) THEN Goto("owner", "opening")
       ELSE OwnerEnds
    /\ OwnerOnly /\ UNCHANGED <<endpoint, locator, marker>>

OpenSession ==
    /\ At("owner", "opening")
    /\ \E d \in HelperDefects \cup {"none"} :
       IF HelperOpens(d) /\ (Portable => MayProvision(d))
       THEN Goto("owner", IF Portable THEN "provisioning" ELSE "authorizing")
       ELSE OwnerEnds
    /\ OwnerOnly /\ UNCHANGED <<endpoint, locator, marker>>

(* Mutated DecidePortableWindowsStableEndpoint: what exists is reused.     *)
ReuseWhatExists == IF endpoint = "none" THEN "create" ELSE "reuse"

DecidePortableWindowsStableEndpoint ==
    CASE endpoint = "none" -> "create"
      [] endpoint = "incomplete" -> "quarantineAndRecreate"
      [] OTHER -> "reuse"

(* ProvisionPortableWindowsRecoveryHost: the directory, then its policy    *)
(* and helper, read back.  An endpoint that does not read back and was not *)
(* created here is moved out of the way.                                   *)
ProvisionPortableWindowsRecoveryHost ==
    LET decision == DecidePortableWindowsStableEndpoint
        created == proc["owner"].created IN
    /\ At("owner", "provisioning")
    /\ \/ /\ decision = "create"
          /\ endpoint' = "incomplete"
          /\ proc' = [proc EXCEPT !["owner"].created = TRUE]
       \/ /\ decision = "quarantineAndRecreate" /\ ~created
          /\ endpoint' = "none"
          /\ UNCHANGED proc
       \/ /\ decision = "quarantineAndRecreate" /\ created
          /\ endpoint' = "stable"
          /\ proc' = [proc EXCEPT !["owner"].created = FALSE,
                                  !["owner"].pc = "authorizing"]
       \/ /\ decision = "reuse"
          /\ Goto("owner", "authorizing")
          /\ UNCHANGED endpoint
    /\ OwnerOnly /\ UNCHANGED <<locator, marker>>

(* Authorize, and AdoptAuthorizedPortableWindowsInstallIdentityMarker.     *)
Authorize ==
    /\ At("owner", "authorizing")
    /\ \E d \in HelperDefects \cup {"none"} :
       IF RequestAuthorized(d)
       THEN /\ marker' = TRUE
            /\ Goto("owner", "restaging")
       ELSE OwnerEnds /\ UNCHANGED marker
    /\ OwnerOnly /\ UNCHANGED <<endpoint, locator>>

(* The restage of the archive, or of the installer, beside the target.     *)
RestagePayload ==
    /\ At("owner", "restaging")
    /\ \E d \in HelperDefects \cup {"none"} :
       IF PayloadPrepared(d)
       THEN /\ stage' = IF Directory THEN "staged" ELSE stage
            /\ journal' = IF Directory THEN journal ELSE "prepared"
            /\ Goto("owner", "binding")
       ELSE OwnerEnds /\ UNCHANGED <<stage, journal>>
    /\ UNCHANGED <<fixed, index, target, lock, world>>

(* PrepareDurableJournal: the transaction is bound to its endpoint, then   *)
(* PersistPreparing: the record is new.                                    *)
BindEndpoint ==
    /\ At("owner", "binding")
    /\ \E d \in {"locator", "none"} :
       IF LocatorBinds(d)
       THEN /\ locator' = TRUE
            /\ Goto("owner", "preparing")
            /\ UNCHANGED effects
       ELSE Throw("owner") /\ UNCHANGED locator
    /\ UNCHANGED <<kind, wants, endpoint, marker, record, target, world>>

PersistPreparing ==
    /\ At("owner", "preparing")
    /\ record' = [NoRecord EXCEPT !.state = "preparing"]
    /\ Goto("owner", "arming")
    /\ UNCHANGED <<fixed, claim, target, stage, journal, lock, world>>

(* ArmAndStart registers the task, starts the host and waits for its       *)
(* ready event, or throws when the host is late or gone.                   *)
ArmAndStart ==
    /\ At("owner", "arming")
    /\ \E d \in HostDefects \cup {"none"} :
       \/ /\ TaskDefined(d) /\ TaskExact(d)
          /\ armed' = TRUE
          /\ Goto("owner", "starting")
          /\ UNCHANGED effects
       \/ /\ ~TaskDefined(d)
          /\ Throw("owner")
          /\ UNCHANGED armed
       \/ /\ TaskDefined(d) /\ ~TaskExact(d)
          /\ armed' \in {armed, TRUE}
          /\ Throw("owner")
    /\ UNCHANGED <<fixed, record, target, token, caller, launches, deaths>>

HostIsReady ==
    /\ At("owner", "starting") /\ Alive("host")
    /\ Goto("owner", IF Directory THEN "locking" ELSE "PersistActive")
    /\ UNCHANGED <<fixed, index, tree, world>>

(* The host's own checks failed, or it is slow.                            *)
HostIsLate ==
    /\ At("owner", "starting")
    /\ Alive("host") \/ \E d \in HostDefects : ~HostAuthenticated(d)
    /\ Throw("owner")
    /\ UNCHANGED <<fixed, record, target, world>>

(* WindowsFileTransaction::Prepare: the lock, then journal and rename.     *)
TakeLock ==
    /\ At("owner", "locking")
    /\ \/ /\ ~lock.file
          /\ lock' = [file |-> TRUE, holder |-> "owner"]
          /\ Goto("owner", "staging")
          /\ UNCHANGED <<claim, stage, journal>>
       \/ /\ lock.file
          /\ Throw("owner")
    /\ UNCHANGED <<fixed, record, target, world>>

PrepareTransaction ==
    /\ At("owner", "staging")
    /\ \/ journal = "none" /\ journal' = "prepared" /\ UNCHANGED <<stage, proc>>
       \/ /\ journal = "prepared"
          /\ stage' = "prepared"
          /\ Goto("owner", "PersistActive")
          /\ UNCHANGED journal
    /\ UNCHANGED <<fixed, index, target, lock, world>>

AcceptCommit ==
    /\ At("owner", "reserved") /\ caller
    /\ Goto("owner", "MarkCommitAccepted")
    /\ UNCHANGED <<fixed, index, tree, world>>

(* A cancel command, a lost caller, an expired reservation, or a caller    *)
(* that does not exit after its commit.                                    *)
CancelPrepared ==
    /\ proc["owner"].pc \in {"reserved", "committed"}
    /\ proc' = [proc EXCEPT !["owner"].pc = "MarkCancelling",
                  !["owner"].out = "rolledBack",
                  !["owner"].base = IF At("owner", "committed")
                                    THEN "commitAccepted" ELSE "none",
                  !["owner"].then = IF Directory THEN "rollingBack"
                                    ELSE "PersistCleanupPending"]
    /\ UNCHANGED <<fixed, index, tree, world>>

ExecuteAfterCallerExit ==
    /\ At("owner", "committed") /\ ~caller
    /\ proc' = [proc EXCEPT !["owner"].base = "ran",
                  !["owner"].pc = IF Directory THEN "swapping" ELSE "installing"]
    /\ UNCHANGED <<fixed, index, tree, world>>

(* The installer runs in a job that dies with the helper; what it left is  *)
(* observed when the handoff did not verify the new package.               *)
RunInstaller ==
    /\ At("owner", "installing")
    /\ \/ target = "old" /\ target' = "away" /\ UNCHANGED proc
       \/ /\ target' \in {"old", "away", "new"}
          /\ LET out == CASE target' = "new" -> "completed"
                          [] target' = "old" -> "rolledBack"
                          [] OTHER -> "manualActionRequired"
             IN proc' = [proc EXCEPT !["owner"].out = out,
                   !["owner"].then = "PersistCleanupPending",
                   !["owner"].pc = CASE out = "completed" -> "PersistCleanupPending"
                                     [] out = "rolledBack" -> "MarkCancelling"
                                     [] OTHER -> "PersistTerminal"]
    /\ UNCHANGED <<fixed, index, stage, journal, lock, world>>

-----------------------------------------------------------------------------
(* Steps the owner shares with recovery.                                   *)

(* ExecutePrepared and RecoverOwned: the renames, each before its journal  *)
(* state; then the backup and the journal go.                              *)
SwapTree(p) ==
    /\ At(p, "swapping") /\ journal # "none"
    /\ \/ /\ target = "old"
          /\ target' = "away" /\ stage' = "prepared" /\ journal' = "moved"
          /\ UNCHANGED proc
       \/ /\ target = "away"
          /\ target' = "new" /\ stage' = "gone"
          /\ UNCHANGED <<journal, proc>>
       \/ /\ target = "new"
          /\ journal' = "none"
          /\ Continue(p, "PersistCleanupPending", "completed")
          /\ UNCHANGED <<target, stage>>
    /\ UNCHANGED <<fixed, index, lock, world>>

(* CancelPrepared and RollBackOwned: only a prepared journal with the old  *)
(* target in place.                                                        *)
RollBackTree(p) ==
    /\ At(p, "rollingBack")
    /\ \/ /\ journal = "prepared" /\ target = "old"
          /\ stage' = "staged" /\ journal' = "none"
          /\ Continue(p, "PersistCleanupPending", "rolledBack")
          /\ UNCHANGED <<lock, claim>>
       \/ /\ ~(journal = "prepared" /\ target = "old")
          /\ Throw(p)
    /\ UNCHANGED <<fixed, record, target, world>>

(* Between the cleanup-pending and the terminal record: the lock file, or  *)
(* the retained installer, is deleted.                                     *)
ReleaseOwnership(p) ==
    /\ At(p, "releasing")
    /\ IF Directory THEN lock' = Unlocked /\ UNCHANGED journal
       ELSE journal' = "none" /\ UNCHANGED lock
    /\ Goto(p, "PersistTerminal")
    /\ UNCHANGED <<fixed, index, target, stage, world>>

(* What follows a terminal record.  A cancel is not followed by a launch;  *)
(* the host's decision is DecideTerminalRelaunch's.                        *)
OwnerContinues ==
    LET o == proc["owner"] IN
    IF o.out = "manualActionRequired" THEN "ended"
    ELSE IF o.base = "ran" /\ wants THEN "claiming"
    ELSE IF Directory \/ o.base # "commitAccepted" THEN "disarming"
    ELSE "ended"

Settled(p) ==
    /\ At(p, "settled")
    /\ \/ p = "owner" /\ Goto(p, OwnerContinues)
       \/ /\ p = "host" /\ proc[p].out # "manualActionRequired"
          /\ record.relaunch = "launchPending"
          /\ Goto(p, "claiming")
       \/ /\ p = "host" /\ proc[p].out # "manualActionRequired"
          /\ record.relaunch \in {"launchAttempting", "launchFailed"}
          /\ Continue(p, "answering", "relaunchFailure")
       \/ /\ p = "host"
          /\ \/ proc[p].out = "manualActionRequired"
             \/ record.relaunch \in {"notRequested", "launched"}
          /\ Goto(p, "answering")
       \/ /\ p \in Resolvers
          /\ Goto(p, IF proc[p].out # "manualActionRequired" /\ wants
                     THEN "claiming" ELSE "answering")
    /\ UNCHANGED <<fixed, index, tree, world>>

(* The installed application verifies as the outcome says.                 *)
Launchable(p) ==
    /\ p = "host" => token
    /\ IF proc[p].out = "completed" THEN target = "new"
       ELSE /\ target = "old"
            /\ (Directory /\ p # "owner") =>
                  stage = "staged" /\ journal = "none" /\ ~lock.file

(* The launch that MarkRelaunchAttempting announced; it may fail.          *)
Launch(p) ==
    /\ At(p, "launching")
    /\ \/ /\ Launchable(p) /\ launches < 2
          /\ launches' = launches + 1
          /\ proc' = [proc EXCEPT ![p].pc = "PersistRelaunchOutcome",
                                  ![p].then = "launched"]
       \/ /\ proc' = [proc EXCEPT ![p].pc = "PersistRelaunchOutcome",
                                  ![p].then = "launchFailed"]
          /\ UNCHANGED launches
    /\ UNCHANGED <<fixed, index, tree, armed, token, caller, deaths>>

Relaunched(p) ==
    LET failed == proc[p].then = "launchFailed" IN
    /\ At(p, "relaunched")
    /\ IF p = "owner"
       THEN Goto(p, IF failed /\ ~Directory THEN "ended" ELSE "disarming")
       ELSE Continue(p, "answering",
                     IF failed THEN "relaunchFailure" ELSE proc[p].out)
    /\ UNCHANGED <<fixed, index, tree, world>>

(* The owner's DisarmRecoveryHost swallows a failure.                      *)
OwnerDisarms ==
    /\ At("owner", "disarming")
    /\ armed' \in {armed, FALSE}
    /\ Goto("owner", "ended")
    /\ UNCHANGED <<fixed, index, tree, token, caller, launches, deaths>>

-----------------------------------------------------------------------------
(* The recovery host and the resolvers.                                    *)

(* The owner starts the host, or the task does at the next logon or boot.  *)
TriggerFires == At("owner", "starting") \/ ~Alive("owner")

(* The launch token is captured only from a living caller.                 *)
HostStarts ==
    /\ At("host", "idle") /\ armed /\ endpoint = "stable"
    /\ TriggerFires
    /\ token' = caller
    /\ proc' = [proc EXCEPT !["host"] = [Fresh EXCEPT !.pc = "waiting"]]
    /\ UNCHANGED <<fixed, index, tree, armed, caller, launches, deaths>>

(* WaitForExactRecoveryActorsExit.                                         *)
ActorsExited ==
    /\ At("host", "waiting") /\ ~Alive("owner") /\ ~caller
    /\ Goto("host", "recovering")
    /\ UNCHANGED <<fixed, index, tree, world>>

(* ResolvePendingInstallAfterCallerExit for a transaction that needs       *)
(* recovery: the relaunch it will owe is made durable first.               *)
StatusFromTerminal(r) ==
    IF r.relaunch \in {"launched", "notRequested"} THEN r.state
    ELSE "relaunchFailure"

Query ==
    CASE record.state = "none" -> "helperUnavailable"
      [] record.state \in {"completed", "rolledBack"} -> StatusFromTerminal(record)
      [] record.state = "manualActionRequired" -> "manualActionRequired"
      [] OTHER -> "recoveryRequired"

(* The app finds no endpoint, or is not one the record names, or there is  *)
(* nothing to recover: it has its answer, and may ask again.               *)
ResolveIsAnswered(r) ==
    /\ At(r, "idle")
    /\ \/ ~locator
       \/ \E d \in ResolverDefects : ~ResolverAdmitted(d) \/ ~CallerOfRecord(d)
       \/ Query # "recoveryRequired"
    /\ UNCHANGED vars

BeginResolve(r) ==
    /\ At(r, "idle") /\ locator /\ Query = "recoveryRequired"
    /\ Goto(r, IF wants THEN "MarkRelaunchPending" ELSE "announcing")
    /\ UNCHANGED <<fixed, index, tree, world>>

(* Its claim before the acknowledgement; a follower goes on as well.       *)
Announce(r) ==
    LET decision == DecideResolverClaim(r) IN
    /\ At(r, "announcing")
    /\ \/ /\ decision = "own" /\ ClaimWriteAccepts(r)
          /\ claim' = ClaimAs(r)
          /\ Goto(r, "acknowledged")
       \/ /\ decision = "follow"
          /\ Goto(r, "acknowledged")
          /\ UNCHANGED claim
       \/ /\ decision = "consumed" \/ (decision = "own" /\ ~ClaimWriteAccepts(r))
          /\ Continue(r, "answering", "manualActionRequired")
          /\ UNCHANGED claim
    /\ UNCHANGED <<fixed, record, tree, world>>

(* The app behind the resolver exits; it waits for that without a limit.   *)
ResolverCallerExits(r) ==
    /\ At(r, "acknowledged")
    /\ Goto(r, "recovering")
    /\ UNCHANGED <<fixed, index, tree, world>>

(* RecoverBound's answer while the exact owner is active: a resolver polls *)
(* until its time is over.                                                 *)
OwnerActive(p) ==
    /\ proc' \in {[proc EXCEPT ![p].pc = "answering",
                               ![p].out = "recoveryRequired"],
                  [proc EXCEPT ![p].pc = IF p = "host" THEN "answering"
                                         ELSE "recovering",
                               ![p].out = "recoveryRequired"]}
    /\ UNCHANGED lock

(* RecoverTerminal: a leftover lock is deleted when the tree is final.     *)
FinalTopology ==
    CASE journal = "none" /\ target = "new" /\ stage = "gone" -> "completed"
      [] journal = "none" /\ target = "old" /\ stage = "staged" -> "rolledBack"
      [] OTHER -> "none"

RecoverTerminal(p) ==
    /\ At(p, "recovering") /\ record.state \in {"completed", "rolledBack"}
    /\ Continue(p, "settled", record.state)
    /\ IF Directory
       THEN /\ lock' = IF lock.file /\ lock.holder = "none"
                          /\ FinalTopology = record.state
                       THEN Unlocked ELSE lock
            /\ UNCHANGED journal
       ELSE journal' = "none" /\ UNCHANGED lock
    /\ UNCHANGED <<fixed, index, target, stage, world>>

RecoverManual(p) ==
    /\ At(p, "recovering") /\ record.state = "manualActionRequired"
    /\ Continue(p, "answering", "manualActionRequired")
    /\ UNCHANGED <<fixed, index, tree, world>>

(* The outcome a cleanup-pending record carries.                           *)
VerifiedOutcome(state) ==
    IF state = "completedCleanupPending" THEN "completed" ELSE "rolledBack"

(* RecoverCleanupPending: the lock or the installer, then PersistTerminal. *)
RecoverCleanupPending(p) ==
    LET out == VerifiedOutcome(record.state) IN
    /\ At(p, "recovering") /\ record.state \in CleanupStates
    /\ \/ /\ IF Directory THEN HeldElsewhere(p) ELSE Alive("owner")
          /\ OwnerActive(p)
          /\ UNCHANGED journal
       \/ /\ Directory /\ ~HeldElsewhere(p)
          /\ lock' = Unlocked
          /\ proc' = [proc EXCEPT ![p].pc = "PersistTerminal", ![p].out = out,
                                  ![p].base = record.state]
          /\ UNCHANGED journal
       \/ /\ ~Directory /\ ~Alive("owner")
          /\ IF target = IF out = "completed" THEN "new" ELSE "old"
             THEN /\ journal' = "none"
                  /\ proc' = [proc EXCEPT ![p].pc = "PersistTerminal",
                                ![p].out = out, ![p].base = record.state]
             ELSE /\ Continue(p, "answering", "manualActionRequired")
                  /\ UNCHANGED journal
          /\ UNCHANGED lock
    /\ UNCHANGED <<fixed, index, target, stage, world>>

ActiveStates == {"preparing", "prepared", "commitAccepted", "cancelling"}

(* Mutated DecideInnoRecovery: an accepted commit counts as installed.     *)
CommitMeansInstalled(state) ==
    IF state = "commitAccepted" THEN "completed" ELSE "rolledBack"

(* RecoverActive of an Inno transaction: DecidePersistentInnoRecovery.     *)
DecideInnoRecovery(state) ==
    IF target = "new" /\ state = "commitAccepted" THEN "completed"
    ELSE IF target = "old" THEN "rolledBack"
    ELSE "manualActionRequired"

RecoverInno(p) ==
    LET out == DecideInnoRecovery(record.state) IN
    /\ At(p, "recovering") /\ record.state \in ActiveStates /\ ~Directory
    /\ \/ Alive("owner") /\ OwnerActive(p)
       \/ /\ ~Alive("owner")
          /\ proc' = [proc EXCEPT ![p].base = record.state, ![p].out = out,
                ![p].then = "PersistCleanupPending",
                ![p].pc = CASE out = "completed" -> "PersistCleanupPending"
                            [] out = "rolledBack" -> "MarkCancelling"
                            [] OTHER -> "PersistTerminal"]
          /\ UNCHANGED lock
    /\ UNCHANGED <<fixed, index, target, stage, journal, world>>

(* RecoverActive of a directory: the record is loaded first, then the      *)
(* journal, and the lock is looked at last.                                *)
LoadForRecovery(p) ==
    /\ At(p, "recovering") /\ record.state \in ActiveStates /\ Directory
    /\ proc' = [proc EXCEPT ![p].pc = "lookingUp", ![p].base = record.state]
    /\ UNCHANGED <<fixed, index, tree, world>>

(* LoadCurrentJournal: a swap that has begun needs an accepted commit.     *)
LoadCurrentJournal(p) ==
    /\ At(p, "lookingUp")
    /\ IF journal = "moved" /\ proc[p].base # "commitAccepted"
       THEN Continue(p, "answering", "manualActionRequired")
       ELSE proc' = [proc EXCEPT ![p].pc = "locking",
               ![p].then = IF journal = "none" THEN "inspecting" ELSE "rollingBack"]
    /\ UNCHANGED <<fixed, index, tree, world>>

(* WindowsRecoveryService with the intent the loaded state gives.  When    *)
(* the journal has gone since, there is nothing to recover: the leftover   *)
(* lock is deleted and RecoverPreparingWithoutJournal is next.             *)
RecoveryIntent(p) ==
    IF proc[p].base = "commitAccepted" THEN "swapping" ELSE "rollingBack"

RecoverWithJournal(p) ==
    /\ At(p, "locking") /\ p # "owner" /\ proc[p].then = "rollingBack"
    /\ \/ /\ \/ HeldElsewhere(p)
             \/ lock.file /\ journal # "none" /\ Alive("owner")
          /\ OwnerActive(p)
       \/ /\ ~lock.file /\ journal # "none"
          /\ Continue(p, "answering", "manualActionRequired")
          /\ UNCHANGED lock
       \/ /\ ~HeldElsewhere(p) /\ journal = "none"
          /\ lock' = Unlocked
          /\ proc' = [proc EXCEPT ![p].then = "inspecting"]
       \/ /\ lock = [file |-> TRUE, holder |-> "none"] /\ journal # "none"
          /\ ~Alive("owner")
          /\ lock' = [lock EXCEPT !.holder = p]
          /\ Goto(p, IF RecoveryIntent(p) = "swapping" THEN "swapping"
                     ELSE "MarkCancelling")
    /\ UNCHANGED <<fixed, index, target, stage, journal, world>>

(* RecoverPreparingWithoutJournal takes the lock, creating it if need be,  *)
(* and does not ask whether the owner lives.                               *)
RecoverWithoutJournal(p) ==
    /\ At(p, "locking") /\ p # "owner" /\ proc[p].then = "inspecting"
    /\ \/ HeldElsewhere(p) /\ OwnerActive(p)
       \/ /\ lock.holder = "none"
          /\ lock' = [file |-> TRUE, holder |-> p]
          /\ proc' = [proc EXCEPT ![p].created = ~lock.file,
                ![p].pc = IF proc[p].base = "commitAccepted" THEN "inspecting"
                          ELSE "MarkCancelling"]
    /\ UNCHANGED <<fixed, index, target, stage, journal, world>>

(* The topology must be the one the loaded state promises.                 *)
PromisedOutcome(p) == IF proc[p].base = "commitAccepted" THEN "completed"
                      ELSE "rolledBack"

InspectTopology(p) ==
    /\ At(p, "inspecting")
    /\ \/ /\ FinalTopology = PromisedOutcome(p)
          /\ Continue(p, "PersistCleanupPending", PromisedOutcome(p))
          /\ UNCHANGED lock
       \/ /\ FinalTopology # PromisedOutcome(p)
          /\ lock' = IF proc[p].created THEN Unlocked ELSE Released(p)
          /\ Continue(p, "answering", "manualActionRequired")
    /\ UNCHANGED <<fixed, index, target, stage, journal, world>>

(* The host is through: main.cpp disarms the task or leaves it armed.      *)
(* Mutated ShouldDisarm: as the protected host does.                       *)
DisarmUnlessRequired(out) == out # "recoveryRequired"

ShouldDisarm(out) ==
    IF kind = "portable" THEN out \in {"completed", "rolledBack", "relaunchFailure"}
    ELSE out # "recoveryRequired"

HostEnds ==
    /\ At("host", "answering")
    /\ armed' \in IF ShouldDisarm(proc["host"].out) THEN {armed, FALSE}
                  ELSE {armed}
    /\ proc' = [proc EXCEPT !["host"] = Fresh]
    /\ claim' = IF claim.by = "host" THEN [claim EXCEPT !.live = FALSE] ELSE claim
    /\ UNCHANGED <<fixed, record, tree, token, caller, launches, deaths>>

ResolverEnds(r) ==
    /\ At(r, "answering")
    /\ proc' = [proc EXCEPT ![r] = [Fresh EXCEPT !.pc = "ended"]]
    /\ claim' = IF claim.by = r THEN [claim EXCEPT !.live = FALSE] ELSE claim
    /\ UNCHANGED <<fixed, record, tree, world>>

-----------------------------------------------------------------------------
CallerExits ==
    /\ caller /\ caller' = FALSE
    /\ UNCHANGED <<fixed, index, tree, armed, token, launches, deaths, proc>>

(* A process is killed: its handles close, its files stay.                 *)
Die(p) ==
    /\ Alive(p) /\ deaths < MaxDeaths
    /\ deaths' = deaths + 1
    /\ lock' = Released(p)
    /\ claim' = IF claim.by = p THEN [claim EXCEPT !.live = FALSE] ELSE claim
    /\ proc' = [proc EXCEPT ![p] =
                  [Fresh EXCEPT !.pc = IF p = "host" THEN "idle" ELSE "ended"]]
    /\ UNCHANGED <<fixed, record, target, stage, journal, armed, token, caller,
                   launches>>

OwnerStep == \/ OpenSession \/ ProvisionPortableWindowsRecoveryHost
             \/ Authorize \/ RestagePayload \/ BindEndpoint
             \/ PersistPreparing \/ ArmAndStart \/ HostIsReady \/ HostIsLate
             \/ TakeLock \/ PrepareTransaction \/ AcceptCommit \/ CancelPrepared
             \/ ExecuteAfterCallerExit \/ RunInstaller \/ OwnerDisarms

CommonStep(p) == \/ LoadIndex(p) \/ WriteIndex(p) \/ ClaimResolver(p)
                 \/ ConsumeResolverClaim(p) \/ SwapTree(p) \/ RollBackTree(p)
                 \/ ReleaseOwnership(p) \/ Settled(p) \/ Launch(p)
                 \/ Relaunched(p)

RecoveryStep(p) == \/ RecoverTerminal(p) \/ RecoverManual(p)
                   \/ RecoverCleanupPending(p) \/ RecoverInno(p)
                   \/ LoadForRecovery(p) \/ LoadCurrentJournal(p)
                   \/ RecoverWithJournal(p) \/ RecoverWithoutJournal(p)
                   \/ InspectTopology(p)

HostStep == HostStarts \/ ActorsExited \/ RecoveryStep("host") \/ HostEnds

ResolverStep(r) == Announce(r) \/ ResolverCallerExits(r) \/ RecoveryStep(r)
                   \/ ResolverEnds(r)

Next ==
    \/ PrepareInstall
    \/ OwnerStep \/ HostStep \/ CallerExits
    \/ \E r \in Resolvers : \/ ResolveIsAnswered(r) \/ BeginResolve(r)
                             \/ ResolverStep(r)
    \/ \E p \in Processes : CommonStep(p) \/ Die(p)

(* Every process that was started is scheduled, the task runs at the next  *)
(* logon or boot while it is armed, and an app that is asked to exits.     *)
Spec == /\ Init /\ [][Next]_vars
        /\ WF_vars(OwnerStep) /\ WF_vars(HostStep) /\ WF_vars(CallerExits)
        /\ \A r \in Resolvers : WF_vars(ResolverStep(r))
        /\ \A p \in Processes : WF_vars(CommonStep(p))

-----------------------------------------------------------------------------
(* The record is the outcome: once it says completed or rolled back, also  *)
(* with the cleanup still to do, the installed bundle is the new or the    *)
(* old one, whichever process wrote it over whichever snapshot:            *)
(* windows_persistent_recovery.cpp, PersistCleanupPending, PersistTerminal. *)
RecordTellsTarget ==
    /\ record.state \in {"completed", "completedCleanupPending"} =>
          target = "new"
    /\ record.state \in {"rolledBack", "rolledBackCleanupPending"} =>
          target = "old"

(* The owner, the host and resolvers race and die, and the app is started  *)
(* at most once: consuming the claim is the at-most-once boundary          *)
(* (RunWindowsAtMostOnceRelaunch).                                         *)
LaunchedAtMostOnce == launches <= 1

(* A portable transaction whose journal is on disk and whose record is not *)
(* terminal keeps its recovery task, through every death and every answer  *)
(* of the host (ShouldDisarmPortableWindowsRecoveryHost,                   *)
(* DisarmRecoveryHost).                                                    *)
PendingStaysArmed ==
    (kind = "portable" /\ journal # "none" /\ record.state \notin TerminalStates)
        => armed

(* A record of a transaction can be found and acted upon: its endpoint is  *)
(* named, the helper and policy there are complete, and the target carries *)
(* the marker the record's identity proof is about.  A helper that died    *)
(* while it wrote them leaves no record behind                             *)
(* (RunPortableWindowsRecoveryPrepareBoundary, ProvisionPortable...).      *)
RecordIsReachable ==
    record # NoRecord => locator /\ endpoint = "stable" /\ marker

(* A committed portable swap that was interrupted with the target name     *)
(* empty is finished, however often helpers die: the task keeps starting   *)
(* the host (RecoverAutonomously), unless a resolver with an older         *)
(* snapshot has marked the transaction as cancelling.                      *)
CommittedSwapEnds ==
    (kind = "portable" /\ target = "away")
        ~> (target = "new" \/ record.state = "cancelling")

(* A terminal record is never changed to another state (PersistTerminal).  *)
TerminalIsImmutable ==
    [][record.state \in TerminalStates => record'.state = record.state]_vars
=============================================================================
