-------------------------- MODULE TransactionStates --------------------------
(***************************************************************************)
(* The records of the Linux transaction registry and the transitions it    *)
(* accepts.  A record's result code is fixed by its state (ValidateRecord) *)
(* and is left out; its immutable fields are one binding.                  *)
(***************************************************************************)
CONSTANTS Bindings,   \* values of the fields SameImmutableBinding compares
          Journals,   \* SHA-256 digests of transaction journals
          NoJournal   \* the all-zero digest

ASSUME JournalAssumption == NoJournal \notin Journals

ActiveStates == {"preparing", "prepared", "commitAccepted", "recoveryRequired",
                 "launchPending", "launchAttempting"}

TerminalStates == {"completed", "rolledBack", "manualActionRequired", "launched",
                   "launchFailed"}

States == ActiveStates \cup TerminalStates

Record == [state : States, binding : Bindings, journal : Journals \cup {NoJournal}]

(* No record, and bytes that do not decode.                                *)
NoRecord == [state |-> "none"]

TornRecord == [state |-> "torn"]

(* The states each state may move to; a terminal one may not.              *)
Successors(from) ==
    CASE from = "preparing" ->
           {"prepared", "rolledBack", "recoveryRequired", "manualActionRequired"}
      [] from = "prepared" ->
           {"commitAccepted", "rolledBack", "recoveryRequired", "completed",
            "manualActionRequired"}
      [] from = "commitAccepted" ->
           {"recoveryRequired", "completed", "launchPending", "manualActionRequired"}
      [] from = "recoveryRequired" ->
           {"completed", "rolledBack", "launchPending", "manualActionRequired"}
      [] from = "launchPending" -> {"launchAttempting", "launchFailed"}
      [] from = "launchAttempting" -> {"launched", "launchFailed"}
      [] OTHER -> {}

AllowedStateTransition(from, to) == from = to \/ to \in Successors(from)

(* ValidateTransition: the digest is set once, the binding never changes.  *)
ValidTransition(from, to) ==
    /\ from.binding = to.binding
    /\ AllowedStateTransition(from.state, to.state)
    /\ from.journal = to.journal \/ from.journal = NoJournal
=============================================================================
