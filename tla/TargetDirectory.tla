--------------------------- MODULE TargetDirectory ---------------------------
(***************************************************************************)
(* The parent directory of an installed Linux bundle, as the install       *)
(* helper sees it: four leaves that may hold an application tree, the      *)
(* transaction journal with its ".next" sibling, the per-target lock file  *)
(* and the recovery lock file.                                             *)
(*                                                                         *)
(* Constant-level only: the values, and what one system call does to them. *)
(***************************************************************************)
EXTENDS Naturals

Leaves == {"target", "stage", "prepared", "backup"}

(* "old" is the installed application, "new" the restaged payload of the   *)
(* transaction, "other" what another transaction installed.                *)
Trees == {"none", "old", "new", "other"}

(* What a leaf names.  ctime is the inode change time, counted in ticks;   *)
(* final is the activation mode of a payload root; whole is FALSE once a   *)
(* removal has unlinked a descendant.                                      *)
Node == [tree : Trees, ctime : Nat, final : BOOLEAN, whole : BOOLEAN]

NoNode == [tree |-> "none", ctime |-> 0, final |-> FALSE, whole |-> TRUE]

FreshNode(tree) == [NoNode EXCEPT !.tree = tree]

JournalStates == {"prepared", "backupCreated", "targetActivated", "completed"}

(* A journal file: its state and the two recorded identities.  "torn" is a *)
(* file whose bytes do not decode.                                         *)
File == [state : JournalStates \cup {"none", "torn"},
         target : Node, stage : Node]

NoFile == [state |-> "none", target |-> NoNode, stage |-> NoNode]

TornFile == [NoFile EXCEPT !.state = "torn"]

(* "ours" holds this transaction's lock record, "torn" one that does not   *)
(* decode, "foreign" another transaction's.                                *)
LockFiles == {"none", "torn", "ours", "foreign"}

Directory == [node : [Leaves -> Node], journal : File, next : File,
              lock : LockFiles, rlock : BOOLEAN]

Present(d, leaf) == d.node[leaf].tree # "none"

PresentLeaves(d) == {leaf \in Leaves : Present(d, leaf)}

-----------------------------------------------------------------------------
(* Identity comparisons.  A recorded identity is the Node that was read.   *)

(* LinuxFileIdentity::operator== compares everything but the change time.  *)
SameIdentity(seen, recorded) ==
    seen.tree = recorded.tree /\ seen.final = recorded.final

(* HasExactLinuxIdentity also compares the change time.                    *)
HasExactIdentity(seen, recorded) ==
    SameIdentity(seen, recorded) /\ seen.ctime = recorded.ctime

(* Matches and ValidateRelativeIdentity: the leaf exists and is exactly    *)
(* what was recorded.                                                      *)
Matches(d, leaf, recorded) ==
    Present(d, leaf) /\ HasExactIdentity(d.node[leaf], recorded)

(* MatchesActivatedPayloadRoot accepts the staged and the final mode and   *)
(* ignores the change time.                                                *)
MatchesActivatedRoot(d, leaf, recorded) ==
    Present(d, leaf) /\ d.node[leaf].tree = recorded.tree

(* Verify: the sealed inventory, manifest and artifact match the tree      *)
(* under the leaf.                                                         *)
VerifyPayload(d, leaf) ==
    d.node[leaf].tree = "new" /\ d.node[leaf].whole

-----------------------------------------------------------------------------
(* System calls.                                                           *)

(* A call that changes an inode advances its change time by tick (0 when   *)
(* the clock has not moved, or the file system leaves it alone).           *)
Touched(n, tick) == [n EXCEPT !.ctime = @ + tick]

(* renameat2(RENAME_NOREPLACE): moves the tree.                            *)
Renamed(d, from, to, tick) ==
    [d EXCEPT !.node = [@ EXCEPT ![to] = Touched(d.node[from], tick),
                                 ![from] = NoNode]]

(* Removal of a tree: first descendants go, then the root.                 *)
Gutted(d, leaf, tick) ==
    [d EXCEPT !.node[leaf] = Touched([@ EXCEPT !.whole = FALSE], tick)]

Removed(d, leaf) == [d EXCEPT !.node[leaf] = NoNode]

(* fchmod of the activated root.                                           *)
Finalized(d, leaf, tick) ==
    [d EXCEPT !.node[leaf] = Touched([@ EXCEPT !.final = TRUE], tick)]

-----------------------------------------------------------------------------
(* CompatibleObservation: the leaves that may exist under a journal state. *)
CompatibleObservation(state, seen) ==
    \/ /\ state = "prepared"
       /\ seen \in {{"target", "stage"}, {"target", "prepared"},
                    {"prepared", "backup"}}
    \/ /\ state = "backupCreated"
       /\ seen \in {{"prepared", "backup"}, {"target", "backup"}}
    \/ /\ state = "targetActivated"
       /\ seen = {"target", "backup"}
    \/ /\ state = "completed"
       /\ seen \in {{"target"}, {"target", "backup"}}
=============================================================================
