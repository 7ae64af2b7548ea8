-------------------- MODULE WindowsFileTransactionProofs --------------------
(***************************************************************************)
(* Proofs about the Windows swap, for any set of transactions for one      *)
(* target, any set of recovery processes and any outside change.           *)
(***************************************************************************)
EXTENDS WindowsFileTransaction, TLAPS

-----------------------------------------------------------------------------
(* The inductive invariant.                                                *)

(* Where a process has the lock file open.                                 *)
Persisting == {"creating", "writing", "flushing"}

Holding == Persisting \cup
    {"staging", "prepared", "accepted", "activating", "verifying", "deleting",
     "removing", "releasing", "loading", "matching", "forward", "completing"}

(* Where the owner has not had the lock yet, and where it is through.      *)
Early == {"idle", "validating", "locking", "binding"}

Leaving == {"removing", "releasing", "failed", "ended"}

(* The lock file is open in the process that works under it and names its  *)
(* transaction.                                                            *)
LockHeld ==
    /\ \A t \in Transactions : proc[t].tx = t
    /\ \A p \in Processes : lock.holder = p <=> proc[p].pc \in Holding
    /\ \A p \in Processes : proc[p].pc \in Holding => lock.names = proc[p].tx
    /\ lock.names = "none" => lock.holder = "none"

(* An owner without the lock has its stage, and means to finish the swap   *)
(* until it cancels.                                                       *)
OwnerWaits ==
    \A t \in Transactions :
        /\ proc[t].pc \in Early => lock.names # t /\ stage[t]
        /\ proc[t].pc \notin Leaving => proc[t].intent = "complete"

(* What a transaction has besides its stage is there under its lock only.  *)
CleanOutside ==
    /\ \A t \in Transactions : lock.names # t =>
          ~prepared[t] /\ backup[t] = "none" /\ journal[t] = "none" /\ next[t] = "none"
    /\ target = "none" => lock.names # "none"

(* The five trees of a swap, in their order.                               *)
Untouched(t) == target # "none" /\ backup[t] = "none" /\ stage[t] /\ ~prepared[t]

Staged(t) == target # "none" /\ backup[t] = "none" /\ ~stage[t] /\ prepared[t]

Moved(t) == target = "none" /\ backup[t] = expect[t] /\ ~stage[t] /\ prepared[t]

Active(t) == target = t /\ backup[t] = expect[t] /\ ~stage[t] /\ ~prepared[t]

Final(t) == target = t /\ backup[t] = "none" /\ ~stage[t] /\ ~prepared[t]

(* The trees behind what Load returns: at most one rename ahead of it.     *)
TreeFits(t) ==
    /\ LoadedJournal(t) = "none" => Untouched(t) \/ Final(t)
    /\ LoadedJournal(t) = "prepared" => Untouched(t) \/ Staged(t) \/ Moved(t)
    /\ LoadedJournal(t) = "backupCreated" => Moved(t) \/ Active(t)
    /\ LoadedJournal(t) = "targetActivated" => Active(t)
    /\ LoadedJournal(t) = "completed" => Active(t) \/ Final(t)

JournalFits(t) ==
    /\ journal[t] = "none" =>
          /\ next[t] \in {"none", "empty", "partial", "prepared"}
          /\ Untouched(t) \/ (Final(t) /\ next[t] = "none")
    /\ journal[t] # "none" /\ next[t] \in JournalStates =>
          IsForwardJournalState(journal[t], next[t])

UnderLock == \A t \in Transactions : lock.names = t => TreeFits(t) /\ JournalFits(t)

(* What a process that persists has done before, and what the journal was. *)
PersistFits(p) ==
    LET t == proc[p].tx IN
    /\ proc[p].intent = "complete"
    /\ proc[p].pc = "creating" => next[t] = "none"
    /\ proc[p].pc = "writing" => next[t] \in {"empty", "partial"}
    /\ proc[p].pc = "flushing" => next[t] = proc[p].to
    /\ \/ /\ proc[p].to = "prepared" /\ proc[p].then = "staging"
          /\ Untouched(t) /\ journal[t] = "none"
       \/ /\ proc[p].to = "prepared" /\ proc[p].then = "accepted"
          /\ Staged(t) /\ journal[t] = "prepared"
       \/ /\ proc[p].to = "backupCreated" /\ proc[p].then \in {"activating", "forward"}
          /\ Moved(t) /\ journal[t] = "prepared"
       \/ /\ proc[p].to = "targetActivated" /\ proc[p].then \in {"verifying", "forward"}
          /\ Active(t) /\ journal[t] = "backupCreated"
       \/ /\ proc[p].to = "targetActivated" /\ proc[p].then = "completing"
          /\ Active(t) /\ journal[t] \in {"backupCreated", "targetActivated"}
       \/ /\ proc[p].to = "completed" /\ proc[p].then = "deleting"
          /\ Active(t) /\ journal[t] = "targetActivated"

(* What holds between two operations of the process that holds the lock.   *)
PhaseFits(p) ==
    LET t == proc[p].tx IN
    /\ proc[p].pc \notin {"creating", "writing", "flushing", "loading"} => next[t] = "none"
    /\ proc[p].pc = "staging" => Untouched(t) /\ journal[t] = "prepared"
    /\ proc[p].pc \in {"prepared", "accepted"} => Staged(t) /\ journal[t] = "prepared"
    /\ proc[p].pc = "activating" => Moved(t) /\ journal[t] = "backupCreated"
    /\ proc[p].pc \in {"verifying", "completing"} =>
          Active(t) /\ journal[t] = "targetActivated"
    /\ proc[p].pc = "matching" => journal[t] # "none"
    /\ proc[p].pc = "forward" =>
          journal[t] # "none" /\ (journal[t] = "prepared" => backup[t] = "none")
    /\ proc[p].pc \in {"forward", "completing", "deleting"} => proc[p].intent = "complete"
    /\ proc[p].pc = "deleting" => journal[t] = "completed"
    /\ proc[p].pc \in {"removing", "releasing"} =>
          IF proc[p].intent = "complete" THEN Final(t)
          ELSE Untouched(t) /\ target = expect[t]
    /\ proc[p].pc = "releasing" => journal[t] = "none"

HolderFits ==
    \A p \in Processes :
        /\ proc[p].pc \in Persisting => PersistFits(p)
        /\ proc[p].pc \in Holding => PhaseFits(p)

SwapInv == TypeOK /\ LockHeld /\ OwnerWaits /\ CleanOutside /\ UnderLock /\ HolderFits
-----------------------------------------------------------------------------
(* What the steps of a process do to the processes.                        *)

Process == [pc : Pcs, tx : Transactions, to : JournalStates, then : Pcs,
            intent : Intents, saw : BOOLEAN, outcome : Outcomes]

(* Process p goes to pc for the same transaction, the others stay.         *)
Steps(p, pc) ==
    /\ proc' \in [Processes -> Process]
    /\ \A q \in Processes \ {p} : proc'[q] = proc[q]
    /\ proc'[p].pc = pc /\ proc'[p].tx = proc[p].tx

LEMMA GotoEffect ==
    ASSUME TypeOK, NEW p \in Processes, NEW pc \in Pcs, Goto(p, pc)
    PROVE  /\ Steps(p, pc)
           /\ proc'[p].to = proc[p].to /\ proc'[p].then = proc[p].then
           /\ proc'[p].intent = proc[p].intent
  BY DEF TypeOK, Goto, Steps, Process

LEMMA PersistThenEffect ==
    ASSUME TypeOK, NEW p \in Processes, NEW state \in JournalStates, NEW then \in Pcs,
           PersistThen(p, state, then)
    PROVE  /\ Steps(p, "creating")
           /\ proc'[p].to = state /\ proc'[p].then = then
           /\ proc'[p].intent = proc[p].intent
<1>1. "creating" \in Pcs BY DEF Pcs
<1> DEFINE x == [proc[p] EXCEPT !.pc = "creating", !.to = state, !.then = then]
<1>2. proc \in [Processes -> Process] /\ proc[p] \in Process
  BY DEF TypeOK, Process
<1>3. /\ x \in Process /\ x.pc = "creating" /\ x.tx = proc[p].tx
      /\ x.to = state /\ x.then = then /\ x.intent = proc[p].intent
  BY <1>1, <1>2 DEF Process
<1>4. proc' = [proc EXCEPT ![p] = x]
  BY <1>2 DEF PersistThen
<1> HIDE DEF x
<1> QED BY <1>2, <1>3, <1>4 DEF Steps

LEMMA AnswerEffect ==
    ASSUME TypeOK, NEW p \in Processes, NEW outcome \in Outcomes, Answer(p, outcome)
    PROVE  /\ Steps(p, "idle")
           /\ lock' = IF lock.holder = p THEN [lock EXCEPT !.holder = "none"] ELSE lock
<1>1. "idle" \in Pcs BY DEF Pcs
<1> DEFINE x == [proc[p] EXCEPT !.pc = "idle", !.outcome = outcome]
<1>2. proc \in [Processes -> Process] /\ proc[p] \in Process
  BY DEF TypeOK, Process
<1>3. x \in Process /\ x.pc = "idle" /\ x.tx = proc[p].tx
  BY <1>1, <1>2 DEF Process
<1>4. proc' = [proc EXCEPT ![p] = x]
  BY <1>2 DEF Answer
<1> HIDE DEF x
<1> QED BY <1>2, <1>3, <1>4 DEF Steps, Answer

-----------------------------------------------------------------------------
(* The five kinds of steps.                                                *)

LEMMA HolderIsAlone ==
    ASSUME SwapInv, NEW p \in Processes, proc[p].pc \in Holding
    PROVE  /\ lock.holder = p /\ lock.names = proc[p].tx /\ proc[p].tx \in Transactions
           /\ \A q \in Processes \ {p} : proc[q].pc \notin Holding
           /\ \A t \in Transactions : proc[t].pc \in Early => t # proc[p].tx
           /\ TreeFits(proc[p].tx) /\ JournalFits(proc[p].tx)
           /\ PhaseFits(p) /\ (proc[p].pc \in Persisting => PersistFits(p))
<1>1. lock.holder = p /\ lock.names = proc[p].tx /\ proc[p].tx \in Transactions
  BY DEF SwapInv, LockHeld, TypeOK
<1>2. \A q \in Processes \ {p} : proc[q].pc \notin Holding
  BY <1>1 DEF SwapInv, LockHeld
<1>3. \A t \in Transactions : proc[t].pc \in Early => t # proc[p].tx
  BY <1>1 DEF SwapInv, OwnerWaits
<1>4. TreeFits(proc[p].tx) /\ JournalFits(proc[p].tx)
  BY <1>1 DEF SwapInv, UnderLock
<1>5. PhaseFits(p) /\ (proc[p].pc \in Persisting => PersistFits(p))
  BY DEF SwapInv, HolderFits
<1> QED BY <1>1, <1>2, <1>3, <1>4, <1>5

(* The files of a transaction other than t are left alone.                 *)
OnlyFilesOf(t) ==
    \A u \in Transactions \ {t} :
        /\ stage'[u] = stage[u] /\ prepared'[u] = prepared[u] /\ backup'[u] = backup[u]
        /\ journal'[u] = journal[u] /\ next'[u] = next[u]

(* The holder of the lock works on the files of its transaction.           *)
LEMMA HolderStep ==
    ASSUME SwapInv, TypeOK', NEW p \in Processes, proc[p].pc \in Holding,
           NEW t \in Transactions, t = proc[p].tx, NEW pc \in Holding, Steps(p, pc), lock' = lock,
           OnlyFilesOf(t),
           proc'[p].intent = "complete" \/ proc'[p].pc \in Leaving \/ p \in Recoverers,
           TreeFits(t)', JournalFits(t)',
           PhaseFits(p)', pc \in Persisting => PersistFits(p)'
    PROVE  SwapInv'
<1>1. LockHeld'
  BY HolderIsAlone DEF SwapInv, LockHeld, Steps, Processes
<1>2. OwnerWaits'
  <2> SUFFICES ASSUME NEW u \in Transactions
               PROVE  /\ proc'[u].pc \in Early => lock'.names # u /\ stage'[u]
                      /\ proc'[u].pc \notin Leaving => proc'[u].intent = "complete"
    BY DEF OwnerWaits
  <2>1. CASE u = p
    BY <2>1, SwapAssumption DEF Steps, Holding, Persisting, Early
  <2>2. CASE u # p
    BY <2>2, HolderIsAlone DEF Steps, Processes, OnlyFilesOf, SwapInv,
           OwnerWaits
  <2> QED BY <2>1, <2>2
<1>3. CleanOutside'
  BY HolderIsAlone, SwapAssumption DEF SwapInv, CleanOutside, OnlyFilesOf
<1>4. UnderLock'
  BY HolderIsAlone DEF UnderLock
<1>5. HolderFits'
  BY HolderIsAlone DEF HolderFits, Steps, Holding
<1> QED BY <1>1, <1>2, <1>3, <1>4, <1>5 DEF SwapInv

(* A process stops and closes its handle of the lock, if it has one; what  *)
(* its last Load promoted stays.                                           *)
LEMMA StoppedStep ==
    ASSUME SwapInv, TypeOK', NEW p \in Processes, NEW pc \in Pcs \ Holding, Steps(p, pc),
           p \in Recoverers \/ pc \in {"failed", "ended"},
           lock' = (IF lock.holder = p THEN [lock EXCEPT !.holder = "none"] ELSE lock),
           UNCHANGED <<tree, expect>>,
           \/ UNCHANGED store
           \/ /\ proc[p].pc \in Holding
              /\ \E t \in Transactions : /\ t = proc[p].tx /\ OnlyFilesOf(t)
                                         /\ TreeFits(t)' /\ JournalFits(t)'
    PROVE  SwapInv'
<1>0. lock'.names = lock.names /\ lock'.holder = IF lock.holder = p THEN "none" ELSE lock.holder
  BY DEF SwapInv, TypeOK
<1>1. LockHeld'
  BY <1>0, SwapAssumption DEF SwapInv, LockHeld, Steps, Processes
<1>2. OwnerWaits'
  BY <1>0, SwapAssumption DEF SwapInv, OwnerWaits, Steps, Processes, Early,
         Leaving, tree
<1>3. CASE UNCHANGED store
  <2>1. CleanOutside'
    BY <1>0, <1>3 DEF SwapInv, CleanOutside, tree, store
  <2>2. UnderLock'
    BY <1>0, <1>3 DEF SwapInv, UnderLock, TreeFits, JournalFits, LoadedJournal,
           Untouched, Staged, Moved, Active, Final, tree, store
  <2>3. HolderFits'
    BY <1>3 DEF SwapInv, HolderFits, PersistFits, PhaseFits, Steps, Untouched,
           Staged, Moved, Active, Final, tree, store, Holding, Persisting
  <2> QED BY <1>1, <1>2, <2>1, <2>2, <2>3 DEF SwapInv
<1>4. CASE ~UNCHANGED store
  <2>1. PICK t \in Transactions : /\ t = proc[p].tx /\ OnlyFilesOf(t)
                                  /\ TreeFits(t)' /\ JournalFits(t)'
    BY <1>4
  <2>2. proc[p].pc \in Holding
    BY <1>4
  <2>3. CleanOutside'
    BY <1>0, <2>1, <2>2, HolderIsAlone DEF SwapInv, CleanOutside, OnlyFilesOf,
           tree
  <2>4. UnderLock'
    BY <1>0, <2>1, <2>2, HolderIsAlone DEF UnderLock
  <2>5. HolderFits'
    BY <2>2, HolderIsAlone DEF HolderFits, Steps, Holding
  <2> QED BY <1>1, <1>2, <2>3, <2>4, <2>5 DEF SwapInv
<1> QED BY <1>3, <1>4

(* The holder deletes the lock file when there is no journal to go by.     *)
LEMMA UnlockStep ==
    ASSUME SwapInv, TypeOK', NEW p \in Processes, proc[p].pc \in Holding,
           NEW pc \in Pcs \ Holding, Steps(p, pc),
           p \in Recoverers \/ pc \in {"failed", "ended"},
           lock' = Unlocked, UNCHANGED <<tree, journal, expect>>,
           LoadedJournal(proc[p].tx) = "none", next'[proc[p].tx] = "none",
           \A u \in Transactions \ {proc[p].tx} : next'[u] = next[u]
    PROVE  SwapInv'
<1>0. lock'.names = "none" /\ lock'.holder = "none"
  BY DEF Unlocked
<1>1. LockHeld'
  BY <1>0, HolderIsAlone, SwapAssumption DEF SwapInv, LockHeld, Steps, Processes
<1>2. OwnerWaits'
  BY <1>0, SwapAssumption DEF SwapInv, OwnerWaits, Steps, Processes, Early,
         Leaving, tree
<1>3. CleanOutside'
  <2>1. journal[proc[p].tx] = "none"
    BY HolderIsAlone DEF LoadedJournal, JournalFits, JournalStates
  <2>2. Untouched(proc[p].tx) \/ Final(proc[p].tx)
    BY HolderIsAlone DEF TreeFits
  <2> QED
    BY <1>0, <2>1, <2>2, HolderIsAlone, SwapAssumption
    DEF SwapInv, CleanOutside, tree, Untouched, Final
<1>4. UnderLock'
  BY <1>0, SwapAssumption DEF UnderLock
<1>5. HolderFits'
  BY HolderIsAlone DEF HolderFits, Steps, Persisting, Holding
<1> QED BY <1>1, <1>2, <1>3, <1>4, <1>5 DEF SwapInv

(* A process without the lock moves on and touches no file.                *)
LEMMA OutsideStep ==
    ASSUME SwapInv, TypeOK', NEW p \in Processes, proc[p].pc \notin Holding,
           \A q \in Processes \ {p} : proc'[q] = proc[q],
           proc'[p].pc \notin Holding, lock' = lock, UNCHANGED <<tree, store>>,
           p \in Transactions =>
              /\ proc'[p].tx = proc[p].tx /\ proc'[p].intent = proc[p].intent
              /\ proc[p].pc \in Early /\ proc'[p].pc \in Early \cup {"failed"},
           \A u \in Transactions : lock.names = u => expect'[u] = expect[u]
    PROVE  SwapInv'
<1>1. LockHeld'
  BY DEF SwapInv, LockHeld, Processes
<1>2. OwnerWaits'
  BY SwapAssumption DEF SwapInv, OwnerWaits, Processes, Early, Leaving, tree
<1>3. CleanOutside'
  BY DEF SwapInv, CleanOutside, tree, store
<1>4. UnderLock'
  BY DEF SwapInv, UnderLock, TreeFits, JournalFits, LoadedJournal, Untouched,
         Staged, Moved, Active, Final, tree, store
<1>5. HolderFits'
  <2> SUFFICES ASSUME NEW q \in Processes, proc'[q].pc \in Holding
               PROVE  PhaseFits(q)' /\ (proc'[q].pc \in Persisting => PersistFits(q)')
    BY DEF HolderFits, Holding
  <2>1. q # p /\ proc'[q] = proc[q] /\ proc[q].pc \in Holding
    OBVIOUS
  <2>2. expect'[proc[q].tx] = expect[proc[q].tx]
    BY <2>1, HolderIsAlone
  <2> QED
    BY <2>1, <2>2, HolderIsAlone DEF PersistFits, PhaseFits, Untouched, Staged,
           Moved, Active, Final, tree, store
<1> QED BY <1>1, <1>2, <1>3, <1>4, <1>5 DEF SwapInv

-----------------------------------------------------------------------------
(* The journal store.                                                      *)

LEMMA PersistCreateStep ==
    ASSUME SwapInv, NEW p \in Processes, PersistCreate(p)
    PROVE  SwapInv'
<1>1. PICK t \in Transactions : t = proc[p].tx
  BY DEF SwapInv, TypeOK
<1>2. proc[p].pc = "creating" /\ proc[p].pc \in Holding /\ proc[p].pc \in Persisting
  BY DEF PersistCreate, At, Holding, Persisting
<1>3. /\ TreeFits(t) /\ JournalFits(t) /\ PhaseFits(p) /\ PersistFits(p)
      /\ next[t] = "none" /\ LoadedJournal(t) = journal[t]
  BY <1>1, <1>2, HolderIsAlone DEF PersistFits, PhaseFits, LoadedJournal,
         JournalStates
<1>4. /\ Steps(p, "writing")
      /\ proc'[p].to = proc[p].to /\ proc'[p].then = proc[p].then
      /\ proc'[p].intent = proc[p].intent
  BY <1>1, <1>2, <1>3, GotoEffect, PersistThenEffect
  DEF PersistCreate, SwapInv, Pcs, JournalStates
<1>5. /\ journal' = journal /\ next'[t] = "empty"
      /\ next' \in [Transactions -> Candidates]
      /\ \A u \in Transactions \ {t} : next'[u] = next[u]
      /\ UNCHANGED <<tree, locks, expect, intact>>
  BY <1>1, <1>2, <1>3 DEF PersistCreate, SwapInv, TypeOK, Candidates
<1>6. TypeOK'
  BY <1>4, <1>5 DEF SwapInv, TypeOK, Steps, Process, Bundles, tree, store, locks
<1>7. TreeFits(t)' /\ JournalFits(t)'
  BY <1>1, <1>2, <1>3, <1>5 DEF TreeFits, JournalFits, LoadedJournal,
         JournalStates, PersistFits, IsForwardJournalState, Untouched, Staged,
         Moved, Active, Final, tree, store
<1>8. PhaseFits(p)' /\ PersistFits(p)'
  BY <1>1, <1>2, <1>3, <1>4, <1>5, <1>6 DEF PhaseFits, PersistFits, Steps,
         TreeFits, LoadedJournal, JournalStates, Untouched, Staged, Moved,
         Active, Final, tree, store
<1>9. OnlyFilesOf(t)
  BY <1>5 DEF OnlyFilesOf, tree, store
<1> QED
  BY <1>1, <1>2, <1>3, <1>4, <1>5, <1>6, <1>7, <1>8, <1>9, HolderStep
  DEF Holding, Persisting, Leaving, locks, Steps, PersistFits

LEMMA PersistWriteHalfStep ==
    ASSUME SwapInv, NEW p \in Processes, PersistWrite(p),
           next[proc[p].tx] = "empty"
    PROVE  SwapInv'
<1>1. PICK t \in Transactions : t = proc[p].tx
  BY DEF SwapInv, TypeOK
<1>2. proc[p].pc = "writing" /\ proc[p].pc \in Holding /\ proc[p].pc \in Persisting
  BY DEF PersistWrite, At, Holding, Persisting
<1>3. /\ TreeFits(t) /\ JournalFits(t) /\ PhaseFits(p) /\ PersistFits(p)
      /\ next[t] = "empty"
  BY <1>1, <1>2, HolderIsAlone DEF PersistFits, PhaseFits, LoadedJournal,
         JournalStates
<1>4. /\ Steps(p, "writing")
      /\ proc'[p].to = proc[p].to /\ proc'[p].then = proc[p].then
      /\ proc'[p].intent = proc[p].intent
  BY <1>1, <1>2 DEF PersistWrite, SwapInv, TypeOK, Steps, Process
<1>5. /\ next'[t] = "partial"
      /\ next' \in [Transactions -> Candidates]
      /\ \A u \in Transactions \ {t} : next'[u] = next[u]
      /\ UNCHANGED <<tree, journal, locks, expect, intact>>
  BY <1>1, <1>2, <1>3 DEF PersistWrite, SwapInv, TypeOK, Candidates
<1>6. TypeOK'
  BY <1>4, <1>5 DEF SwapInv, TypeOK, Steps, Process, Bundles, tree, store, locks
<1>7. TreeFits(t)' /\ JournalFits(t)'
  BY <1>1, <1>2, <1>3, <1>5 DEF TreeFits, JournalFits, LoadedJournal,
         JournalStates, PersistFits, IsForwardJournalState, Untouched, Staged,
         Moved, Active, Final, tree, store
<1>8. PhaseFits(p)' /\ PersistFits(p)'
  BY <1>1, <1>2, <1>3, <1>4, <1>5, <1>6 DEF PhaseFits, PersistFits, Steps,
         TreeFits, LoadedJournal, JournalStates, Untouched, Staged, Moved,
         Active, Final, tree, store
<1>9. OnlyFilesOf(t)
  BY <1>5 DEF OnlyFilesOf, tree, store
<1> QED
  BY <1>1, <1>2, <1>3, <1>4, <1>5, <1>6, <1>7, <1>8, <1>9, HolderStep
  DEF Holding, Persisting, Leaving, locks, Steps, PersistFits

LEMMA PersistWriteWholeStep ==
    ASSUME SwapInv, NEW p \in Processes, PersistWrite(p),
           next[proc[p].tx] # "empty"
    PROVE  SwapInv'
<1>1. PICK t \in Transactions : t = proc[p].tx
  BY DEF SwapInv, TypeOK
<1>2. proc[p].pc = "writing" /\ proc[p].pc \in Holding /\ proc[p].pc \in Persisting
  BY DEF PersistWrite, At, Holding, Persisting
<1>3. /\ TreeFits(t) /\ JournalFits(t) /\ PhaseFits(p) /\ PersistFits(p)
      /\ next[t] = "partial"
  BY <1>1, <1>2, HolderIsAlone DEF PersistFits, PhaseFits, LoadedJournal,
         JournalStates
<1>4. /\ Steps(p, "flushing")
      /\ proc'[p].to = proc[p].to /\ proc'[p].then = proc[p].then
      /\ proc'[p].intent = proc[p].intent
  BY <1>1, <1>2, <1>3, GotoEffect, PersistThenEffect
  DEF PersistWrite, SwapInv, Pcs, JournalStates
<1>5. /\ next'[t] = proc[p].to
      /\ next' \in [Transactions -> Candidates]
      /\ \A u \in Transactions \ {t} : next'[u] = next[u]
      /\ UNCHANGED <<tree, journal, locks, expect, intact>>
  BY <1>1, <1>2, <1>3 DEF PersistWrite, SwapInv, TypeOK, Candidates, Steps
<1>6. TypeOK'
  BY <1>4, <1>5 DEF SwapInv, TypeOK, Steps, Process, Bundles, tree, store, locks
<1>7. TreeFits(t)' /\ JournalFits(t)'
  BY <1>1, <1>2, <1>3, <1>5 DEF TreeFits, JournalFits, LoadedJournal,
         JournalStates, PersistFits, IsForwardJournalState, Untouched, Staged,
         Moved, Active, Final, tree, store
<1>8. PhaseFits(p)' /\ PersistFits(p)'
  BY <1>1, <1>2, <1>3, <1>4, <1>5, <1>6 DEF PhaseFits, PersistFits, Steps,
         TreeFits, LoadedJournal, JournalStates, Untouched, Staged, Moved,
         Active, Final, tree, store
<1>9. OnlyFilesOf(t)
  BY <1>5 DEF OnlyFilesOf, tree, store
<1> QED
  BY <1>1, <1>2, <1>3, <1>4, <1>5, <1>6, <1>7, <1>8, <1>9, HolderStep
  DEF Holding, Persisting, Leaving, locks, Steps, PersistFits

(* Each operation goes on from the journal it asked for.                   *)
LEMMA PersistPublishStep ==
    ASSUME SwapInv, NEW p \in Processes, PersistPublish(p)
    PROVE  SwapInv'
<1>1. PICK t \in Transactions : t = proc[p].tx
  BY DEF SwapInv, TypeOK
<1>2. proc[p].pc = "flushing" /\ proc[p].pc \in Holding /\ proc[p].pc \in Persisting
  BY DEF PersistPublish, At, Holding, Persisting
<1>3. /\ TreeFits(t) /\ JournalFits(t) /\ PersistFits(p) /\ next[t] = proc[p].to
      /\ proc[p].then \in {"staging", "accepted", "activating", "forward", "verifying",
                           "completing", "deleting"}
  BY <1>1, <1>2, HolderIsAlone DEF PersistFits
<1>4. PICK pc \in Pcs : pc = proc[p].then
  BY DEF SwapInv, TypeOK
<1>5. /\ Steps(p, pc) /\ proc'[p].intent = proc[p].intent
      /\ pc \in Holding \ (Persisting \cup Leaving)
  BY <1>3, <1>4, GotoEffect DEF PersistPublish, SwapInv, Holding, Persisting,
         Leaving
<1>6. /\ journal'[t] = proc[p].to /\ journal' \in [Transactions -> JournalStates \cup {"none"}]
      /\ \A u \in Transactions \ {t} : journal'[u] = journal[u]
      /\ next'[t] = "none" /\ next' \in [Transactions -> Candidates]
      /\ \A u \in Transactions \ {t} : next'[u] = next[u]
      /\ UNCHANGED <<tree, locks, expect, intact>>
  BY <1>1 DEF PersistPublish, SwapInv, TypeOK, Candidates
<1>7. TypeOK'
  BY <1>5, <1>6 DEF SwapInv, TypeOK, Steps, Process, tree, locks
<1>8. TreeFits(t)' /\ JournalFits(t)'
  BY <1>1, <1>3, <1>6 DEF TreeFits, JournalFits, LoadedJournal, JournalStates,
         PersistFits, Untouched, Staged, Moved, Active, Final, tree
<1>9. PhaseFits(p)'
  BY <1>1, <1>3, <1>4, <1>5, <1>6 DEF PhaseFits, PersistFits, Steps, Untouched,
         Staged, Moved, Active, Final, tree
<1>10. OnlyFilesOf(t)
  BY <1>6 DEF OnlyFilesOf, tree
<1> QED
  BY <1>1, <1>2, <1>3, <1>5, <1>6, <1>7, <1>8, <1>9, <1>10, HolderStep
  DEF locks, PersistFits

LEMMA RemoveJournalStep ==
    ASSUME SwapInv, NEW p \in Processes, RemoveJournal(p)
    PROVE  SwapInv'
<1>1. PICK t \in Transactions : t = proc[p].tx
  BY DEF SwapInv, TypeOK
<1>2. proc[p].pc = "removing" /\ proc[p].pc \in Holding
  BY DEF RemoveJournal, At, Holding, Persisting
<1>3. /\ TreeFits(t) /\ JournalFits(t) /\ PhaseFits(p)
      /\ next[t] = "none" /\ (Untouched(t) \/ Final(t))
  BY <1>1, <1>2, HolderIsAlone DEF PhaseFits, LoadedJournal, JournalStates
<1>4. /\ Steps(p, "releasing")
      /\ proc'[p].to = proc[p].to /\ proc'[p].then = proc[p].then
      /\ proc'[p].intent = proc[p].intent
  BY <1>1, <1>2, <1>3, GotoEffect, PersistThenEffect
  DEF RemoveJournal, SwapInv, Pcs, JournalStates
<1>5. /\ journal'[t] = "none" /\ journal' \in [Transactions -> JournalStates \cup {"none"}]
      /\ \A u \in Transactions \ {t} : journal'[u] = journal[u]
      /\ UNCHANGED <<tree, next, locks, expect, intact>>
  BY <1>1, <1>2, <1>3 DEF RemoveJournal, SwapInv, TypeOK
<1>6. TypeOK'
  BY <1>4, <1>5 DEF SwapInv, TypeOK, Steps, Process, Bundles, tree, store, locks
<1>7. TreeFits(t)' /\ JournalFits(t)'
  BY <1>1, <1>2, <1>3, <1>5 DEF TreeFits, JournalFits, LoadedJournal,
         JournalStates, IsForwardJournalState, Untouched, Staged, Moved,
         Active, Final, tree, store
<1>8. PhaseFits(p)'
  BY <1>1, <1>2, <1>3, <1>4, <1>5, <1>6 DEF PhaseFits, Steps, TreeFits,
         LoadedJournal, JournalStates, Untouched, Staged, Moved, Active, Final,
         tree, store
<1>9. OnlyFilesOf(t)
  BY <1>5 DEF OnlyFilesOf, tree, store
<1> QED
  BY <1>1, <1>2, <1>3, <1>4, <1>5, <1>6, <1>7, <1>8, <1>9, HolderStep
  DEF Holding, Persisting, Leaving, locks, Steps

LEMMA DeleteBackupStep ==
    ASSUME SwapInv, NEW p \in Processes, DeleteBackup(p)
    PROVE  SwapInv'
<1>1. PICK t \in Transactions : t = proc[p].tx
  BY DEF SwapInv, TypeOK
<1>2. proc[p].pc = "deleting" /\ proc[p].pc \in Holding
  BY DEF DeleteBackup, At, Holding, Persisting
<1>3. /\ TreeFits(t) /\ JournalFits(t) /\ PhaseFits(p)
      /\ next[t] = "none" /\ journal[t] = "completed"
  BY <1>1, <1>2, HolderIsAlone DEF PhaseFits, LoadedJournal, JournalStates
<1>4. /\ Steps(p, "removing")
      /\ proc'[p].to = proc[p].to /\ proc'[p].then = proc[p].then
      /\ proc'[p].intent = proc[p].intent
  BY <1>1, <1>2, <1>3, GotoEffect, PersistThenEffect
  DEF DeleteBackup, SwapInv, Pcs, JournalStates
<1>5. /\ backup'[t] = "none" /\ backup' \in [Transactions -> Bundles \cup {"none"}]
      /\ \A u \in Transactions \ {t} : backup'[u] = backup[u]
      /\ UNCHANGED <<target, stage, prepared, store, locks, expect, intact>>
  BY <1>1, <1>2, <1>3 DEF DeleteBackup, SwapInv, TypeOK
<1>6. TypeOK'
  BY <1>4, <1>5 DEF SwapInv, TypeOK, Steps, Process, Bundles, tree, store, locks
<1>7. TreeFits(t)' /\ JournalFits(t)'
  BY <1>1, <1>2, <1>3, <1>5 DEF TreeFits, JournalFits, LoadedJournal,
         JournalStates, IsForwardJournalState, Untouched, Staged, Moved,
         Active, Final, tree, store
<1>8. PhaseFits(p)'
  BY <1>1, <1>2, <1>3, <1>4, <1>5, <1>6 DEF PhaseFits, Steps, TreeFits,
         LoadedJournal, JournalStates, Untouched, Staged, Moved, Active, Final,
         tree, store
<1>9. OnlyFilesOf(t)
  BY <1>5 DEF OnlyFilesOf, tree, store
<1> QED
  BY <1>1, <1>2, <1>3, <1>4, <1>5, <1>6, <1>7, <1>8, <1>9, HolderStep
  DEF Holding, Persisting, Leaving, locks, Steps

-----------------------------------------------------------------------------
(* The owner, under the lock.                                              *)

LEMMA RenameStageStep ==
    ASSUME SwapInv, NEW t \in Transactions, RenameStage(t)
    PROVE  SwapInv'
<1>1. t \in Processes /\ t = proc[t].tx
  BY DEF SwapInv, LockHeld, Processes
<1>2. proc[t].pc = "staging" /\ proc[t].pc \in Holding
  BY DEF RenameStage, At, Holding, Persisting
<1>3. /\ TreeFits(t) /\ JournalFits(t) /\ PhaseFits(t)
      /\ next[t] = "none" /\ journal[t] = "prepared" /\ Untouched(t)
      /\ proc[t].intent = "complete"
  BY <1>1, <1>2, HolderIsAlone DEF PhaseFits, LoadedJournal, JournalStates,
         SwapInv, OwnerWaits, Leaving
<1>4. /\ Steps(t, "prepared")
      /\ proc'[t].to = proc[t].to /\ proc'[t].then = proc[t].then
      /\ proc'[t].intent = proc[t].intent
  BY <1>1, <1>2, <1>3, GotoEffect, PersistThenEffect
  DEF RenameStage, SwapInv, Pcs, JournalStates
<1>5. /\ ~stage'[t] /\ stage' \in [Transactions -> BOOLEAN]
      /\ \A u \in Transactions \ {t} : stage'[u] = stage[u]
      /\ prepared'[t] /\ prepared' \in [Transactions -> BOOLEAN]
      /\ \A u \in Transactions \ {t} : prepared'[u] = prepared[u]
      /\ UNCHANGED <<target, backup, store, locks, expect, intact>>
  BY <1>1, <1>2, <1>3 DEF RenameStage, SwapInv, TypeOK
<1>6. TypeOK'
  BY <1>4, <1>5 DEF SwapInv, TypeOK, Steps, Process, Bundles, tree, store, locks
<1>7. TreeFits(t)' /\ JournalFits(t)'
  BY <1>1, <1>2, <1>3, <1>5 DEF TreeFits, JournalFits, LoadedJournal,
         JournalStates, IsForwardJournalState, Untouched, Staged, Moved,
         Active, Final, tree, store
<1>8. PhaseFits(t)'
  BY <1>1, <1>2, <1>3, <1>4, <1>5, <1>6 DEF PhaseFits, Steps, TreeFits,
         LoadedJournal, JournalStates, Untouched, Staged, Moved, Active, Final,
         tree, store
<1>9. OnlyFilesOf(t)
  BY <1>5 DEF OnlyFilesOf, tree, store
<1> QED
  BY <1>1, <1>2, <1>3, <1>4, <1>5, <1>6, <1>7, <1>8, <1>9, HolderStep
  DEF Holding, Persisting, Leaving, locks, Steps, SwapInv, OwnerWaits

LEMMA MarkCommitAcceptedStep ==
    ASSUME SwapInv, NEW t \in Transactions, MarkCommitAccepted(t)
    PROVE  SwapInv'
<1>1. t \in Processes /\ t = proc[t].tx
  BY DEF SwapInv, LockHeld, Processes
<1>2. proc[t].pc = "prepared" /\ proc[t].pc \in Holding
  BY DEF MarkCommitAccepted, At, Holding, Persisting
<1>3. /\ TreeFits(t) /\ JournalFits(t) /\ PhaseFits(t)
      /\ next[t] = "none" /\ journal[t] = "prepared" /\ Staged(t)
      /\ proc[t].intent = "complete"
  BY <1>1, <1>2, HolderIsAlone DEF PhaseFits, LoadedJournal, JournalStates,
         SwapInv, OwnerWaits, Leaving
<1>4. /\ Steps(t, "creating")
      /\ proc'[t].to = "prepared" /\ proc'[t].then = "accepted"
      /\ proc'[t].intent = proc[t].intent
  BY <1>1, <1>2, <1>3, GotoEffect, PersistThenEffect
  DEF MarkCommitAccepted, SwapInv, Pcs, JournalStates
<1>5. /\ UNCHANGED <<tree, store, locks, expect, intact>>
  BY <1>1, <1>2, <1>3 DEF MarkCommitAccepted, SwapInv, TypeOK
<1>6. TypeOK'
  BY <1>4, <1>5 DEF SwapInv, TypeOK, Steps, Process, Bundles, tree, store, locks
<1>7. TreeFits(t)' /\ JournalFits(t)'
  BY <1>1, <1>2, <1>3, <1>5 DEF TreeFits, JournalFits, LoadedJournal,
         JournalStates, IsForwardJournalState, Untouched, Staged, Moved,
         Active, Final, tree, store
<1>8. PhaseFits(t)' /\ PersistFits(t)'
  BY <1>1, <1>2, <1>3, <1>4, <1>5, <1>6 DEF PhaseFits, PersistFits, Steps,
         TreeFits, LoadedJournal, JournalStates, Untouched, Staged, Moved,
         Active, Final, tree, store
<1>9. OnlyFilesOf(t)
  BY <1>5 DEF OnlyFilesOf, tree, store
<1> QED
  BY <1>1, <1>2, <1>3, <1>4, <1>5, <1>6, <1>7, <1>8, <1>9, HolderStep
  DEF Holding, Persisting, Leaving, locks, Steps, SwapInv, OwnerWaits

LEMMA CreateBackupStep ==
    ASSUME SwapInv, NEW t \in Transactions, CreateBackup(t)
    PROVE  SwapInv'
<1>1. t \in Processes /\ t = proc[t].tx
  BY DEF SwapInv, LockHeld, Processes
<1>2. proc[t].pc = "accepted" /\ proc[t].pc \in Holding
  BY DEF CreateBackup, At, Holding, Persisting
<1>3. /\ TreeFits(t) /\ JournalFits(t) /\ PhaseFits(t)
      /\ next[t] = "none" /\ journal[t] = "prepared" /\ Staged(t)
      /\ proc[t].intent = "complete"
  BY <1>1, <1>2, HolderIsAlone DEF PhaseFits, LoadedJournal, JournalStates,
         SwapInv, OwnerWaits, Leaving
<1>4. /\ Steps(t, "creating")
      /\ proc'[t].to = "backupCreated" /\ proc'[t].then = "activating"
      /\ proc'[t].intent = proc[t].intent
  BY <1>1, <1>2, <1>3, GotoEffect, PersistThenEffect
  DEF CreateBackup, SwapInv, Pcs, JournalStates
<1>5. /\ target' = "none" /\ backup'[t] = expect[t]
      /\ backup' \in [Transactions -> Bundles \cup {"none"}]
      /\ \A u \in Transactions \ {t} : backup'[u] = backup[u]
      /\ UNCHANGED <<stage, prepared, store, locks, expect, intact>>
  BY <1>1, <1>2, <1>3 DEF CreateBackup, SwapInv, TypeOK
<1>6. TypeOK'
  BY <1>4, <1>5 DEF SwapInv, TypeOK, Steps, Process, Bundles, tree, store, locks
<1>7. TreeFits(t)' /\ JournalFits(t)'
  BY <1>1, <1>2, <1>3, <1>5 DEF TreeFits, JournalFits, LoadedJournal,
         JournalStates, IsForwardJournalState, Untouched, Staged, Moved,
         Active, Final, tree, store
<1>8. PhaseFits(t)' /\ PersistFits(t)'
  BY <1>1, <1>2, <1>3, <1>4, <1>5, <1>6 DEF PhaseFits, PersistFits, Steps,
         TreeFits, LoadedJournal, JournalStates, Untouched, Staged, Moved,
         Active, Final, tree, store
<1>9. OnlyFilesOf(t)
  BY <1>5 DEF OnlyFilesOf, tree, store
<1> QED
  BY <1>1, <1>2, <1>3, <1>4, <1>5, <1>6, <1>7, <1>8, <1>9, HolderStep
  DEF Holding, Persisting, Leaving, locks, Steps, SwapInv, OwnerWaits

LEMMA ActivateTargetStep ==
    ASSUME SwapInv, NEW t \in Transactions, ActivateTarget(t)
    PROVE  SwapInv'
<1>1. t \in Processes /\ t = proc[t].tx
  BY DEF SwapInv, LockHeld, Processes
<1>2. proc[t].pc = "activating" /\ proc[t].pc \in Holding
  BY DEF ActivateTarget, At, Holding, Persisting
<1>3. /\ TreeFits(t) /\ JournalFits(t) /\ PhaseFits(t)
      /\ next[t] = "none" /\ journal[t] = "backupCreated" /\ Moved(t)
      /\ proc[t].intent = "complete"
  BY <1>1, <1>2, HolderIsAlone DEF PhaseFits, LoadedJournal, JournalStates,
         SwapInv, OwnerWaits, Leaving
<1>4. /\ Steps(t, "creating")
      /\ proc'[t].to = "targetActivated" /\ proc'[t].then = "verifying"
      /\ proc'[t].intent = proc[t].intent
  BY <1>1, <1>2, <1>3, GotoEffect, PersistThenEffect
  DEF ActivateTarget, SwapInv, Pcs, JournalStates
<1>5. /\ target' = t /\ ~prepared'[t] /\ prepared' \in [Transactions -> BOOLEAN]
      /\ \A u \in Transactions \ {t} : prepared'[u] = prepared[u]
      /\ UNCHANGED <<stage, backup, store, locks, expect, intact>>
  BY <1>1, <1>2, <1>3 DEF ActivateTarget, SwapInv, TypeOK
<1>6. TypeOK'
  BY <1>4, <1>5 DEF SwapInv, TypeOK, Steps, Process, Bundles, tree, store, locks
<1>7. TreeFits(t)' /\ JournalFits(t)'
  BY <1>1, <1>2, <1>3, <1>5 DEF TreeFits, JournalFits, LoadedJournal,
         JournalStates, IsForwardJournalState, Untouched, Staged, Moved,
         Active, Final, tree, store
<1>8. PhaseFits(t)' /\ PersistFits(t)'
  BY <1>1, <1>2, <1>3, <1>4, <1>5, <1>6 DEF PhaseFits, PersistFits, Steps,
         TreeFits, LoadedJournal, JournalStates, Untouched, Staged, Moved,
         Active, Final, tree, store
<1>9. OnlyFilesOf(t)
  BY <1>5 DEF OnlyFilesOf, tree, store
<1> QED
  BY <1>1, <1>2, <1>3, <1>4, <1>5, <1>6, <1>7, <1>8, <1>9, HolderStep
  DEF Holding, Persisting, Leaving, locks, Steps, SwapInv, OwnerWaits

LEMMA VerifyTargetStep ==
    ASSUME SwapInv, NEW t \in Transactions, VerifyTarget(t)
    PROVE  SwapInv'
<1>1. t \in Processes /\ t = proc[t].tx
  BY DEF SwapInv, LockHeld, Processes
<1>2. proc[t].pc = "verifying" /\ proc[t].pc \in Holding
  BY DEF VerifyTarget, At, Holding, Persisting
<1>3. /\ TreeFits(t) /\ JournalFits(t) /\ PhaseFits(t)
      /\ next[t] = "none" /\ journal[t] = "targetActivated" /\ Active(t)
      /\ proc[t].intent = "complete"
  BY <1>1, <1>2, HolderIsAlone DEF PhaseFits, LoadedJournal, JournalStates,
         SwapInv, OwnerWaits, Leaving
<1>4. /\ Steps(t, "creating")
      /\ proc'[t].to = "completed" /\ proc'[t].then = "deleting"
      /\ proc'[t].intent = proc[t].intent
  BY <1>1, <1>2, <1>3, GotoEffect, PersistThenEffect
  DEF VerifyTarget, SwapInv, Pcs, JournalStates
<1>5. /\ UNCHANGED <<tree, store, locks, expect, intact>>
  BY <1>1, <1>2, <1>3 DEF VerifyTarget, SwapInv, TypeOK
<1>6. TypeOK'
  BY <1>4, <1>5 DEF SwapInv, TypeOK, Steps, Process, Bundles, tree, store, locks
<1>7. TreeFits(t)' /\ JournalFits(t)'
  BY <1>1, <1>2, <1>3, <1>5 DEF TreeFits, JournalFits, LoadedJournal,
         JournalStates, IsForwardJournalState, Untouched, Staged, Moved,
         Active, Final, tree, store
<1>8. PhaseFits(t)' /\ PersistFits(t)'
  BY <1>1, <1>2, <1>3, <1>4, <1>5, <1>6 DEF PhaseFits, PersistFits, Steps,
         TreeFits, LoadedJournal, JournalStates, Untouched, Staged, Moved,
         Active, Final, tree, store
<1>9. OnlyFilesOf(t)
  BY <1>5 DEF OnlyFilesOf, tree, store
<1> QED
  BY <1>1, <1>2, <1>3, <1>4, <1>5, <1>6, <1>7, <1>8, <1>9, HolderStep
  DEF Holding, Persisting, Leaving, locks, Steps, SwapInv, OwnerWaits

LEMMA CancelPreparedStep ==
    ASSUME SwapInv, NEW t \in Transactions, CancelPrepared(t)
    PROVE  SwapInv'
<1>1. t \in Processes /\ t = proc[t].tx
  BY DEF SwapInv, LockHeld, Processes
<1>2. proc[t].pc \in {"prepared", "accepted"} /\ proc[t].pc \in Holding
  BY DEF CancelPrepared, At, Holding, Persisting
<1>3. /\ TreeFits(t) /\ JournalFits(t) /\ PhaseFits(t)
      /\ next[t] = "none" /\ journal[t] = "prepared" /\ Staged(t)
      /\ proc[t].intent = "complete"
  BY <1>1, <1>2, HolderIsAlone DEF PhaseFits, LoadedJournal, JournalStates,
         SwapInv, OwnerWaits, Leaving
<1>4. /\ Steps(t, "removing")
      /\ proc'[t].intent = "rollBack"
  <2> DEFINE x == [proc[t] EXCEPT !.pc = "removing", !.intent = "rollBack"]
  <2>1. proc \in [Processes -> Process] /\ proc[t] \in Process /\ "removing" \in Pcs
    BY <1>1 DEF SwapInv, TypeOK, Process, Pcs
  <2>2. x \in Process /\ x.pc = "removing" /\ x.tx = proc[t].tx /\ x.intent = "rollBack"
    BY <2>1 DEF Process, Intents
  <2>3. proc' = [proc EXCEPT ![t] = x]
    BY <1>1, <2>1 DEF CancelPrepared
  <2> HIDE DEF x
  <2> QED BY <1>1, <2>1, <2>2, <2>3 DEF Steps
<1>5. /\ stage'[t] /\ stage' \in [Transactions -> BOOLEAN]
      /\ \A u \in Transactions \ {t} : stage'[u] = stage[u]
      /\ ~prepared'[t] /\ prepared' \in [Transactions -> BOOLEAN]
      /\ \A u \in Transactions \ {t} : prepared'[u] = prepared[u]
      /\ target = expect[t]
      /\ UNCHANGED <<target, backup, store, locks, expect, intact>>
  BY <1>1, <1>2, <1>3 DEF CancelPrepared, SwapInv, TypeOK
<1>6. TypeOK'
  BY <1>4, <1>5 DEF SwapInv, TypeOK, Steps, Process, Bundles, tree, store, locks
<1>7. TreeFits(t)' /\ JournalFits(t)'
  BY <1>1, <1>2, <1>3, <1>5 DEF TreeFits, JournalFits, LoadedJournal,
         JournalStates, IsForwardJournalState, Untouched, Staged, Moved,
         Active, Final, tree, store
<1>8. PhaseFits(t)'
  BY <1>1, <1>2, <1>3, <1>4, <1>5, <1>6 DEF PhaseFits, Steps, TreeFits,
         LoadedJournal, JournalStates, Untouched, Staged, Moved, Active, Final,
         tree, store
<1>9. OnlyFilesOf(t)
  BY <1>5 DEF OnlyFilesOf, tree, store
<1> QED
  BY <1>1, <1>2, <1>3, <1>4, <1>5, <1>6, <1>7, <1>8, <1>9, HolderStep
  DEF Holding, Persisting, Leaving, locks, Steps, SwapInv, OwnerWaits

-----------------------------------------------------------------------------
(* Recovery, under the lock.                                               *)

LEMMA RecoverStageStep ==
    ASSUME SwapInv, NEW r \in Recoverers, RecoverStage(r)
    PROVE  SwapInv'
<1>1. r \in Processes /\ \E t \in Transactions : t = proc[r].tx
  BY DEF SwapInv, TypeOK, Processes
<1>t. PICK t \in Transactions : t = proc[r].tx
  BY <1>1
<1>2. proc[r].pc = "forward" /\ proc[r].pc \in Holding
  BY DEF RecoverStage, At, Holding, Persisting
<1>3. /\ TreeFits(t) /\ JournalFits(t) /\ PhaseFits(r)
      /\ next[t] = "none" /\ Untouched(t) /\ journal[t] = "prepared"
  BY <1>1, <1>t, <1>2, HolderIsAlone, SwapAssumption
  DEF PhaseFits, LoadedJournal, JournalStates, RecoverStage, TreeFits, SwapInv,
      TypeOK, Untouched, Staged, Moved, Active, Final
<1>4. /\ Steps(r, "forward")
      /\ proc'[r].to = proc[r].to /\ proc'[r].then = proc[r].then
      /\ proc'[r].intent = proc[r].intent
  BY <1>1, <1>2 DEF RecoverStage, SwapInv, TypeOK, Steps, Process
<1>5. /\ ~stage'[t] /\ stage' \in [Transactions -> BOOLEAN]
      /\ \A u \in Transactions \ {t} : stage'[u] = stage[u]
      /\ prepared'[t] /\ prepared' \in [Transactions -> BOOLEAN]
      /\ \A u \in Transactions \ {t} : prepared'[u] = prepared[u]
      /\ UNCHANGED <<target, backup, store, locks, expect, intact>>
  BY <1>1, <1>t, <1>2, <1>3 DEF RecoverStage, SwapInv, TypeOK
<1>6. TypeOK'
  BY <1>4, <1>5 DEF SwapInv, TypeOK, Steps, Process, Bundles, tree, store, locks
<1>7. TreeFits(t)' /\ JournalFits(t)'
  BY <1>1, <1>t, <1>2, <1>3, <1>5 DEF TreeFits, JournalFits, LoadedJournal,
         JournalStates, IsForwardJournalState, Untouched, Staged, Moved,
         Active, Final, tree, store
<1>8. PhaseFits(r)'
  BY <1>1, <1>t, <1>2, <1>3, <1>4, <1>5, <1>6
  DEF PhaseFits, Steps, TreeFits, LoadedJournal, JournalStates, Untouched,
      Staged, Moved, Active, Final, tree, store
<1>9. OnlyFilesOf(t)
  BY <1>5 DEF OnlyFilesOf, tree, store
<1> QED
  BY <1>1, <1>t, <1>2, <1>3, <1>4, <1>5, <1>6, <1>7, <1>8, <1>9, HolderStep
  DEF Holding, Persisting, Leaving, locks, Steps

LEMMA RecoverBackupStep ==
    ASSUME SwapInv, NEW r \in Recoverers, RecoverBackup(r)
    PROVE  SwapInv'
<1>1. r \in Processes /\ \E t \in Transactions : t = proc[r].tx
  BY DEF SwapInv, TypeOK, Processes
<1>t. PICK t \in Transactions : t = proc[r].tx
  BY <1>1
<1>2. proc[r].pc = "forward" /\ proc[r].pc \in Holding
  BY DEF RecoverBackup, At, Holding, Persisting
<1>3. /\ TreeFits(t) /\ JournalFits(t) /\ PhaseFits(r)
      /\ next[t] = "none" /\ Staged(t) /\ journal[t] = "prepared"
      /\ proc[r].intent = "complete"
  BY <1>1, <1>t, <1>2, HolderIsAlone, SwapAssumption
  DEF PhaseFits, LoadedJournal, JournalStates, RecoverBackup, TreeFits,
      SwapInv, TypeOK, Bundles, Untouched, Staged, Moved, Active, Final
<1>4. /\ Steps(r, "creating")
      /\ proc'[r].to = "backupCreated" /\ proc'[r].then = "forward"
      /\ proc'[r].intent = proc[r].intent
  BY <1>1, <1>t, <1>2, <1>3, GotoEffect, PersistThenEffect
  DEF RecoverBackup, SwapInv, Pcs, JournalStates
<1>5. /\ target' = "none" /\ backup'[t] = expect[t]
      /\ backup' \in [Transactions -> Bundles \cup {"none"}]
      /\ \A u \in Transactions \ {t} : backup'[u] = backup[u]
      /\ UNCHANGED <<stage, prepared, store, locks, expect, intact>>
  BY <1>1, <1>t, <1>2, <1>3 DEF RecoverBackup, SwapInv, TypeOK
<1>6. TypeOK'
  BY <1>4, <1>5 DEF SwapInv, TypeOK, Steps, Process, Bundles, tree, store, locks
<1>7. TreeFits(t)' /\ JournalFits(t)'
  BY <1>1, <1>t, <1>2, <1>3, <1>5 DEF TreeFits, JournalFits, LoadedJournal,
         JournalStates, IsForwardJournalState, Untouched, Staged, Moved,
         Active, Final, tree, store
<1>8. PhaseFits(r)' /\ PersistFits(r)'
  BY <1>1, <1>t, <1>2, <1>3, <1>4, <1>5, <1>6
  DEF PhaseFits, PersistFits, Steps, TreeFits, LoadedJournal, JournalStates,
      Untouched, Staged, Moved, Active, Final, tree, store
<1>9. OnlyFilesOf(t)
  BY <1>5 DEF OnlyFilesOf, tree, store
<1> QED
  BY <1>1, <1>t, <1>2, <1>3, <1>4, <1>5, <1>6, <1>7, <1>8, <1>9, HolderStep
  DEF Holding, Persisting, Leaving, locks, Steps

LEMMA RecoverTargetStep ==
    ASSUME SwapInv, NEW r \in Recoverers, RecoverTarget(r)
    PROVE  SwapInv'
<1>1. r \in Processes /\ \E t \in Transactions : t = proc[r].tx
  BY DEF SwapInv, TypeOK, Processes
<1>t. PICK t \in Transactions : t = proc[r].tx
  BY <1>1
<1>2. proc[r].pc = "forward" /\ proc[r].pc \in Holding
  BY DEF RecoverTarget, At, Holding, Persisting
<1>3. /\ TreeFits(t) /\ JournalFits(t) /\ PhaseFits(r)
      /\ next[t] = "none" /\ Moved(t) /\ journal[t] = "backupCreated"
      /\ proc[r].intent = "complete"
  BY <1>1, <1>t, <1>2, HolderIsAlone, SwapAssumption
  DEF PhaseFits, LoadedJournal, JournalStates, RecoverTarget, PreparedValid,
      TreeFits, SwapInv, TypeOK, Bundles, Untouched, Staged, Moved, Active,
      Final
<1>4. /\ Steps(r, "creating")
      /\ proc'[r].to = "targetActivated" /\ proc'[r].then = "forward"
      /\ proc'[r].intent = proc[r].intent
  BY <1>1, <1>t, <1>2, <1>3, GotoEffect, PersistThenEffect
  DEF RecoverTarget, SwapInv, Pcs, JournalStates
<1>5. /\ target' = t /\ ~prepared'[t] /\ prepared' \in [Transactions -> BOOLEAN]
      /\ \A u \in Transactions \ {t} : prepared'[u] = prepared[u]
      /\ UNCHANGED <<stage, backup, store, locks, expect, intact>>
  BY <1>1, <1>t, <1>2, <1>3 DEF RecoverTarget, SwapInv, TypeOK
<1>6. TypeOK'
  BY <1>4, <1>5 DEF SwapInv, TypeOK, Steps, Process, Bundles, tree, store, locks
<1>7. TreeFits(t)' /\ JournalFits(t)'
  BY <1>1, <1>t, <1>2, <1>3, <1>5 DEF TreeFits, JournalFits, LoadedJournal,
         JournalStates, IsForwardJournalState, Untouched, Staged, Moved,
         Active, Final, tree, store
<1>8. PhaseFits(r)' /\ PersistFits(r)'
  BY <1>1, <1>t, <1>2, <1>3, <1>4, <1>5, <1>6
  DEF PhaseFits, PersistFits, Steps, TreeFits, LoadedJournal, JournalStates,
      Untouched, Staged, Moved, Active, Final, tree, store
<1>9. OnlyFilesOf(t)
  BY <1>5 DEF OnlyFilesOf, tree, store
<1> QED
  BY <1>1, <1>t, <1>2, <1>3, <1>4, <1>5, <1>6, <1>7, <1>8, <1>9, HolderStep
  DEF Holding, Persisting, Leaving, locks, Steps

LEMMA LoadJournalFoundStep ==
    ASSUME SwapInv, NEW r \in Recoverers, LoadJournal(r),
           LoadedJournal(proc[r].tx) # "none", ~OwnerLives(proc[r].tx)
    PROVE  SwapInv'
<1>1. r \in Processes /\ \E t \in Transactions : t = proc[r].tx
  BY DEF SwapInv, TypeOK, Processes
<1>t. PICK t \in Transactions : t = proc[r].tx
  BY <1>1
<1>2. proc[r].pc = "loading" /\ proc[r].pc \in Holding
  BY DEF LoadJournal, At, Holding, Persisting
<1>3. /\ TreeFits(t) /\ JournalFits(t) /\ PhaseFits(r)
  BY <1>1, <1>t, <1>2, HolderIsAlone, SwapAssumption
  DEF PhaseFits, LoadedJournal, JournalStates
<1>4. /\ Steps(r, "matching")
      /\ proc'[r].to = proc[r].to /\ proc'[r].then = proc[r].then
      /\ proc'[r].intent = proc[r].intent
  BY <1>1, <1>t, <1>2, <1>3, GotoEffect, PersistThenEffect
  DEF LoadJournal, SwapInv, Pcs, JournalStates
<1>5. /\ journal'[t] = LoadedJournal(t) /\ journal'[t] # "none"
      /\ journal' \in [Transactions -> JournalStates \cup {"none"}]
      /\ \A u \in Transactions \ {t} : journal'[u] = journal[u]
      /\ next'[t] = "none" /\ next' \in [Transactions -> Candidates]
      /\ \A u \in Transactions \ {t} : next'[u] = next[u]
      /\ UNCHANGED <<tree, locks, expect, intact>>
  BY <1>1, <1>t, <1>2, <1>3 DEF LoadJournal, SwapInv, TypeOK, LoadedJournal,
         Candidates, locks
<1>6. TypeOK'
  BY <1>4, <1>5 DEF SwapInv, TypeOK, Steps, Process, Bundles, tree, store, locks
<1>7. TreeFits(t)' /\ JournalFits(t)'
  BY <1>1, <1>t, <1>2, <1>3, <1>5 DEF TreeFits, JournalFits, LoadedJournal,
         JournalStates, IsForwardJournalState, Untouched, Staged, Moved,
         Active, Final, tree, store
<1>8. PhaseFits(r)'
  BY <1>1, <1>t, <1>2, <1>3, <1>4, <1>5, <1>6
  DEF PhaseFits, Steps, TreeFits, LoadedJournal, JournalStates, Untouched,
      Staged, Moved, Active, Final, tree, store
<1>9. OnlyFilesOf(t)
  BY <1>5 DEF OnlyFilesOf, tree, store
<1> QED
  BY <1>1, <1>t, <1>2, <1>3, <1>4, <1>5, <1>6, <1>7, <1>8, <1>9, HolderStep
  DEF Holding, Persisting, Leaving, locks, Steps

LEMMA MatchForwardAheadStep ==
    ASSUME SwapInv, NEW r \in Recoverers, MatchForward(r),
           ObservationsMatch(proc[r].tx, journal[proc[r].tx]),
           backup[proc[r].tx] # "none" /\ journal[proc[r].tx] = "prepared"
    PROVE  SwapInv'
<1>1. r \in Processes /\ \E t \in Transactions : t = proc[r].tx
  BY DEF SwapInv, TypeOK, Processes
<1>t. PICK t \in Transactions : t = proc[r].tx
  BY <1>1
<1>2. proc[r].pc = "matching" /\ proc[r].intent = "complete" /\ proc[r].pc \in Holding
  BY DEF MatchForward, At, Holding, Persisting
<1>3. /\ TreeFits(t) /\ JournalFits(t) /\ PhaseFits(r)
      /\ next[t] = "none" /\ journal[t] = "prepared" /\ Moved(t)
  BY <1>1, <1>t, <1>2, HolderIsAlone, SwapAssumption
  DEF PhaseFits, LoadedJournal, JournalStates, MatchForward, TreeFits, SwapInv,
      TypeOK, Untouched, Staged, Moved, Active, Final
<1>4. /\ Steps(r, "creating")
      /\ proc'[r].to = "backupCreated" /\ proc'[r].then = "forward"
      /\ proc'[r].intent = proc[r].intent
  BY <1>1, <1>t, <1>2, <1>3, GotoEffect, PersistThenEffect
  DEF MatchForward, SwapInv, Pcs, JournalStates
<1>5. /\ UNCHANGED <<tree, store, locks, expect, intact>>
  BY <1>1, <1>t, <1>2, <1>3 DEF MatchForward, SwapInv, TypeOK, locks
<1>6. TypeOK'
  BY <1>4, <1>5 DEF SwapInv, TypeOK, Steps, Process, Bundles, tree, store, locks
<1>7. TreeFits(t)' /\ JournalFits(t)'
  BY <1>1, <1>t, <1>2, <1>3, <1>5 DEF TreeFits, JournalFits, LoadedJournal,
         JournalStates, IsForwardJournalState, Untouched, Staged, Moved,
         Active, Final, tree, store
<1>8. PhaseFits(r)' /\ PersistFits(r)'
  BY <1>1, <1>t, <1>2, <1>3, <1>4, <1>5, <1>6
  DEF PhaseFits, PersistFits, Steps, TreeFits, LoadedJournal, JournalStates,
      Untouched, Staged, Moved, Active, Final, tree, store
<1>9. OnlyFilesOf(t)
  BY <1>5 DEF OnlyFilesOf, tree, store
<1> QED
  BY <1>1, <1>t, <1>2, <1>3, <1>4, <1>5, <1>6, <1>7, <1>8, <1>9, HolderStep
  DEF Holding, Persisting, Leaving, locks, Steps

LEMMA MatchForwardLevelStep ==
    ASSUME SwapInv, NEW r \in Recoverers, MatchForward(r),
           ObservationsMatch(proc[r].tx, journal[proc[r].tx]),
           ~(backup[proc[r].tx] # "none" /\ journal[proc[r].tx] = "prepared")
    PROVE  SwapInv'
<1>1. r \in Processes /\ \E t \in Transactions : t = proc[r].tx
  BY DEF SwapInv, TypeOK, Processes
<1>t. PICK t \in Transactions : t = proc[r].tx
  BY <1>1
<1>2. proc[r].pc = "matching" /\ proc[r].intent = "complete" /\ proc[r].pc \in Holding
  BY DEF MatchForward, At, Holding, Persisting
<1>3. /\ TreeFits(t) /\ JournalFits(t) /\ PhaseFits(r)
      /\ next[t] = "none" /\ journal[t] # "none"
      /\ journal[t] = "prepared" => backup[t] = "none"
  BY <1>1, <1>t, <1>2, HolderIsAlone, SwapAssumption
  DEF PhaseFits, LoadedJournal, JournalStates
<1>4. /\ Steps(r, "forward")
      /\ proc'[r].to = proc[r].to /\ proc'[r].then = proc[r].then
      /\ proc'[r].intent = proc[r].intent
  BY <1>1, <1>t, <1>2, <1>3, GotoEffect, PersistThenEffect
  DEF MatchForward, SwapInv, Pcs, JournalStates
<1>5. /\ UNCHANGED <<tree, store, locks, expect, intact>>
  BY <1>1, <1>t, <1>2, <1>3 DEF MatchForward, SwapInv, TypeOK, locks
<1>6. TypeOK'
  BY <1>4, <1>5 DEF SwapInv, TypeOK, Steps, Process, Bundles, tree, store, locks
<1>7. TreeFits(t)' /\ JournalFits(t)'
  BY <1>1, <1>t, <1>2, <1>3, <1>5 DEF TreeFits, JournalFits, LoadedJournal,
         JournalStates, IsForwardJournalState, Untouched, Staged, Moved,
         Active, Final, tree, store
<1>8. PhaseFits(r)'
  BY <1>1, <1>t, <1>2, <1>3, <1>4, <1>5, <1>6
  DEF PhaseFits, Steps, TreeFits, LoadedJournal, JournalStates, Untouched,
      Staged, Moved, Active, Final, tree, store
<1>9. OnlyFilesOf(t)
  BY <1>5 DEF OnlyFilesOf, tree, store
<1> QED
  BY <1>1, <1>t, <1>2, <1>3, <1>4, <1>5, <1>6, <1>7, <1>8, <1>9, HolderStep
  DEF Holding, Persisting, Leaving, locks, Steps

LEMMA RecoverVerifiedDeletesStep ==
    ASSUME SwapInv, NEW r \in Recoverers, RecoverVerified(r),
           At(r, "forward"),
           backup[proc[r].tx] = "none" \/ journal[proc[r].tx] = "completed"
    PROVE  SwapInv'
<1>1. r \in Processes /\ \E t \in Transactions : t = proc[r].tx
  BY DEF SwapInv, TypeOK, Processes
<1>t. PICK t \in Transactions : t = proc[r].tx
  BY <1>1
<1>2. proc[r].pc = "forward" /\ proc[r].pc \in Holding
  BY DEF RecoverVerified, At, Holding, Persisting
<1>3. /\ TreeFits(t) /\ JournalFits(t) /\ PhaseFits(r)
      /\ next[t] = "none" /\ journal[t] = "completed"
      /\ proc[r].intent = "complete"
  BY <1>1, <1>t, <1>2, HolderIsAlone, SwapAssumption
  DEF PhaseFits, LoadedJournal, JournalStates, RecoverVerified, At, TreeFits,
      SwapInv, TypeOK, Bundles, Untouched, Staged, Moved, Active, Final
<1>4. /\ Steps(r, "deleting")
      /\ proc'[r].to = proc[r].to /\ proc'[r].then = proc[r].then
      /\ proc'[r].intent = proc[r].intent
  BY <1>1, <1>t, <1>2, <1>3, GotoEffect, PersistThenEffect
  DEF RecoverVerified, SwapInv, Pcs, JournalStates, At
<1>5. /\ UNCHANGED <<tree, store, locks, expect, intact>>
  BY <1>1, <1>t, <1>2, <1>3 DEF RecoverVerified, SwapInv, TypeOK
<1>6. TypeOK'
  BY <1>4, <1>5 DEF SwapInv, TypeOK, Steps, Process, Bundles, tree, store, locks
<1>7. TreeFits(t)' /\ JournalFits(t)'
  BY <1>1, <1>t, <1>2, <1>3, <1>5 DEF TreeFits, JournalFits, LoadedJournal,
         JournalStates, IsForwardJournalState, Untouched, Staged, Moved,
         Active, Final, tree, store
<1>8. PhaseFits(r)'
  BY <1>1, <1>t, <1>2, <1>3, <1>4, <1>5, <1>6
  DEF PhaseFits, Steps, TreeFits, LoadedJournal, JournalStates, Untouched,
      Staged, Moved, Active, Final, tree, store
<1>9. OnlyFilesOf(t)
  BY <1>5 DEF OnlyFilesOf, tree, store
<1> QED
  BY <1>1, <1>t, <1>2, <1>3, <1>4, <1>5, <1>6, <1>7, <1>8, <1>9, HolderStep
  DEF Holding, Persisting, Leaving, locks, Steps

LEMMA RecoverVerifiedActivatedStep ==
    ASSUME SwapInv, NEW r \in Recoverers, RecoverVerified(r),
           At(r, "forward"),
           ~(backup[proc[r].tx] = "none" \/ journal[proc[r].tx] = "completed")
    PROVE  SwapInv'
<1>1. r \in Processes /\ \E t \in Transactions : t = proc[r].tx
  BY DEF SwapInv, TypeOK, Processes
<1>t. PICK t \in Transactions : t = proc[r].tx
  BY <1>1
<1>2. proc[r].pc = "forward" /\ proc[r].pc \in Holding
  BY DEF RecoverVerified, At, Holding, Persisting
<1>3. /\ TreeFits(t) /\ JournalFits(t) /\ PhaseFits(r)
      /\ next[t] = "none" /\ journal[t] \in {"backupCreated", "targetActivated"} /\ Active(t)
      /\ proc[r].intent = "complete"
  BY <1>1, <1>t, <1>2, HolderIsAlone, SwapAssumption
  DEF PhaseFits, LoadedJournal, JournalStates, RecoverVerified, At, TreeFits,
      SwapInv, TypeOK, Bundles, Untouched, Staged, Moved, Active, Final
<1>4. /\ Steps(r, "creating")
      /\ proc'[r].to = "targetActivated" /\ proc'[r].then = "completing"
      /\ proc'[r].intent = proc[r].intent
  BY <1>1, <1>t, <1>2, <1>3, GotoEffect, PersistThenEffect
  DEF RecoverVerified, SwapInv, Pcs, JournalStates, At
<1>5. /\ UNCHANGED <<tree, store, locks, expect, intact>>
  BY <1>1, <1>t, <1>2, <1>3 DEF RecoverVerified, SwapInv, TypeOK
<1>6. TypeOK'
  BY <1>4, <1>5 DEF SwapInv, TypeOK, Steps, Process, Bundles, tree, store, locks
<1>7. TreeFits(t)' /\ JournalFits(t)'
  BY <1>1, <1>t, <1>2, <1>3, <1>5 DEF TreeFits, JournalFits, LoadedJournal,
         JournalStates, IsForwardJournalState, Untouched, Staged, Moved,
         Active, Final, tree, store
<1>8. PhaseFits(r)' /\ PersistFits(r)'
  BY <1>1, <1>t, <1>2, <1>3, <1>4, <1>5, <1>6
  DEF PhaseFits, PersistFits, Steps, TreeFits, LoadedJournal, JournalStates,
      Untouched, Staged, Moved, Active, Final, tree, store
<1>9. OnlyFilesOf(t)
  BY <1>5 DEF OnlyFilesOf, tree, store
<1> QED
  BY <1>1, <1>t, <1>2, <1>3, <1>4, <1>5, <1>6, <1>7, <1>8, <1>9, HolderStep
  DEF Holding, Persisting, Leaving, locks, Steps

LEMMA RecoverVerifiedCompletesStep ==
    ASSUME SwapInv, NEW r \in Recoverers, RecoverVerified(r),
           ~At(r, "forward")
    PROVE  SwapInv'
<1>1. r \in Processes /\ \E t \in Transactions : t = proc[r].tx
  BY DEF SwapInv, TypeOK, Processes
<1>t. PICK t \in Transactions : t = proc[r].tx
  BY <1>1
<1>2. proc[r].pc = "completing" /\ proc[r].pc \in Holding
  BY DEF RecoverVerified, At, Holding, Persisting
<1>3. /\ TreeFits(t) /\ JournalFits(t) /\ PhaseFits(r)
      /\ next[t] = "none" /\ journal[t] = "targetActivated" /\ Active(t)
      /\ proc[r].intent = "complete"
  BY <1>1, <1>t, <1>2, HolderIsAlone, SwapAssumption
  DEF PhaseFits, LoadedJournal, JournalStates
<1>4. /\ Steps(r, "creating")
      /\ proc'[r].to = "completed" /\ proc'[r].then = "deleting"
      /\ proc'[r].intent = proc[r].intent
  BY <1>1, <1>t, <1>2, <1>3, GotoEffect, PersistThenEffect
  DEF RecoverVerified, SwapInv, Pcs, JournalStates, At
<1>5. /\ UNCHANGED <<tree, store, locks, expect, intact>>
  BY <1>1, <1>t, <1>2, <1>3 DEF RecoverVerified, SwapInv, TypeOK
<1>6. TypeOK'
  BY <1>4, <1>5 DEF SwapInv, TypeOK, Steps, Process, Bundles, tree, store, locks
<1>7. TreeFits(t)' /\ JournalFits(t)'
  BY <1>1, <1>t, <1>2, <1>3, <1>5 DEF TreeFits, JournalFits, LoadedJournal,
         JournalStates, IsForwardJournalState, Untouched, Staged, Moved,
         Active, Final, tree, store
<1>8. PhaseFits(r)' /\ PersistFits(r)'
  BY <1>1, <1>t, <1>2, <1>3, <1>4, <1>5, <1>6
  DEF PhaseFits, PersistFits, Steps, TreeFits, LoadedJournal, JournalStates,
      Untouched, Staged, Moved, Active, Final, tree, store
<1>9. OnlyFilesOf(t)
  BY <1>5 DEF OnlyFilesOf, tree, store
<1> QED
  BY <1>1, <1>t, <1>2, <1>3, <1>4, <1>5, <1>6, <1>7, <1>8, <1>9, HolderStep
  DEF Holding, Persisting, Leaving, locks, Steps

LEMMA RollBackOwnedUndoesStep ==
    ASSUME SwapInv, NEW r \in Recoverers, RollBackOwned(r),
           RollBackTopology(proc[r].tx), intact[proc[r].tx]
    PROVE  SwapInv'
<1>1. r \in Processes /\ \E t \in Transactions : t = proc[r].tx
  BY DEF SwapInv, TypeOK, Processes
<1>t. PICK t \in Transactions : t = proc[r].tx
  BY <1>1
<1>2. proc[r].pc = "matching" /\ proc[r].intent = "rollBack" /\ proc[r].pc \in Holding
  BY DEF RollBackOwned, At, Holding, Persisting
<1>3. /\ TreeFits(t) /\ JournalFits(t) /\ PhaseFits(r)
      /\ next[t] = "none" /\ journal[t] = "prepared"
      /\ Untouched(t) \/ Staged(t)
      /\ target = expect[t]
  BY <1>1, <1>t, <1>2, HolderIsAlone, SwapAssumption
  DEF PhaseFits, LoadedJournal, JournalStates, RollBackOwned, RollBackTopology,
      TreeFits, SwapInv, TypeOK, Bundles, Untouched, Staged, Moved, Active,
      Final
<1>4. /\ Steps(r, "removing")
      /\ proc'[r].to = proc[r].to /\ proc'[r].then = proc[r].then
      /\ proc'[r].intent = proc[r].intent
  BY <1>1, <1>t, <1>2, <1>3, GotoEffect, PersistThenEffect
  DEF RollBackOwned, SwapInv, Pcs, JournalStates
<1>5. /\ stage'[t] /\ stage' \in [Transactions -> BOOLEAN]
      /\ \A u \in Transactions \ {t} : stage'[u] = stage[u]
      /\ ~prepared'[t] /\ prepared' \in [Transactions -> BOOLEAN]
      /\ \A u \in Transactions \ {t} : prepared'[u] = prepared[u]
      /\ UNCHANGED <<target, backup, store, locks, expect, intact>>
  BY <1>1, <1>t, <1>2, <1>3 DEF RollBackOwned, SwapInv, TypeOK, RollBackTree,
         locks
<1>6. TypeOK'
  BY <1>4, <1>5 DEF SwapInv, TypeOK, Steps, Process, Bundles, tree, store, locks
<1>7. TreeFits(t)' /\ JournalFits(t)'
  BY <1>1, <1>t, <1>2, <1>3, <1>5 DEF TreeFits, JournalFits, LoadedJournal,
         JournalStates, IsForwardJournalState, Untouched, Staged, Moved,
         Active, Final, tree, store
<1>8. PhaseFits(r)'
  BY <1>1, <1>t, <1>2, <1>3, <1>4, <1>5, <1>6
  DEF PhaseFits, Steps, TreeFits, LoadedJournal, JournalStates, Untouched,
      Staged, Moved, Active, Final, tree, store
<1>9. OnlyFilesOf(t)
  BY <1>5 DEF OnlyFilesOf, tree, store
<1> QED
  BY <1>1, <1>t, <1>2, <1>3, <1>4, <1>5, <1>6, <1>7, <1>8, <1>9, HolderStep
  DEF Holding, Persisting, Leaving, locks, Steps

-----------------------------------------------------------------------------
(* The lock: taking it, closing it, deleting it.                           *)

(* Who has just opened the lock knows nothing but that the files fit.      *)
LEMMA OpenLockStep ==
    ASSUME SwapInv, NEW r \in Recoverers, OpenLock(r)
    PROVE  SwapInv'
<1>1. r \in Processes /\ proc[r].pc = "opening" /\ proc[r].pc \notin Holding
  BY DEF OpenLock, At, Processes, Holding, Persisting
<1>2. Steps(r, "loading")
  BY <1>1, GotoEffect DEF OpenLock, SwapInv, Pcs
<1>3. lock.holder = "none" /\ lock.names = proc[r].tx /\ proc[r].tx \in Transactions
  BY <1>1 DEF OpenLock, HeldElsewhere, SwapInv, LockHeld, TypeOK
<1>4. /\ lock'.names = lock.names /\ lock'.holder = r
      /\ UNCHANGED <<tree, store, candidate, expect, intact>>
  BY DEF OpenLock, SwapInv, TypeOK
<1>5. TypeOK'
  <2>1. lock' \in [names : Transactions \cup {"none"}, holder : Processes \cup {"none"}]
    BY <1>1 DEF OpenLock, SwapInv, TypeOK
  <2> QED BY <1>2, <1>4, <2>1 DEF SwapInv, TypeOK, Steps, Process, tree, store
<1>6. LockHeld'
  BY <1>1, <1>2, <1>3, <1>4, SwapAssumption
  DEF SwapInv, LockHeld, Steps, Processes, Holding
<1>7. OwnerWaits'
  BY <1>2, <1>4, SwapAssumption DEF SwapInv, OwnerWaits, Steps, Processes, tree
<1>8. CleanOutside'
  BY <1>4 DEF SwapInv, CleanOutside, tree, store
<1>9. UnderLock'
  BY <1>4 DEF SwapInv, UnderLock, TreeFits, JournalFits, LoadedJournal,
         Untouched, Staged, Moved, Active, Final, tree, store
<1>10. HolderFits'
  <2>1. \A q \in Processes \ {r} : proc'[q].pc \notin Holding
    BY <1>2, <1>3, SwapAssumption DEF SwapInv, LockHeld, Steps, Processes
  <2>2. PhaseFits(r)'
    BY <1>2 DEF PhaseFits, Steps
  <2> QED BY <1>2, <2>1, <2>2 DEF HolderFits, Steps, Holding, Persisting
<1> QED BY <1>5, <1>6, <1>7, <1>8, <1>9, <1>10 DEF SwapInv

(* Nobody is under the lock when it is created, so the target is there and *)
(* the transaction has its stage and nothing else.                         *)
LEMMA AcquireLockStep ==
    ASSUME SwapInv, NEW t \in Transactions, AcquireLock(t)
    PROVE  SwapInv'
<1>1. /\ t \in Processes /\ t = proc[t].tx
      /\ proc[t].pc = "binding" /\ proc[t].intent = "complete" /\ stage[t]
  BY DEF AcquireLock, At, SwapInv, LockHeld, OwnerWaits, Processes, Early,
         Leaving
<1>2. lock.names = "none" /\ lock.holder = "none"
  BY DEF AcquireLock, Unlocked
<1>3. /\ ~prepared[t] /\ backup[t] = "none" /\ journal[t] = "none" /\ next[t] = "none"
      /\ target # "none"
  BY <1>2, SwapAssumption DEF SwapInv, CleanOutside
<1>4. /\ Steps(t, "creating") /\ proc'[t].to = "prepared" /\ proc'[t].then = "staging"
      /\ proc'[t].intent = "complete"
  BY <1>1, PersistThenEffect DEF AcquireLock, SwapInv, Pcs, JournalStates
<1>5. /\ lock'.names = t /\ lock'.holder = t
      /\ UNCHANGED <<tree, store, expect, intact>>
  BY DEF AcquireLock
<1>6. TypeOK'
  <2>1. /\ lock' \in [names : Transactions \cup {"none"}, holder : Processes \cup {"none"}]
        /\ candidate' \in [Transactions -> BOOLEAN]
    BY <1>1 DEF AcquireLock, SwapInv, TypeOK
  <2> QED BY <1>4, <1>5, <2>1 DEF SwapInv, TypeOK, Steps, Process, tree, store
<1>7. \A q \in Processes : proc[q].pc \notin Holding
  BY <1>2, SwapAssumption DEF SwapInv, LockHeld, Processes
<1>8. LockHeld'
  BY <1>1, <1>4, <1>5, <1>7, SwapAssumption
  DEF SwapInv, LockHeld, Steps, Processes, Holding, Persisting
<1>9. OwnerWaits'
  BY <1>1, <1>4, <1>5 DEF SwapInv, OwnerWaits, Steps, Processes, Early, tree
<1>10. CleanOutside'
  BY <1>2, <1>5, SwapAssumption DEF SwapInv, CleanOutside, tree, store
<1>11. Untouched(t)'
  BY <1>1, <1>3, <1>5 DEF Untouched, tree
<1>12. UnderLock'
  BY <1>3, <1>5, <1>11 DEF UnderLock, TreeFits, JournalFits, LoadedJournal,
         JournalStates, store
<1>13. HolderFits'
  <2>1. PhaseFits(t)' /\ PersistFits(t)'
    BY <1>1, <1>3, <1>4, <1>5, <1>11 DEF PhaseFits, PersistFits, Steps, store
  <2>2. \A q \in Processes \ {t} : proc'[q].pc \notin Holding
    BY <1>4, <1>7 DEF Steps
  <2> QED BY <2>1, <2>2 DEF HolderFits, Holding
<1> QED BY <1>6, <1>8, <1>9, <1>10, <1>12, <1>13 DEF SwapInv

LEMMA ReleaseLockStep ==
    ASSUME SwapInv, NEW p \in Processes, ReleaseLock(p)
    PROVE  SwapInv'
<1>1. PICK t \in Transactions : t = proc[p].tx
  BY DEF SwapInv, TypeOK
<1>2. proc[p].pc = "releasing" /\ proc[p].pc \in Holding
  BY DEF ReleaseLock, At, Holding
<1>3. journal[t] = "none" /\ next[t] = "none"
  BY <1>1, <1>2, HolderIsAlone DEF PhaseFits
<1>4. PICK pc \in Pcs \ Holding : /\ Steps(p, pc)
                                  /\ p \in Recoverers \/ pc \in {"failed", "ended"}
  <2> DEFINE pc == IF p \in Transactions THEN "ended" ELSE "idle"
             outcome == IF proc[p].intent = "complete" THEN "recovered" ELSE "rolledBack"
             x == [proc[p] EXCEPT !.pc = pc, !.outcome = outcome]
  <2>1. proc \in [Processes -> Process] /\ proc[p] \in Process
    BY DEF SwapInv, TypeOK, Process
  <2>2. /\ pc \in Pcs \ Holding /\ outcome \in Outcomes
        /\ p \in Recoverers \/ pc \in {"failed", "ended"}
    BY DEF Pcs, Holding, Persisting, Outcomes, Processes
  <2>3. proc' = [proc EXCEPT ![p] = x]
    BY <2>1 DEF ReleaseLock
  <2> HIDE DEF pc, outcome
  <2>4. x \in Process /\ x.pc = pc /\ x.tx = proc[p].tx
    BY <2>1, <2>2 DEF Process
  <2> HIDE DEF x
  <2> QED BY <2>1, <2>2, <2>3, <2>4 DEF Steps
<1>5. lock' = Unlocked /\ UNCHANGED <<tree, store, candidate, expect, intact>>
  BY DEF ReleaseLock
<1>6. TypeOK'
  BY <1>4, <1>5 DEF SwapInv, TypeOK, Steps, Process, Unlocked, tree, store
<1> QED
  BY <1>1, <1>2, <1>3, <1>4, <1>5, <1>6, UnlockStep
  DEF LoadedJournal, JournalStates, store

(* A destructor or the end of the owner's process.                         *)
LEMMA OwnerFailsStep ==
    ASSUME SwapInv, NEW t \in Transactions, OwnerFails(t)
    PROVE  SwapInv'
<1>1. t \in Processes /\ t = proc[t].tx
  BY DEF SwapInv, LockHeld, Processes
<1>2. /\ Steps(t, "failed") /\ "failed" \in Pcs \ Holding
      /\ UNCHANGED <<tree, store, expect, intact>>
  BY <1>1, GotoEffect DEF OwnerFails, SwapInv, Pcs, Holding, Persisting
<1>3. candidate' \in [Transactions -> BOOLEAN]
  BY DEF OwnerFails, SwapInv, TypeOK
<1>4. CASE lock.holder # t \/ KeepsLock(t) \/ At(t, "releasing")
  <2>1. lock' = IF lock.holder = t THEN [lock EXCEPT !.holder = "none"] ELSE lock
    BY <1>4 DEF OwnerFails
  <2>2. TypeOK'
    BY <1>2, <1>3, <2>1 DEF SwapInv, TypeOK, Steps, Process, tree, store
  <2> QED BY <1>1, <1>2, <2>1, <2>2, StoppedStep
<1>5. CASE lock.holder = t /\ ~KeepsLock(t) /\ ~At(t, "releasing")
  <2>1. lock' = Unlocked
    BY <1>5 DEF OwnerFails
  <2>2. TypeOK'
    BY <1>2, <1>3, <2>1 DEF SwapInv, TypeOK, Steps, Process, Unlocked, tree,
           store
  <2>3. proc[t].pc \in Holding
    BY <1>1, <1>5 DEF SwapInv, LockHeld
  <2>4. LoadedJournal(t) = "none" /\ next'[t] = "none"
    BY <1>2, <1>5 DEF KeepsLock, LoadedJournal, JournalStates, store
  <2> QED BY <1>1, <1>2, <2>1, <2>2, <2>3, <2>4, UnlockStep DEF store
<1> QED BY <1>4, <1>5

LEMMA OwnerDiesStep ==
    ASSUME SwapInv, NEW t \in Transactions, OwnerDies(t)
    PROVE  SwapInv'
<1>1. t \in Processes
  BY DEF Processes
<1>2. Steps(t, "ended") /\ "ended" \in Pcs \ Holding
  BY <1>1, GotoEffect DEF OwnerDies, SwapInv, Pcs, Holding, Persisting
<1>3. TypeOK'
  BY <1>2 DEF OwnerDies, SwapInv, TypeOK, Steps, Process, tree, store
<1> QED BY <1>1, <1>2, <1>3, StoppedStep DEF OwnerDies

(* Recovery gives an answer without having changed anything.               *)
LEMMA AnsweredStep ==
    ASSUME SwapInv, NEW r \in Recoverers, NEW outcome \in Outcomes, Answer(r, outcome),
           UNCHANGED <<tree, store, candidate, expect, intact>>
    PROVE  SwapInv'
<1>1. r \in Processes
  BY DEF Processes
<1>2. /\ Steps(r, "idle") /\ "idle" \in Pcs \ Holding
      /\ lock' = IF lock.holder = r THEN [lock EXCEPT !.holder = "none"] ELSE lock
  BY <1>1, AnswerEffect DEF SwapInv, Pcs, Holding, Persisting
<1>3. TypeOK'
  BY <1>2 DEF SwapInv, TypeOK, Steps, Process, tree, store
<1> QED BY <1>1, <1>2, <1>3, StoppedStep

(* Load has promoted what it found; without a journal the lock goes.       *)
LEMMA LoadJournalStep ==
    ASSUME SwapInv, NEW r \in Recoverers, LoadJournal(r)
    PROVE  SwapInv'
<1>1. r \in Processes /\ proc[r].pc = "loading" /\ proc[r].pc \in Holding
  BY DEF LoadJournal, At, Processes, Holding
<1>2. PICK t \in Transactions : t = proc[r].tx
  BY <1>1 DEF SwapInv, TypeOK
<1>3. TreeFits(t) /\ JournalFits(t)
  BY <1>1, <1>2, HolderIsAlone
<1>4. /\ journal'[t] = LoadedJournal(t)
      /\ journal' \in [Transactions -> JournalStates \cup {"none"}]
      /\ \A u \in Transactions \ {t} : journal'[u] = journal[u]
      /\ next'[t] = "none" /\ next' \in [Transactions -> Candidates]
      /\ \A u \in Transactions \ {t} : next'[u] = next[u]
      /\ UNCHANGED <<tree, candidate, expect, intact>>
  BY <1>2 DEF LoadJournal, SwapInv, TypeOK, LoadedJournal, Candidates
<1>5. "idle" \in Pcs \ Holding
  BY DEF Pcs, Holding, Persisting
<1>6. CASE LoadedJournal(t) = "none"
  <2>1. CleanInitialTopology(t)
    BY <1>3, <1>6, SwapAssumption DEF TreeFits, Untouched, Final,
           CleanInitialTopology
  <2>2. lock' = Unlocked
    BY <1>2, <1>6, <2>1 DEF LoadJournal
  <2>3. Steps(r, "idle")
    <3> DEFINE x == [proc[r] EXCEPT !.pc = "idle", !.outcome = "nothingToRecover"]
    <3>1. proc \in [Processes -> Process] /\ proc[r] \in Process
      BY <1>1 DEF SwapInv, TypeOK, Process
    <3>2. x \in Process /\ x.pc = "idle" /\ x.tx = proc[r].tx
      BY <1>5, <3>1 DEF Process, Outcomes
    <3>3. proc' = [proc EXCEPT ![r] = x]
      BY <1>2, <1>6, <2>1, <3>1 DEF LoadJournal
    <3> HIDE DEF x
    <3> QED BY <1>1, <3>1, <3>2, <3>3 DEF Steps
  <2>4. TypeOK'
    BY <1>4, <2>2, <2>3 DEF SwapInv, TypeOK, Steps, Process, Unlocked, tree
  <2>5. journal' = journal
    BY <1>2, <1>6 DEF LoadJournal, LoadedJournal, JournalStates, SwapInv, TypeOK
  <2> QED BY <1>1, <1>2, <1>4, <1>5, <1>6, <2>2, <2>3, <2>4, <2>5, UnlockStep
<1>7. CASE LoadedJournal(t) # "none" /\ OwnerLives(t)
  <2>1. Answer(r, "liveOwner") /\ "liveOwner" \in Outcomes
    BY <1>2, <1>7 DEF LoadJournal, Outcomes
  <2>2. /\ Steps(r, "idle")
        /\ lock' = IF lock.holder = r THEN [lock EXCEPT !.holder = "none"] ELSE lock
    BY <1>1, <2>1, AnswerEffect DEF SwapInv
  <2>3. TypeOK'
    BY <1>4, <2>2 DEF SwapInv, TypeOK, Steps, Process, tree
  <2>4. TreeFits(t)' /\ JournalFits(t)'
    BY <1>3, <1>4, <1>7 DEF TreeFits, JournalFits, LoadedJournal,
           JournalStates, Untouched, Staged, Moved, Active, Final, tree
  <2>5. OnlyFilesOf(t)
    BY <1>4 DEF OnlyFilesOf, tree
  <2> QED BY <1>1, <1>2, <1>4, <1>5, <2>2, <2>3, <2>4, <2>5, StoppedStep
<1>8. CASE LoadedJournal(t) # "none" /\ ~OwnerLives(t)
  BY <1>2, <1>8, LoadJournalFoundStep
<1> QED BY <1>6, <1>7, <1>8

-----------------------------------------------------------------------------
(* Recovery, and owners that do not have the lock.                         *)

LEMMA RecoveryKeepsInv ==
    ASSUME SwapInv, NEW r \in Recoverers, RecoveryStep(r) \/ RecoveryStops(r)
    PROVE  SwapInv'
<1> USE DEF Outcomes
<1>1. r \in Processes
  BY DEF Processes
<1>2. CASE BeginRecovery(r)
  <2>1. PICK t \in Transactions, intent \in Intents :
          proc' = [proc EXCEPT ![r] =
              [Fresh(t) EXCEPT !.pc = "opening", !.intent = intent,
                               !.saw = journal[t] # "none" \/ next[t] # "none"]]
    BY <1>2 DEF BeginRecovery
  <2> DEFINE x == [Fresh(t) EXCEPT !.pc = "opening", !.intent = intent,
                               !.saw = journal[t] # "none" \/ next[t] # "none"]
  <2>2. x \in Process /\ x.pc = "opening"
    BY DEF Fresh, Process, Pcs, JournalStates
  <2> HIDE DEF x
  <2>3. /\ proc' \in [Processes -> Process] /\ proc'[r].pc = "opening"
        /\ \A q \in Processes \ {r} : proc'[q] = proc[q]
        /\ UNCHANGED <<tree, store, locks, expect, intact>>
        /\ proc[r].pc = "idle"
    BY <1>1, <1>2, <2>1, <2>2 DEF BeginRecovery, SwapInv, TypeOK, Process, At, x
  <2>4. TypeOK'
    BY <2>3 DEF SwapInv, TypeOK, Process, tree, store, locks
  <2> QED
    BY <1>1, <2>3, <2>4, OutsideStep, SwapAssumption
    DEF locks, Holding, Persisting
<1>3. CASE CannotOpenLock(r)
  BY <1>3, AnsweredStep DEF CannotOpenLock
<1>4. CASE OpenLock(r)
  BY <1>4, OpenLockStep
<1>5. CASE LoadJournal(r)
  BY <1>5, LoadJournalStep
<1>6. CASE RejectJournal(r)
  BY <1>6, AnsweredStep DEF RejectJournal
<1>7. CASE MatchForward(r)
  BY <1>7, AnsweredStep, MatchForwardAheadStep, MatchForwardLevelStep
  DEF MatchForward
<1>8. CASE StopForward(r)
  BY <1>8, AnsweredStep DEF StopForward
<1>9. CASE RecoverStage(r) \/ RecoverBackup(r) \/ RecoverTarget(r)
  BY <1>9, RecoverStageStep, RecoverBackupStep, RecoverTargetStep
<1>10. CASE RecoverVerified(r)
  BY <1>10, RecoverVerifiedDeletesStep, RecoverVerifiedActivatedStep,
     RecoverVerifiedCompletesStep
<1>11. CASE RollBackOwned(r)
  BY <1>11, AnsweredStep, RollBackOwnedUndoesStep DEF RollBackOwned, tree
<1>12. CASE RecoveryStops(r)
  BY <1>12, AnsweredStep DEF RecoveryStops
<1> QED
  BY <1>2, <1>3, <1>4, <1>5, <1>6, <1>7, <1>8, <1>9, <1>10, <1>11, <1>12
  DEF RecoveryStep

LEMMA OwnerKeepsInv ==
    ASSUME SwapInv, NEW t \in Transactions,
           OwnerStep(t) \/ OwnerFails(t) \/ OwnerDies(t) \/ ChangePayload(t)
    PROVE  SwapInv'
<1>1. t \in Processes /\ proc[t].tx = t
  BY DEF SwapInv, LockHeld, Processes
<1>2. CASE \/ Construct(t) \/ ValidateBeforeLock(t) \/ CreateCandidate(t) \/ LockTaken(t)
  <2>1. proc[t].pc \in Early /\ proc[t].pc \notin Holding
    BY <1>2 DEF Construct, ValidateBeforeLock, CreateCandidate, LockTaken, At,
           Early, Holding, Persisting
  <2>2. PICK pc \in {"validating", "locking", "binding", "failed"} : Goto(t, pc)
    BY <1>2 DEF Construct, ValidateBeforeLock, CreateCandidate, LockTaken
  <2>3. pc \in Pcs \ Holding /\ pc \in Early \cup {"failed"}
    BY DEF Pcs, Holding, Persisting, Early
  <2>4. Steps(t, pc) /\ proc'[t].intent = proc[t].intent
    BY <1>1, <2>2, <2>3, GotoEffect DEF SwapInv
  <2>5. /\ UNCHANGED <<tree, store, lock, intact>>
        /\ candidate' \in [Transactions -> BOOLEAN]
        /\ expect' \in [Transactions -> Bundles]
        /\ \A u \in Transactions \ {t} : expect'[u] = expect[u]
    <3>1. CASE Construct(t)
      BY <3>1 DEF Construct, SwapInv, TypeOK, locks
    <3>2. CASE ValidateBeforeLock(t)
      BY <3>2 DEF ValidateBeforeLock, SwapInv, TypeOK, locks
    <3>3. CASE CreateCandidate(t) \/ LockTaken(t)
      BY <3>3 DEF CreateCandidate, LockTaken, SwapInv, TypeOK
    <3> QED BY <1>2, <3>1, <3>2, <3>3
  <2>6. lock.names # t
    BY <2>1 DEF SwapInv, OwnerWaits
  <2>7. TypeOK'
    BY <2>4, <2>5 DEF SwapInv, TypeOK, Steps, Process, tree, store
  <2> QED BY <1>1, <2>1, <2>3, <2>4, <2>5, <2>6, <2>7, OutsideStep DEF Steps
<1>3. CASE AcquireLock(t)
  BY <1>3, AcquireLockStep
<1>4. CASE \/ RenameStage(t) \/ MarkCommitAccepted(t) \/ CreateBackup(t)
           \/ ActivateTarget(t) \/ VerifyTarget(t) \/ CancelPrepared(t)
  BY <1>4, RenameStageStep, MarkCommitAcceptedStep, CreateBackupStep,
     ActivateTargetStep, VerifyTargetStep, CancelPreparedStep
<1>5. CASE OwnerFails(t) \/ OwnerDies(t)
  BY <1>5, OwnerFailsStep, OwnerDiesStep
<1>6. CASE ChangePayload(t)
  <2>1. /\ UNCHANGED <<tree, store, locks, expect, proc>>
        /\ intact' \in [Transactions -> BOOLEAN]
    BY <1>6 DEF ChangePayload, SwapInv, TypeOK
  <2> QED
    BY <2>1 DEF SwapInv, TypeOK, LockHeld, OwnerWaits, CleanOutside, UnderLock,
           HolderFits, TreeFits, JournalFits, LoadedJournal, PersistFits,
           PhaseFits, Untouched, Staged, Moved, Active, Final, tree, store,
           locks
<1> QED BY <1>2, <1>3, <1>4, <1>5, <1>6 DEF OwnerStep

LEMMA StoreKeepsInv ==
    ASSUME SwapInv, NEW p \in Processes, StoreStep(p)
    PROVE  SwapInv'
<1>1. CASE PersistWrite(p)
  BY <1>1, PersistWriteHalfStep, PersistWriteWholeStep
<1> QED
  BY <1>1, PersistCreateStep, PersistPublishStep, RemoveJournalStep,
     DeleteBackupStep, ReleaseLockStep
  DEF StoreStep

LEMMA InitSwapInv == Init => SwapInv
<1> SUFFICES ASSUME Init PROVE SwapInv
  OBVIOUS
<1>1. PICK t \in Transactions : t = CHOOSE u \in Transactions : TRUE
  BY SwapAssumption
<1>2. \A u \in Transactions : Fresh(u) \in Process /\ Fresh(u).pc = "idle"
        /\ Fresh(u).tx = u /\ Fresh(u).intent = "complete"
  BY DEF Fresh, Process, Pcs, JournalStates, Intents, Outcomes
<1>3. \A p \in Processes : proc[p] = Fresh(IF p \in Transactions THEN p ELSE t)
  BY <1>1 DEF Init
<1>4. /\ \A p \in Processes : proc[p] \in Process /\ proc[p].pc = "idle"
      /\ \A u \in Transactions : proc[u].tx = u /\ proc[u].intent = "complete"
  BY <1>2, <1>3 DEF Processes
<1>5. TypeOK
  <2>1. proc \in [Processes -> Process]
    BY <1>1, <1>2 DEF Init
  <2> QED
    BY <2>1 DEF Init, TypeOK, Process, Bundles, Candidates, JournalStates,
           Unlocked
<1>6. LockHeld
  <2>1. lock.names = "none" /\ lock.holder = "none"
    BY DEF Init, Unlocked
  <2>2. \A p \in Processes : p # "none" /\ proc[p].pc \notin Holding
    BY <1>4, SwapAssumption DEF Processes, Holding, Persisting
  <2> QED BY <1>4, <2>1, <2>2 DEF LockHeld
<1>7. OwnerWaits /\ CleanOutside /\ UnderLock
  BY <1>4, SwapAssumption DEF Init, OwnerWaits, CleanOutside, UnderLock,
         Unlocked, Processes
<1>8. HolderFits
  BY <1>4 DEF HolderFits, Holding, Persisting
<1> QED BY <1>5, <1>6, <1>7, <1>8 DEF SwapInv

LEMMA NextSwapInv == SwapInv /\ [Next]_vars => SwapInv'
<1> SUFFICES ASSUME SwapInv, [Next]_vars
             PROVE  SwapInv'
  OBVIOUS
<1>1. CASE Next
  BY <1>1, StoreKeepsInv, OwnerKeepsInv, RecoveryKeepsInv DEF Next
<1>2. CASE UNCHANGED vars
  BY <1>2 DEF vars, SwapInv, TypeOK, LockHeld, OwnerWaits, CleanOutside,
         UnderLock, HolderFits, TreeFits, JournalFits, LoadedJournal,
         PersistFits, PhaseFits, Untouched, Staged, Moved, Active, Final, tree,
         store, locks
<1> QED BY <1>1, <1>2

-----------------------------------------------------------------------------
(* The invariant holds in every behaviour of WindowsFileTransaction and    *)
(* WindowsRecoveryService, whatever dies and in whatever order they run.   *)
THEOREM SwapInvariance == Spec => []SwapInv
  BY InitSwapInv, NextSwapInv, PTL DEF Spec

(* Every variable keeps its type.                                          *)
THEOREM TypeCorrect == Spec => []TypeOK
<1>1. SwapInv => TypeOK BY DEF SwapInv
<1> QED BY <1>1, SwapInvariance, PTL

(* ReleaseLockExact and the destructor never leave a journal behind that   *)
(* no lock file leads recovery to.                                         *)
THEOREM JournalsAreUnderLock == Spec => []JournalIsUnderLock
<1>1. SwapInv => JournalIsUnderLock
  BY DEF SwapInv, CleanOutside, JournalIsUnderLock
<1> QED BY <1>1, SwapInvariance, PTL

(* ExecutePrepared empties the target name only where recovery, led there  *)
(* by the lock file, finds a journal that it can load and finish.          *)
THEOREM MissingTargetsAreCovered == Spec => []MissingTargetIsCovered
<1>1. SwapInv => MissingTargetIsCovered
  <2> SUFFICES ASSUME SwapInv, target = "none"
               PROVE  \E t \in Transactions :
                        /\ lock.names = t /\ prepared[t] /\ backup[t] = expect[t]
                        /\ journal[t] \in {"prepared", "backupCreated"}
                        /\ ~LoadFails(t)
    BY DEF MissingTargetIsCovered
  <2>1. PICK t \in Transactions : lock.names = t
    BY DEF SwapInv, CleanOutside, TypeOK
  <2>2. TreeFits(t) /\ JournalFits(t)
    BY <2>1 DEF SwapInv, UnderLock
  <2>3. Moved(t) /\ LoadedJournal(t) \in {"prepared", "backupCreated"}
    <3>1. LoadedJournal(t) \in JournalStates \cup {"none"}
      BY DEF LoadedJournal, SwapInv, TypeOK
    <3> QED
      BY <2>2, <3>1, SwapAssumption DEF TreeFits, JournalStates, Untouched,
             Staged, Moved, Active, Final
  <2>4. journal[t] # "none"
    BY <2>2, SwapAssumption DEF JournalFits, Untouched, Final
  <2> QED
    BY <2>1, <2>2, <2>3, <2>4 DEF JournalFits, LoadFails, LoadedJournal, Moved,
           IsForwardJournalState, JournalStates
<1> QED BY <1>1, SwapInvariance, PTL

(* When Remove has deleted the journal, the tree is what the caller was    *)
(* promised: the new bundle alone, or everything where it was.             *)
THEOREM SettledTreesAreFinal == Spec => []SettledTreeIsFinal
<1>1. SwapInv => SettledTreeIsFinal
  <2> SUFFICES ASSUME SwapInv, NEW p \in Processes, At(p, "releasing")
               PROVE  LET t == proc[p].tx IN
                      /\ ~prepared[t] /\ backup[t] = "none" /\ next[t] = "none"
                      /\ IF proc[p].intent = "complete" THEN target = t /\ ~stage[t]
                         ELSE target = expect[t] /\ stage[t]
    BY DEF SettledTreeIsFinal
  <2>1. PhaseFits(p) /\ proc[p].pc = "releasing"
    BY HolderIsAlone DEF At, Holding
  <2> QED BY <2>1 DEF PhaseFits, Untouched, Final
<1> QED BY <1>1, SwapInvariance, PTL

(* observations_match_state accepts every tree that a crash of the owner   *)
(* or of a recovery leaves, but for a torn first journal.                  *)
THEOREM CrashesAreRecoverable == Spec => []CrashesStayRecoverable
<1>1. SwapInv => CrashesStayRecoverable
  <2> SUFFICES ASSUME SwapInv, NEW t \in Transactions,
                      lock = [names |-> t, holder |-> "none"]
               PROVE  CASE LoadFails(t) -> next[t] = "partial" /\ CleanInitialTopology(t)
                        [] ~LoadFails(t) /\ LoadedJournal(t) = "none" ->
                              CleanInitialTopology(t)
                        [] OTHER -> ObservationsMatch(t, LoadedJournal(t))
    BY DEF CrashesStayRecoverable
  <2>1. TreeFits(t) /\ JournalFits(t)
    BY DEF SwapInv, UnderLock
  <2>2. LoadFails(t) => next[t] = "partial" /\ CleanInitialTopology(t)
    BY <2>1 DEF LoadFails, JournalFits, Untouched, CleanInitialTopology, Final
  <2>3. LoadedJournal(t) = "none" => CleanInitialTopology(t)
    BY <2>1, SwapAssumption DEF TreeFits, Untouched, Final, CleanInitialTopology
  <2>4. LoadedJournal(t) # "none" => ObservationsMatch(t, LoadedJournal(t))
    <3>1. LoadedJournal(t) \in JournalStates \cup {"none"}
      BY DEF LoadedJournal, SwapInv, TypeOK
    <3>2. expect[t] # "none" /\ t # "none"
      BY SwapAssumption DEF SwapInv, TypeOK, Bundles
    <3> QED
      BY <2>1, <3>1, <3>2 DEF TreeFits, ObservationsMatch, JournalStates,
             Untouched, Staged, Moved, Active, Final
  <2> QED BY <2>2, <2>3, <2>4
<1> QED BY <1>1, SwapInvariance, PTL

(* DeleteTreeRelative destroys the replaced bundle behind a durable        *)
(* "completed" alone, under the lock of the transaction that replaced it.  *)
THEOREM BackupsGoLast == Spec => BackupGoesLast
<1>1. ASSUME SwapInv, Next, NEW t \in Transactions, backup[t] # "none", backup'[t] = "none"
      PROVE  /\ target = t /\ journal[t] = "completed" /\ next[t] = "none"
             /\ proc[lock.holder].tx = t /\ lock.names = t
  <2>1. PICK p \in Processes : DeleteBackup(p)
    <3>1. target \in Bundles => target # "none"
      BY SwapAssumption DEF Bundles
    <3>2. ASSUME NEW p \in Processes, StoreStep(p)
          PROVE  DeleteBackup(p)
      BY <1>1, <3>2 DEF StoreStep, PersistCreate, PersistWrite, PersistPublish,
             RemoveJournal, ReleaseLock, tree
    <3>3. ASSUME NEW u \in Transactions,
                 OwnerStep(u) \/ OwnerFails(u) \/ OwnerDies(u) \/ ChangePayload(u)
          PROVE  FALSE
      <4>1. CASE CreateBackup(u)
        BY <1>1, <3>1, <4>1 DEF CreateBackup, SwapInv, TypeOK
      <4> QED
        BY <1>1, <3>3, <4>1 DEF OwnerStep, Construct, ValidateBeforeLock,
               CreateCandidate, AcquireLock, LockTaken, RenameStage,
               MarkCommitAccepted, ActivateTarget, VerifyTarget,
               CancelPrepared, OwnerFails, OwnerDies, ChangePayload, tree
    <3>4. ASSUME NEW r \in Recoverers, RecoveryStep(r) \/ RecoveryStops(r)
          PROVE  FALSE
      <4>1. CASE RecoverBackup(r)
        <5>1. proc[r].tx \in Transactions
          BY <1>1 DEF SwapInv, TypeOK, Processes
        <5> QED BY <1>1, <3>1, <4>1, <5>1 DEF RecoverBackup, SwapInv, TypeOK
      <4> QED
        BY <1>1, <3>4, <4>1 DEF RecoveryStep, BeginRecovery, CannotOpenLock,
               OpenLock, LoadJournal, RejectJournal, MatchForward, StopForward,
               RecoverStage, RecoverTarget, RecoverVerified, RollBackOwned,
               RecoveryStops, tree
    <3> QED BY <1>1, <3>2, <3>3, <3>4 DEF Next
  <2>2. proc[p].pc = "deleting" /\ proc[p].pc \in Holding
    BY <2>1 DEF DeleteBackup, At, Holding
  <2>3. t = proc[p].tx
    BY <1>1, <2>1 DEF DeleteBackup, SwapInv, TypeOK
  <2>4. journal[t] = "completed" /\ next[t] = "none" /\ lock.holder = p /\ lock.names = t
    BY <1>1, <2>2, <2>3, HolderIsAlone DEF PhaseFits
  <2>5. TreeFits(t)
    BY <1>1, <2>2, <2>3, HolderIsAlone
  <2>6. target = t
    BY <2>4, <2>5 DEF TreeFits, LoadedJournal, JournalStates, Active, Final
  <2> QED BY <2>3, <2>4, <2>6
<1>2. SwapInv /\ [Next]_vars =>
        [\A t \in Transactions : backup[t] # "none" /\ backup'[t] = "none" =>
           /\ target = t /\ journal[t] = "completed" /\ next[t] = "none"
           /\ proc[lock.holder].tx = t /\ lock.names = t]_vars
  BY <1>1
<1> QED BY <1>2, SwapInvariance, PTL DEF Spec, BackupGoesLast
=============================================================================
