--------------------------- MODULE ProcessProofs ---------------------------
(***************************************************************************)
(* Proofs about the running process: it alone owns the wallet's folder,    *)
(* and an answer from the network that comes late is taken only where it   *)
(* belongs and leaves nothing waiting.                                     *)
(*                                                                         *)
(* InstanceLock, for any number of processes and lock files.  Mutual       *)
(* exclusion does not follow from the lock alone, since a process may hold *)
(* the lock of a file that has been unlinked.  It follows from the two     *)
(* facts the code establishes one after the other: the process has locked  *)
(* the inode it opened (OwnsLock), and the path still named that inode     *)
(* afterwards (PathIsOwn), which only the owner of the lock can change     *)
(* from then on.                                                           *)
(*                                                                         *)
(* FeeEstimates: "MAX is being refined, so an estimate is under way" is    *)
(* inductive once it is said of the number that pendingMax holds, and that *)
(* the requests are numbered apart (FormHolds).                            *)
(*                                                                         *)
(* LiveWallet: a load that is waited for may lose its place to another     *)
(* number, another endpoint or another generation; LiveIInv says that the  *)
(* awaited loads are of the endpoint in use (AwaitedHere), that an update  *)
(* that was announced is shown, being read or queued (UpdateHolds), and    *)
(* that the list of endpoints has no repetition (GoodList).                *)
(*                                                                         *)
(* LateAnswers: requests carry the generation they were asked in, and one  *)
(* of this generation was asked of the endpoint in use (ReqsGood); the     *)
(* trace cache holds only what that endpoint answered (CacheGood).  Each   *)
(* operation of the pages is shown to be a move of a few queries (Moves),  *)
(* moves compose, and a new generation makes every request an earlier one  *)
(* (GoodRenewed).                                                          *)
(*                                                                         *)
(* VaultContainer: what opens was sealed, whatever was done to the files.  *)
(* A damaged file may be put together from any containers, but of cells    *)
(* that were sealed only, each with the header and the save it was sealed  *)
(* under (ContainerTypes); and a sealed container has the cells of each    *)
(* section where its directory says (Whole), which is an induction over    *)
(* the sections (FlattenFacts, OffsetFacts).                               *)
(***************************************************************************)
EXTENDS InstanceLock, LateAnswers, LiveWallet, FeeEstimates, VaultContainer,
        FiniteSetTheorems, SequenceTheorems, WellFoundedInduction, TLAPS

-----------------------------------------------------------------------------
(* InstanceLock: the parts of the inductive invariant.                     *)

\* An opened lock file is an inode; from try_lock to close it is locked.
OwnsLock ==
    \A p \in Proc : /\ pc[p] = "opened" => ino[p] \in Inode
                    /\ pc[p] \in Locked => ino[p] \in Inode /\ lock[ino[p]] = p

\* From the first check to the unlink the path names the file that is locked.
PathIsOwn == \A p \in Proc : pc[p] \in Validated => path = ino[p]

\* Only a running wallet, or one that was killed, has something to save and a
\* writer that would.
NothingLeftToSave ==
    \A p \in Proc : app[p].dirty /\ app[p].healthy => pc[p] \in {"running", "ended"}

\* The probe's files, step by step.
ProbeFiles ==
    \A p \in Proc : \/ p \in excused
                    \/ /\ <<p, "written">> \in residue => pc[p] = "created"
                       /\ <<p, "renamed">> \in residue => pc[p] = "renamed"

IInv == TypeOK /\ OwnsLock /\ PathIsOwn /\ NothingLeftToSave /\ ProbeFiles

-----------------------------------------------------------------------------
\* The initial state, in which no process has opened anything, satisfies it.
LEMMA InitIInv == Init => IInv
PROOF
<1> SUFFICES ASSUME Init PROVE IInv
  OBVIOUS
<1> USE DEF Init, Pcs, Locked, Validated, Holding, Probing
<1>1. TypeOK
  BY Bounds DEF TypeOK, NoApp, Apps
<1>2. OwnsLock /\ PathIsOwn
  BY DEF OwnsLock, PathIsOwn
<1>3. NothingLeftToSave
  BY DEF NothingLeftToSave, NoApp
<1>4. ProbeFiles
  BY DEF ProbeFiles
<1> QED BY <1>1, <1>2, <1>3, <1>4 DEF IInv

\* The places a step may put a process.
LEMMA Places == \A there \in {"opened", "locked", "checked", "truncated", "written", "rechecked",
                              "acquired", "created", "renamed", "unlinked", "running", "releasing",
                              "removed", "closing", "ended"} : there \in Pcs
  BY DEF Pcs, Locked, Validated, Holding, Probing

\* flush_save_blocking keeps the types of what it writes.
LEMMA FlushTypes ==
    ASSUME TypeOK, NEW p \in Proc, FlushSave(p)
    PROVE  app' \in [Proc -> Apps] /\ wrote' \in [Proc -> 0..MaxWrites]
PROOF
<1>0. app[p] \in Apps /\ wrote[p] \in 0..MaxWrites
  BY DEF TypeOK
<1>1. CASE app[p].dirty /\ app[p].healthy /\ wrote[p] < MaxWrites
           /\ wrote' = [wrote EXCEPT ![p] = @ + 1] /\ app' = [app EXCEPT ![p].dirty = FALSE]
  <2>1. wrote[p] + 1 \in 0..MaxWrites
    BY <1>0, <1>1, Bounds
  <2>2. [app[p] EXCEPT !.dirty = FALSE] \in Apps
    BY <1>0 DEF Apps
  <2> QED BY <2>1, <2>2, <1>1 DEF TypeOK
<1>2. CASE app' = [app EXCEPT ![p] = PersistenceFailed(@)] /\ UNCHANGED wrote
  <2>1. PersistenceFailed(app[p]) \in Apps
    BY <1>0 DEF PersistenceFailed, Apps
  <2> QED BY <2>1, <1>2 DEF TypeOK
<1>3. CASE UNCHANGED <<app, wrote>>
  BY <1>3 DEF TypeOK
<1> QED BY <1>1, <1>2, <1>3 DEF FlushSave

\* Types are preserved by every step of a process.
LEMMA StepTypeOK == ASSUME TypeOK, [Next]_vars PROVE TypeOK'
PROOF
<1> USE Places DEF TypeOK, GoTo
<1>1. ASSUME NEW p \in Proc, Open(p) PROVE TypeOK'
  BY <1>1, Bounds DEF Open
<1>2. ASSUME NEW p \in Proc, TryLock(p) PROVE TypeOK'
  BY <1>2 DEF TryLock
<1>3. ASSUME NEW p \in Proc, AlreadyRunning(p) PROVE TypeOK'
  BY <1>3, Bounds DEF AlreadyRunning
<1>4. ASSUME NEW p \in Proc, Check(p) \/ Recheck(p) \/ Acquired(p) \/ ReleaseFails(p) PROVE TypeOK'
  BY <1>4 DEF Check, Recheck, Acquired, ReleaseFails
<1>5. ASSUME NEW p \in Proc, Truncate(p) \/ WriteRecord(p) PROVE TypeOK'
  BY <1>5 DEF Truncate, WriteRecord
<1>6. ASSUME NEW p \in Proc, ProbeCreate(p) \/ ProbeRename(p) \/ ProbeUnlink(p) PROVE TypeOK'
  BY <1>6 DEF ProbeCreate, ProbeRename, ProbeUnlink
<1>7. ASSUME NEW p \in Proc, ProbeFails(p) PROVE TypeOK'
  BY <1>7 DEF ProbeFails, Cleaned
<1>8. ASSUME NEW p \in Proc, Runs(p) PROVE TypeOK'
  BY <1>8 DEF Runs, Apps
<1>9. ASSUME NEW p \in Proc, Edit(p) PROVE TypeOK'
  <2>1. [app[p] EXCEPT !.dirty = TRUE] \in Apps
    BY DEF Apps
  <2> QED BY <1>9, <2>1 DEF Edit
<1>10. ASSUME NEW p \in Proc, Save(p) \/ Shutdown(p) \/ Drop(p) PROVE TypeOK'
  BY <1>10, FlushTypes DEF Save, Shutdown, Drop
<1>11. ASSUME NEW p \in Proc, Unlink(p) PROVE TypeOK'
  BY <1>11, Bounds DEF Unlink
<1>12. ASSUME NEW p \in Proc, Closed(p)
       PROVE  ino' \in [Proc -> 0..MaxInode] /\ lock' \in [Inode -> Proc \cup {Nobody}]
  BY <1>12, Bounds DEF Closed
<1>13. ASSUME NEW p \in Proc, Close(p) PROVE TypeOK'
  BY <1>13, <1>12 DEF Close
<1>14. ASSUME NEW p \in Proc, Ends(p) PROVE TypeOK'
  BY <1>14, <1>12 DEF Ends
<1>15. CASE UNCHANGED vars
  BY <1>15 DEF vars
<1> QED BY <1>1, <1>2, <1>3, <1>4, <1>5, <1>6, <1>7, <1>8, <1>9, <1>10, <1>11, <1>13, <1>14, <1>15 DEF Next

-----------------------------------------------------------------------------
(* The lock and the path.                                                  *)

\* Whoever has a lock keeps it until it closes the file: a lock is taken only
\* when it is free, and closing a file frees only one's own.
LEMMA StepOwnsLock == ASSUME TypeOK, OwnsLock, [Next]_vars PROVE OwnsLock'
PROOF
<1> USE Bounds, NobodyIsNoProcess
    DEF TypeOK, OwnsLock, Inode, Pcs, Locked, Validated, Holding, Probing, GoTo, Closed
<1>1. ASSUME NEW p \in Proc, Open(p) PROVE OwnsLock'
  BY <1>1 DEF Open
<1>2. ASSUME NEW p \in Proc, TryLock(p) PROVE OwnsLock'
  BY <1>2 DEF TryLock
<1>3. ASSUME NEW p \in Proc,
             Check(p) \/ Truncate(p) \/ WriteRecord(p) \/ Recheck(p) \/ Acquired(p)
      PROVE OwnsLock'
  BY <1>3 DEF Check, Truncate, WriteRecord, Recheck, Acquired
<1>8. ASSUME NEW p \in Proc, AlreadyRunning(p) PROVE OwnsLock'
  BY <1>8 DEF AlreadyRunning
<1>4. ASSUME NEW p \in Proc,
             ProbeCreate(p) \/ ProbeRename(p) \/ ProbeUnlink(p) \/ Runs(p) \/ ProbeFails(p)
      PROVE OwnsLock'
  BY <1>4 DEF ProbeCreate, ProbeRename, ProbeUnlink, Runs, ProbeFails
<1>5. ASSUME NEW p \in Proc,
             Edit(p) \/ Save(p) \/ Shutdown(p) \/ Unlink(p) \/ ReleaseFails(p) \/ Drop(p)
      PROVE OwnsLock'
  BY <1>5 DEF Edit, Save, Shutdown, Unlink, ReleaseFails, Drop
<1>6. ASSUME NEW p \in Proc, Close(p) \/ Ends(p) PROVE OwnsLock'
  BY <1>6 DEF Close, Ends
<1>7. CASE UNCHANGED vars
  BY <1>7 DEF vars
<1> QED BY <1>1, <1>2, <1>3, <1>4, <1>5, <1>6, <1>7, <1>8 DEF Next

\* Two processes that have validated their lock file are one: the path names
\* the file of both, and a file has one lock.
LEMMA ValidatedIsOne ==
    ASSUME OwnsLock, PathIsOwn, NEW p \in Proc, NEW other \in Proc,
           pc[p] \in Validated, pc[other] \in Validated
    PROVE  p = other
  BY DEF OwnsLock, PathIsOwn, Locked

\* The path changes only where no other process has validated it.
LEMMA StepPathIsOwn == ASSUME TypeOK, OwnsLock, PathIsOwn, [Next]_vars PROVE PathIsOwn'
PROOF
<1> USE DEF PathIsOwn, TypeOK, Inode, Pcs, Locked, Validated, Holding, Probing, GoTo, Closed
<1>1. ASSUME NEW p \in Proc, Open(p) PROVE PathIsOwn'
  BY <1>1, Bounds DEF Open, OwnsLock
<1>2. ASSUME NEW p \in Proc, Unlink(p) PROVE PathIsOwn'
  BY <1>2, ValidatedIsOne DEF Unlink
<1>3. ASSUME NEW p \in Proc, Check(p) PROVE PathIsOwn'
  BY <1>3 DEF Check, SafeLockIdentity
<1>4. ASSUME NEW p \in Proc,
             TryLock(p) \/ AlreadyRunning(p) \/ Truncate(p) \/ WriteRecord(p) \/ Recheck(p) \/ Acquired(p)
      PROVE PathIsOwn'
  BY <1>4 DEF TryLock, AlreadyRunning, Truncate, WriteRecord, Recheck, Acquired
<1>5. ASSUME NEW p \in Proc,
             ProbeCreate(p) \/ ProbeRename(p) \/ ProbeUnlink(p) \/ Runs(p) \/ ProbeFails(p)
      PROVE PathIsOwn'
  BY <1>5 DEF ProbeCreate, ProbeRename, ProbeUnlink, Runs, ProbeFails
<1>6. ASSUME NEW p \in Proc,
             Edit(p) \/ Save(p) \/ Shutdown(p) \/ ReleaseFails(p) \/ Drop(p) \/ Close(p) \/ Ends(p)
      PROVE PathIsOwn'
  BY <1>6 DEF Edit, Save, Shutdown, ReleaseFails, Drop, Close, Ends
<1>7. CASE UNCHANGED vars
  BY <1>7 DEF vars
<1> QED BY <1>1, <1>2, <1>3, <1>4, <1>5, <1>6, <1>7 DEF Next

-----------------------------------------------------------------------------
(* The saves and the probe.                                                *)

\* A save that was tried leaves nothing to save, or a writer that refuses.
LEMMA FlushLeavesNothing ==
    ASSUME TypeOK, NEW p \in Proc, FlushSave(p)
    PROVE  /\ ~(app'[p].dirty /\ app'[p].healthy)
           /\ \A other \in Proc \ {p} : app'[other] = app[other]
PROOF
<1>1. CASE app' = [app EXCEPT ![p].dirty = FALSE]
  BY <1>1 DEF TypeOK, Apps
<1>2. CASE app' = [app EXCEPT ![p] = PersistenceFailed(@)]
  BY <1>2 DEF TypeOK, Apps, PersistenceFailed
<1>3. CASE ~app[p].dirty /\ UNCHANGED app
  BY <1>3
<1> QED BY <1>1, <1>2, <1>3 DEF FlushSave

\* Leaving "running" takes a save: nothing is left to save elsewhere.
LEMMA StepNothingLeft ==
    ASSUME TypeOK, NothingLeftToSave, [Next]_vars PROVE NothingLeftToSave'
PROOF
<1> USE DEF NothingLeftToSave, TypeOK, GoTo
<1>1. ASSUME NEW p \in Proc, Save(p) \/ Shutdown(p) \/ Drop(p) PROVE NothingLeftToSave'
  BY <1>1, FlushLeavesNothing DEF Save, Shutdown, Drop
<1>2. ASSUME NEW p \in Proc, Runs(p) \/ Edit(p) PROVE NothingLeftToSave'
  BY <1>2 DEF Runs, Edit
<1>3. ASSUME NEW p \in Proc,
             Open(p) \/ TryLock(p) \/ AlreadyRunning(p) \/ Check(p) \/ Truncate(p) \/ WriteRecord(p)
                 \/ Recheck(p) \/ Acquired(p)
      PROVE NothingLeftToSave'
  BY <1>3 DEF Open, TryLock, AlreadyRunning, Check, Truncate, WriteRecord, Recheck, Acquired
<1>4. ASSUME NEW p \in Proc,
             ProbeCreate(p) \/ ProbeRename(p) \/ ProbeUnlink(p) \/ ProbeFails(p) \/ Unlink(p)
                 \/ ReleaseFails(p) \/ Close(p) \/ Ends(p)
      PROVE NothingLeftToSave'
  BY <1>4
  DEF ProbeCreate, ProbeRename, ProbeUnlink, ProbeFails, Unlink, ReleaseFails, Close, Ends, Probing
<1>5. CASE UNCHANGED vars
  BY <1>5 DEF vars
<1> QED BY <1>1, <1>2, <1>3, <1>4, <1>5 DEF Next

\* A probe file is renamed, unlinked or cleaned by the step that leaves its
\* place, or its process is excused.
LEMMA StepProbeFiles == ASSUME TypeOK, ProbeFiles, [Next]_vars PROVE ProbeFiles'
PROOF
<1> USE DEF ProbeFiles, TypeOK, GoTo
<1>1. ASSUME NEW p \in Proc, ProbeCreate(p) PROVE ProbeFiles'
  BY <1>1 DEF ProbeCreate
<1>2. ASSUME NEW p \in Proc, ProbeRename(p) PROVE ProbeFiles'
  BY <1>2 DEF ProbeRename
<1>3. ASSUME NEW p \in Proc, ProbeUnlink(p) PROVE ProbeFiles'
  BY <1>3 DEF ProbeUnlink
<1>4. ASSUME NEW p \in Proc, ProbeFails(p) PROVE ProbeFiles'
  BY <1>4 DEF ProbeFails, Cleaned
<1>5. ASSUME NEW p \in Proc, Ends(p) PROVE ProbeFiles'
  BY <1>5 DEF Ends, Probing
<1>6. ASSUME NEW p \in Proc,
             Open(p) \/ TryLock(p) \/ AlreadyRunning(p) \/ Check(p) \/ Truncate(p) \/ WriteRecord(p)
                 \/ Recheck(p) \/ Acquired(p)
      PROVE ProbeFiles'
  BY <1>6 DEF Open, TryLock, AlreadyRunning, Check, Truncate, WriteRecord, Recheck, Acquired
<1>7. ASSUME NEW p \in Proc,
             Runs(p) \/ Edit(p) \/ Save(p) \/ Shutdown(p) \/ Unlink(p) \/ ReleaseFails(p) \/ Close(p)
                 \/ Drop(p)
      PROVE ProbeFiles'
  BY <1>7 DEF Runs, Edit, Save, Shutdown, Unlink, ReleaseFails, Close, Drop
<1>8. CASE UNCHANGED vars
  BY <1>8 DEF vars
<1> QED BY <1>1, <1>2, <1>3, <1>4, <1>5, <1>6, <1>7, <1>8 DEF Next

-----------------------------------------------------------------------------
(* The theorems.                                                           *)

\* The conjunction is inductive.
LEMMA InductiveIInv == Spec => []IInv
PROOF
<1>1. IInv /\ [Next]_vars => IInv'
  BY StepTypeOK, StepOwnsLock, StepPathIsOwn, StepNothingLeft, StepProbeFiles DEF IInv
<1> QED BY <1>1, InitIInv, PTL DEF Spec

\* At most one process owns the folder, and one that runs in it or has left it
\* has left no probe file, whatever number of processes starts, ends or dies in
\* whatever order: acquire_single_instance_lock, release_inner, probe_storage_root.
THEOREM FolderIsOwnedAlways == Spec => []FolderIsOwned
PROOF
<1>1. IInv => FolderIsOwned
  <2> SUFFICES ASSUME IInv PROVE FolderIsOwned
    OBVIOUS
  <2>1. MutualExclusion
    BY ValidatedIsOne DEF IInv, MutualExclusion, Validated
  <2>2. ProbeLeavesNothing
    BY DEF IInv, ProbeFiles, ProbeLeavesNothing
  <2> QED BY <2>1, <2>2 DEF IInv, FolderIsOwned
<1> QED BY <1>1, InductiveIInv, PTL

\* No process writes the wallet's files without owning the folder: the save of
\* the controller's Drop, after the lock was given up, finds nothing to save or
\* a poisoned writer.
THEOREM WritesHoldLockAlways == Spec => WritesHoldLock
PROOF
<1>1. ASSUME IInv, [Next]_vars PROVE [\A p \in Proc : wrote'[p] # wrote[p] => pc[p] \in Holding]_vars
  <2>1. ASSUME NEW other \in Proc, Save(other) \/ Shutdown(other)
        PROVE \A p \in Proc : wrote'[p] # wrote[p] => pc[p] \in Holding
    BY <2>1, <1>1 DEF IInv, TypeOK, Save, Shutdown, FlushSave, Holding
  <2>2. ASSUME NEW other \in Proc, Drop(other) PROVE UNCHANGED wrote
    BY <2>2, <1>1 DEF IInv, NothingLeftToSave, Drop, FlushSave
  <2>3. ASSUME NEW other \in Proc, Next, ~Save(other), ~Shutdown(other), ~Drop(other), wrote'[other] # wrote[other]
        PROVE \E r \in Proc \ {other} : Save(r) \/ Shutdown(r) \/ Drop(r)
    BY <2>3 DEF Next, Open, TryLock, AlreadyRunning, Check, Truncate, WriteRecord, Recheck, Acquired,
        ProbeCreate, ProbeRename, ProbeUnlink, Runs, ProbeFails, Edit, Unlink, ReleaseFails, Close, Ends
  <2> QED BY <1>1, <2>1, <2>2, <2>3
<1> QED BY <1>1, InductiveIInv, PTL DEF Spec, WritesHoldLock

\* The folder has one owner and only the owner writes, for any number of
\* processes that start, fail, end or are killed at any step
\* (acquire_single_instance_lock, release_inner, Drop).
THEOREM FolderIsSoundAlways == Spec => FolderIsSound
  BY FolderIsOwnedAlways, WritesHoldLockAlways, PTL DEF FolderIsSound

-----------------------------------------------------------------------------
(* FeeEstimates: the send form.                                            *)

\* The estimate waited for is under way.
Running(t) == \E r \in t.running : r.seq = t.seq

\* The refinement of MAX belongs to an amount that MAX filled in, of the native
\* asset; estimates are numbered.
FormHolds(t) ==
    /\ t.refining \/ t.queued => t.native
    /\ t.refining \/ t.queued \/ t.pendingMax # 0 => t.maxFilled
    /\ t.estimating => Running(t)
    /\ \A r1, r2 \in t.running : r1.seq = r2.seq => r1 = r2
    /\ \A r \in t.running : r.seq <= t.seq /\ (r.seq = t.pendingMax => r.max)
    /\ t.pendingMax <= t.seq

\* A refinement of MAX with a recipient is served.
RefinementHolds(t) ==
    t.refining /\ t.recipient =>
        /\ Running(t) /\ (t.queued \/ t.pendingMax = t.seq)
        /\ t.estimating \/ (t.balance = 0 /\ ~Frozen(t))

\* Zero stands for "none" in the sequence numbers, balances and fees.
LEMMA Absent == 0 \in Seqs /\ 0 \in Known(Balances) /\ 0 \in Known(Fees)
  BY FeeConstants DEF Seqs, Known

\* The fields of the send form, one by one.
LEMMA FormTypes ==
    ASSUME NEW t \in FeeForm
    PROVE  /\ t.seq \in Nat /\ t.pendingMax \in Nat /\ t.gen \in Gens /\ t.seq \in Seqs
           /\ t.running \in SUBSET Requests
           /\ \A r \in t.running : r \in Requests /\ r.seq \in Nat /\ r.seq # 0 /\ r.max \in BOOLEAN
  <1>1. t.seq \in Seqs /\ t.pendingMax \in Seqs /\ t.running \in SUBSET Requests /\ t.gen \in Gens
    BY Zenon DEF FeeForm
  <1>2. \A n \in Seqs : n \in Nat
    BY FeeConstants DEF Seqs
  <1>3. \A r \in Requests : r.seq \in Nat /\ r.seq # 0 /\ r.max \in BOOLEAN
    BY FeeConstants DEF Requests
  <1> QED BY <1>1, <1>2, <1>3, Zenon

\* clear_pending_max gives the refinement of MAX up and touches nothing else.
LEMMA ClearFacts ==
    ASSUME NEW t \in FeeForm, NEW u, u = ClearPendingMax(t)
    PROVE  /\ u \in FeeForm
           /\ u.pendingMax = 0 /\ ~u.queued /\ ~u.refining /\ u.maxBalance = 0
           /\ u.amount = t.amount /\ u.recipient = t.recipient /\ u.native = t.native
           /\ u.balance = t.balance /\ u.fee = t.fee /\ u.estimating = t.estimating /\ u.seq = t.seq
           /\ u.running = t.running /\ u.gen = t.gen /\ u.maxFilled = t.maxFilled
           /\ u.auth = t.auth /\ u.sending = t.sending /\ u.timer = t.timer /\ u.stale = t.stale
  BY Absent, Zenon DEF FeeForm, ClearPendingMax

\* schedule_fee_estimate gives the refinement up and restarts the timer.
LEMMA ScheduleFacts ==
    ASSUME NEW t \in FeeForm, NEW u, u = Schedule(t)
    PROVE  /\ u \in FeeForm
           /\ u.pendingMax = 0 /\ ~u.queued /\ ~u.refining
           /\ u.amount = t.amount /\ u.recipient = t.recipient /\ u.native = t.native
           /\ u.balance = t.balance /\ u.estimating = t.estimating /\ u.seq = t.seq
           /\ u.running = t.running /\ u.gen = t.gen /\ u.maxFilled = t.maxFilled
           /\ u.auth = t.auth /\ u.sending = t.sending
  BY Absent, Zenon DEF FeeForm, Schedule, ClearPendingMax

\* What FormHolds says after the refinement is given up.
LEMMA WithoutRefinement ==
    ASSUME NEW t \in FeeForm, NEW u \in FeeForm, FormHolds(t),
           u.running = t.running, u.seq = t.seq, u.estimating => t.estimating,
           u.pendingMax = 0, ~u.queued, ~u.refining
    PROVE  FormHolds(u) /\ RefinementHolds(u)
  <1>1. Running(t) = Running(u)
    BY DEF Running
  <1>2. \A r \in t.running : r.seq # 0 /\ r.seq <= t.seq
    BY FormTypes DEF FormHolds
  <1>3. 0 <= t.seq
    BY FormTypes
  <1> QED BY <1>1, <1>2, <1>3, Zenon DEF FormHolds, RefinementHolds

\* spawn_fee_estimate refuses, waits, or starts the next estimate.
LEMMA SpawnFacts ==
    ASSUME NEW t \in FeeForm, NEW m \in BOOLEAN, NEW u, u = Spawn(t, m), t.seq + 1 \in Seqs
    PROVE  /\ u \in FeeForm
           /\ u.amount = t.amount /\ u.recipient = t.recipient /\ u.native = t.native
           /\ u.balance = t.balance /\ u.gen = t.gen /\ u.maxFilled = t.maxFilled
           /\ u.auth = t.auth /\ u.sending = t.sending /\ u.pendingMax = t.pendingMax
           /\ \/ /\ Frozen(t) /\ u.seq = t.seq /\ u.running = t.running
                 /\ u.queued = t.queued /\ u.refining = t.refining /\ u.estimating = t.estimating
              \/ /\ ~Frozen(t) /\ t.estimating /\ u.seq = t.seq /\ u.running = t.running
                 /\ u.estimating /\ (m => u.queued /\ u.refining)
                 /\ (~m => u.queued = t.queued /\ u.refining = t.refining)
              \/ /\ ~Frozen(t) /\ ~t.estimating /\ u.seq = t.seq + 1
                 /\ u.running = t.running \cup {[seq |-> t.seq + 1, max |-> m, gen |-> t.gen]}
                 /\ u.estimating /\ u.queued = t.queued /\ u.refining = t.refining
  <1>0. t.queued \in BOOLEAN /\ t.refining \in BOOLEAN /\ t.estimating \in BOOLEAN
    BY Zenon DEF FeeForm
  <1>1. CASE Frozen(t)
    <2>1. u = [t EXCEPT !.timer = FALSE]
      BY <1>1 DEF Spawn
    <2> QED BY <2>1, <1>1, Zenon DEF FeeForm
  <1>2. CASE ~Frozen(t) /\ t.estimating /\ m
    <2>1. u = [t EXCEPT !.timer = FALSE, !.queued = TRUE, !.refining = TRUE]
      BY <1>2 DEF Spawn
    <2> QED BY <2>1, <1>2, Zenon DEF FeeForm
  <1>3. CASE ~Frozen(t) /\ t.estimating /\ ~m
    <2>1. u = [t EXCEPT !.timer = TRUE]
      BY <1>3 DEF Spawn
    <2> QED BY <2>1, <1>3, <1>0, Zenon DEF FeeForm
  <1>4. CASE ~Frozen(t) /\ ~t.estimating
    <2>1. PICK r : r = [seq |-> t.seq + 1, max |-> m, gen |-> t.gen]
      OBVIOUS
    <2>2. PICK n : n = t.seq + 1
      OBVIOUS
    <2>3. u = [t EXCEPT !.timer = FALSE, !.seq = n, !.estimating = TRUE, !.running = @ \cup {r}]
      BY <1>4, <2>1, <2>2 DEF Spawn
    <2>4. r \in Requests
      <3>1. t.seq + 1 \in 1..MaxSeq
        BY FormTypes, FeeConstants DEF Seqs
      <3> QED BY <3>1, <2>1, FormTypes, Zenon DEF Requests
    <2>5. n \in Seqs
      BY <2>2
    <2>6. t.running \cup {r} \in SUBSET Requests
      BY <2>4, FormTypes, Zenon
    <2>7. u \in FeeForm /\ u.running = t.running \cup {r} /\ u.seq = n /\ u.estimating = TRUE
          /\ u.queued = t.queued /\ u.refining = t.refining
      BY <2>3, <2>5, <2>6, Zenon DEF FeeForm
    <2>8. /\ u.amount = t.amount /\ u.recipient = t.recipient /\ u.native = t.native
          /\ u.balance = t.balance /\ u.gen = t.gen /\ u.maxFilled = t.maxFilled
          /\ u.auth = t.auth /\ u.sending = t.sending /\ u.pendingMax = t.pendingMax
      BY <2>3, Zenon DEF FeeForm
    <2> QED BY <1>4, <2>1, <2>2, <2>7, <2>8, Zenon
  <1> QED BY <1>1, <1>2, <1>3, <1>4

\* Giving the refinement up keeps both parts of the invariant.
LEMMA ClearHolds ==
    ASSUME NEW t \in FeeForm, NEW u, u = ClearPendingMax(t), FormHolds(t)
    PROVE  u \in FeeForm /\ FormHolds(u) /\ RefinementHolds(u)
  <1>1. /\ u \in FeeForm /\ u.running = t.running /\ u.seq = t.seq /\ u.estimating = t.estimating
        /\ u.pendingMax = 0 /\ ~u.queued /\ ~u.refining
    BY ClearFacts
  <1> QED BY <1>1, WithoutRefinement

\* So does restarting the timer.
LEMMA ScheduleHolds ==
    ASSUME NEW t \in FeeForm, NEW u, u = Schedule(t), FormHolds(t)
    PROVE  u \in FeeForm /\ FormHolds(u) /\ RefinementHolds(u)
  <1>1. /\ u \in FeeForm /\ u.running = t.running /\ u.seq = t.seq /\ u.estimating = t.estimating
        /\ u.pendingMax = 0 /\ ~u.queued /\ ~u.refining
    BY ScheduleFacts
  <1> QED BY <1>1, WithoutRefinement

\* A new estimate has the highest number, and is not the one MAX waits for.
LEMMA NextEstimate ==
    ASSUME NEW t \in FeeForm, NEW u \in FeeForm, NEW m \in BOOLEAN, FormHolds(t),
           u.seq = t.seq + 1,
           u.running = t.running \cup {[seq |-> t.seq + 1, max |-> m, gen |-> t.gen]}
    PROVE  /\ Running(u)
           /\ \A r1, r2 \in u.running : r1.seq = r2.seq => r1 = r2
           /\ \A r \in u.running : r.seq <= u.seq /\ (r.seq = t.pendingMax => r.max)
           /\ t.pendingMax <= u.seq
           /\ m => \A r \in u.running : r.seq = u.seq => r.max
  <1>0. PICK n : n = t.seq + 1
    OBVIOUS
  <1>1. PICK new : new = [seq |-> t.seq + 1, max |-> m, gen |-> t.gen]
    OBVIOUS
  <1>2. new.seq = n /\ new.max = m
    BY <1>0, <1>1
  <1>3. u.running = t.running \cup {new} /\ u.seq = n
    BY <1>0, <1>1
  <1>4. \A r \in t.running : r.seq # n /\ r.seq <= n /\ (r.seq = t.pendingMax => r.max)
    BY <1>0, FormTypes DEF FormHolds
  <1>5. n # t.pendingMax /\ t.pendingMax <= n /\ n <= n
    BY <1>0, FormTypes DEF FormHolds
  <1>6. \A r1, r2 \in t.running : r1.seq = r2.seq => r1 = r2
    BY DEF FormHolds
  <1> QED BY <1>2, <1>3, <1>4, <1>5, <1>6, Zenon DEF Running

\* An estimate for a typed amount keeps the invariant.
LEMMA SpawnHolds ==
    ASSUME NEW t \in FeeForm, NEW m \in BOOLEAN, NEW u, u = Spawn(t, m), t.seq + 1 \in Seqs,
           FormHolds(t), m => t.maxFilled /\ t.native
    PROVE  u \in FeeForm /\ FormHolds(u)
  <1>1. /\ u \in FeeForm /\ u.native = t.native /\ u.maxFilled = t.maxFilled
        /\ u.pendingMax = t.pendingMax
    BY SpawnFacts
  <1>2. CASE u.seq = t.seq /\ u.running = t.running
             /\ (u.queued => t.queued \/ m) /\ (u.refining => t.refining \/ m)
             /\ (u.estimating => t.estimating)
    <2>1. Running(u) = Running(t)
      BY <1>2 DEF Running
    <2> QED BY <1>1, <1>2, <2>1, Zenon DEF FormHolds
  <1>3. CASE u.seq = t.seq + 1
             /\ u.running = t.running \cup {[seq |-> t.seq + 1, max |-> m, gen |-> t.gen]}
             /\ u.queued = t.queued /\ u.refining = t.refining
    <2>1. /\ Running(u)
          /\ \A r1, r2 \in u.running : r1.seq = r2.seq => r1 = r2
          /\ \A r \in u.running : r.seq <= u.seq /\ (r.seq = t.pendingMax => r.max)
          /\ t.pendingMax <= u.seq
      BY <1>1, <1>3, NextEstimate
    <2> QED BY <1>1, <1>3, <2>1, Zenon DEF FormHolds
  <1>4. \/ u.seq = t.seq /\ u.running = t.running
             /\ (u.queued => t.queued \/ m) /\ (u.refining => t.refining \/ m)
             /\ (u.estimating => t.estimating)
        \/ u.seq = t.seq + 1
             /\ u.running = t.running \cup {[seq |-> t.seq + 1, max |-> m, gen |-> t.gen]}
             /\ u.queued = t.queued /\ u.refining = t.refining
    BY SpawnFacts
  <1> QED BY <1>2, <1>3, <1>4

\* MAX is estimated, queued behind the estimate that runs, or given up.
LEMMA SpawnMaxHolds ==
    ASSUME NEW t \in FeeForm, NEW u, u = SpawnMax(t), t.seq + 1 \in Seqs,
           FormHolds(t), t.maxFilled, t.native, ~t.queued
    PROVE  u \in FeeForm /\ FormHolds(u) /\ RefinementHolds(u) /\ u.amount = t.amount
           /\ t.running \subseteq u.running
  <1>0. PICK m \in BOOLEAN : m = TRUE
    OBVIOUS
  <1>1. PICK w : w = Spawn(t, m)
    OBVIOUS
  <1>2. w \in FeeForm /\ FormHolds(w)
    BY <1>1, SpawnHolds
  <1>3. w.amount = t.amount /\ w.native = t.native /\ w.maxFilled = t.maxFilled
    BY <1>1, SpawnFacts
  <1>4. u = IF w.seq # t.seq THEN [w EXCEPT !.pendingMax = w.seq]
            ELSE IF w.queued THEN w ELSE ClearPendingMax(w)
    BY <1>0, <1>1 DEF SpawnMax
  <1>5. t.seq \in Nat
    BY FormTypes
  <1>6. CASE Frozen(t) /\ w.seq = t.seq /\ w.running = t.running /\ w.queued = t.queued
    <2>1. u = ClearPendingMax(w)
      BY <1>4, <1>6
    <2>2. u.amount = w.amount /\ u.running = w.running
      BY <2>1, <1>2, ClearFacts
    <2> QED BY <2>1, <2>2, <1>2, <1>3, <1>6, ClearHolds
  <1>7. CASE /\ ~Frozen(t) /\ t.estimating /\ w.seq = t.seq /\ w.running = t.running
             /\ w.estimating /\ w.queued
    <2>1. u = w
      BY <1>4, <1>7
    <2>2. RefinementHolds(w)
      BY <1>2, <1>7 DEF FormHolds, RefinementHolds
    <2> QED BY <2>1, <2>2, <1>2, <1>3, <1>7
  <1>8. CASE /\ ~Frozen(t) /\ ~t.estimating /\ w.seq = t.seq + 1 /\ w.estimating
             /\ w.running = t.running \cup {[seq |-> t.seq + 1, max |-> m, gen |-> t.gen]}
    <2>0. PICK n : n = w.seq
      OBVIOUS
    <2>1. u = [w EXCEPT !.pendingMax = n]
      BY <1>4, <1>5, <1>8, <2>0
    <2>2. /\ Running(w)
          /\ \A r1, r2 \in w.running : r1.seq = r2.seq => r1 = r2
          /\ \A r \in w.running : r.seq <= w.seq /\ (r.seq = w.seq => r.max)
      BY <1>0, <1>2, <1>8, NextEstimate
    <2>3. n \in Seqs /\ n <= n
      BY <1>2, <2>0, FormTypes
    <2>4. u \in FeeForm /\ u.pendingMax = n /\ u.amount = w.amount /\ u.running = w.running
          /\ u.seq = w.seq /\ u.native = w.native /\ u.maxFilled = w.maxFilled
          /\ u.estimating = w.estimating
      BY <1>2, <2>1, <2>3, Zenon DEF FeeForm
    <2>5. Running(u)
      BY <2>2, <2>4 DEF Running
    <2>6. FormHolds(u)
      BY <2>0, <2>2, <2>3, <2>4, <2>5, <1>3, Zenon DEF FormHolds
    <2>7. RefinementHolds(u)
      BY <2>0, <2>4, <2>5, <1>8, Zenon DEF RefinementHolds
    <2>8. t.running \subseteq u.running
      BY <1>8, <2>4
    <2> QED BY <2>4, <2>6, <2>7, <2>8, <1>3
  <1>9. \/ Frozen(t) /\ w.seq = t.seq /\ w.running = t.running /\ w.queued = t.queued
        \/ /\ ~Frozen(t) /\ t.estimating /\ w.seq = t.seq /\ w.running = t.running
           /\ w.estimating /\ w.queued
        \/ /\ ~Frozen(t) /\ ~t.estimating /\ w.seq = t.seq + 1 /\ w.estimating
           /\ w.running = t.running \cup {[seq |-> t.seq + 1, max |-> m, gen |-> t.gen]}
    <2>1. \/ Frozen(t) /\ w.seq = t.seq /\ w.running = t.running
             /\ w.queued = t.queued /\ w.refining = t.refining /\ w.estimating = t.estimating
          \/ /\ ~Frozen(t) /\ t.estimating /\ w.seq = t.seq /\ w.running = t.running
             /\ w.estimating /\ (m => w.queued /\ w.refining)
             /\ (~m => w.queued = t.queued /\ w.refining = t.refining)
          \/ /\ ~Frozen(t) /\ ~t.estimating /\ w.seq = t.seq + 1
             /\ w.running = t.running \cup {[seq |-> t.seq + 1, max |-> m, gen |-> t.gen]}
             /\ w.estimating /\ w.queued = t.queued /\ w.refining = t.refining
      BY <1>1, SpawnFacts
    <2> QED BY <1>0, <2>1, Zenon
  <1> QED BY <1>6, <1>7, <1>8, <1>9

\* start_queued_max: the queued refinement starts once the form allows it.
LEMMA StartQueuedMaxHolds ==
    ASSUME NEW t \in FeeForm, NEW u, u = StartQueuedMax(t), t.seq + 1 \in Seqs, FormHolds(t),
           ~t.queued => RefinementHolds(t)
    PROVE  u \in FeeForm /\ FormHolds(u) /\ RefinementHolds(u) /\ u.amount = t.amount
  <1>1. CASE ~t.queued
    BY <1>1 DEF StartQueuedMax
  <1>2. CASE t.queued
    <2>1. PICK w : w = [t EXCEPT !.queued = FALSE]
      OBVIOUS
    <2>2. /\ w \in FeeForm /\ ~w.queued /\ w.seq = t.seq /\ w.running = t.running /\ w.amount = t.amount
          /\ w.maxFilled = t.maxFilled /\ w.native = t.native /\ w.refining = t.refining
          /\ w.pendingMax = t.pendingMax /\ w.estimating = t.estimating
      BY <2>1, Zenon DEF FeeForm
    <2>3. Running(w) = Running(t)
      BY <2>2 DEF Running
    <2>4. FormHolds(w)
      BY <2>2, <2>3, Zenon DEF FormHolds
    <2>5. w.maxFilled /\ w.native
      BY <1>2, <2>2, Zenon DEF FormHolds
    <2>6. u = SpawnMax(w)
      BY <1>2, <2>1 DEF StartQueuedMax
    <2>7. w.seq + 1 \in Seqs
      BY <2>2
    <2> QED BY <2>2, <2>4, <2>5, <2>6, <2>7, SpawnMaxHolds
  <1> QED BY <1>1, <1>2

\* set_max_amount leaves everything as it is, schedules, or starts a refinement.
LEMMA SetMaxAmountHolds ==
    ASSUME NEW t \in FeeForm, NEW u, u = SetMaxAmount(t), t.seq + 1 \in Seqs, FormHolds(t)
    PROVE  /\ u \in FeeForm /\ FormHolds(u)
           /\ t.balance = 0 => u = t
           /\ t.balance # 0 => RefinementHolds(u)
           /\ t.running \subseteq u.running
  <1>1. CASE t.balance = 0
    BY <1>1 DEF SetMaxAmount
  <1>2. CASE t.balance # 0 /\ ~t.native
    <2>1. PICK a : a = t.balance
      OBVIOUS
    <2>2. PICK w : w = [t EXCEPT !.maxFilled = TRUE, !.amount = a]
      OBVIOUS
    <2>3. a \in Nat
      <3>1. a \in Known(Balances)
        BY <2>1, Zenon DEF FeeForm
      <3> QED BY <3>1, FeeConstants DEF Known
    <2>4. /\ w \in FeeForm /\ w.seq = t.seq /\ w.running = t.running /\ w.native = t.native
          /\ w.maxFilled = TRUE /\ w.refining = t.refining /\ w.queued = t.queued
          /\ w.pendingMax = t.pendingMax /\ w.estimating = t.estimating
      BY <2>2, <2>3, Zenon DEF FeeForm
    <2>5. Running(w) = Running(t)
      BY <2>4 DEF Running
    <2>6. FormHolds(w)
      BY <2>4, <2>5, Zenon DEF FormHolds
    <2>7. u = Schedule(w)
      BY <1>2, <2>1, <2>2 DEF SetMaxAmount
    <2>8. u.running = w.running
      BY <2>4, <2>7, ScheduleFacts
    <2> QED BY <1>2, <2>4, <2>6, <2>7, <2>8, ScheduleHolds
  <1>3. CASE t.balance # 0 /\ t.native
    <2>1. PICK a : a = MaxSpendable(t.balance, EffectiveFee(t))
      OBVIOUS
    <2>2. PICK c : c = ClearPendingMax(t)
      OBVIOUS
    <2>3. PICK b : b = t.balance
      OBVIOUS
    <2>4. PICK w : w = [c EXCEPT !.maxFilled = TRUE, !.amount = a, !.timer = FALSE,
                                 !.maxBalance = b, !.refining = TRUE]
      OBVIOUS
    <2>5. b \in Known(Balances) /\ t.fee \in Known(Fees)
      BY <2>3, Zenon DEF FeeForm
    <2>6. a \in Nat
      <3>0. \A n : n \in Known(Balances) \/ n \in Known(Fees) => n \in Nat
        <4>1. \A n \in Balances \cup Fees : n \in Nat
          BY FeeConstants
        <4> QED BY <4>1 DEF Known
      <3>1. b \in Nat /\ t.fee \in Nat
        BY <2>5, <3>0
      <3>2. PICK f : f = EffectiveFee(t)
        OBVIOUS
      <3>3. f \in Nat
        BY <3>1, <3>2, FeeConstants DEF EffectiveFee
      <3> QED BY <2>1, <2>3, <3>1, <3>2, <3>3, FeeConstants DEF MaxSpendable
    <2>7. c \in FeeForm /\ FormHolds(c) /\ ~c.queued /\ c.seq = t.seq /\ c.native = t.native
      BY <2>2, ClearFacts, ClearHolds
    <2>8. /\ w \in FeeForm /\ w.seq = c.seq /\ w.running = c.running /\ w.native = c.native
          /\ w.maxFilled = TRUE /\ w.refining = TRUE /\ w.queued = c.queued
          /\ w.pendingMax = c.pendingMax /\ w.estimating = c.estimating
      BY <2>4, <2>5, <2>6, <2>7, Zenon DEF FeeForm
    <2>9. Running(w) = Running(c)
      BY <2>8 DEF Running
    <2>10. FormHolds(w) /\ w.maxFilled /\ w.native /\ ~w.queued
      BY <1>3, <2>7, <2>8, <2>9, Zenon DEF FormHolds
    <2>11. w.seq + 1 \in Seqs
      BY <2>7, <2>8
    <2>12. u = SpawnMax(w)
      BY <1>3, <2>1, <2>2, <2>3, <2>4, Zenon DEF SetMaxAmount
    <2>13. c.running = t.running
      BY <2>2, ClearFacts
    <2> QED BY <1>3, <2>8, <2>10, <2>11, <2>12, <2>13, SpawnMaxHolds
  <1> QED BY <1>1, <1>2, <1>3

\* The timer starts the estimate of what is typed.
LEMMA EstimateFeeHolds ==
    ASSUME NEW t \in FeeForm, NEW u, u = EstimateFee(t), t.seq + 1 \in Seqs, FormHolds(t),
           t.balance = 0 => RefinementHolds(t)
    PROVE  u \in FeeForm /\ FormHolds(u) /\ RefinementHolds(u) /\ t.running \subseteq u.running
  <1>1. CASE t.maxFilled /\ t.recipient /\ t.native
    <2>1. u = SetMaxAmount(t)
      BY <1>1 DEF EstimateFee
    <2> QED BY <2>1, SetMaxAmountHolds
  <1>2. CASE ~(t.maxFilled /\ t.recipient /\ t.native)
    <2>1. ~(t.refining /\ t.recipient)
      BY <1>2, Zenon DEF FormHolds
    <2>2. PICK v \in FeeForm : /\ FormHolds(v) /\ v.refining = t.refining /\ v.recipient = t.recipient
                               /\ t.running \subseteq v.running
                               /\ u = v \/ u = [v EXCEPT !.stale = FALSE]
      <3>1. CASE u = [t EXCEPT !.stale = FALSE]
        BY <3>1
      <3>2. CASE \E w : w = Spawn(t, FALSE) /\ (u = w \/ u = [w EXCEPT !.stale = FALSE])
        <4>0. PICK m \in BOOLEAN : m = FALSE
          OBVIOUS
        <4>1. PICK w : w = Spawn(t, m) /\ (u = w \/ u = [w EXCEPT !.stale = FALSE])
          BY <3>2, <4>0
        <4>2. w \in FeeForm /\ FormHolds(w)
          BY <4>0, <4>1, SpawnHolds
        <4>3. w.recipient = t.recipient
          BY <4>1, SpawnFacts
        <4>4. w.refining = t.refining
          BY <4>0, <4>1, SpawnFacts
        <4>5. t.running \subseteq w.running
          BY <4>0, <4>1, SpawnFacts
        <4> QED BY <4>1, <4>2, <4>3, <4>4, <4>5
      <3>3. \/ u = [t EXCEPT !.stale = FALSE]
            \/ u = LET w == Spawn(t, FALSE) IN IF w.estimating THEN w ELSE [w EXCEPT !.stale = FALSE]
        BY <1>2 DEF EstimateFee
      <3> QED BY <3>1, <3>2, <3>3
    <2>3. /\ u \in FeeForm /\ u.seq = v.seq /\ u.running = v.running /\ u.native = v.native
          /\ u.maxFilled = v.maxFilled /\ u.refining = v.refining /\ u.queued = v.queued
          /\ u.pendingMax = v.pendingMax /\ u.estimating = v.estimating /\ u.recipient = v.recipient
      BY <2>2, Zenon DEF FeeForm
    <2>4. Running(u) = Running(v)
      BY <2>3 DEF Running
    <2>5. FormHolds(u)
      BY <2>2, <2>3, <2>4, Zenon DEF FormHolds
    <2>6. RefinementHolds(u)
      BY <2>1, <2>2, <2>3, Zenon DEF RefinementHolds
    <2> QED BY <2>2, <2>3, <2>5, <2>6
  <1> QED BY <1>1, <1>2

\* The invariant of the send form.
FeeIInv == FeeTypeOK /\ FormHolds(s) /\ RefinementHolds(s)

\* The invariant looks at these fields only.
LEMMA SameForm ==
    ASSUME NEW t \in FeeForm, NEW u \in FeeForm, FormHolds(t), RefinementHolds(t),
           u.seq = t.seq, u.running = t.running, u.native = t.native, u.maxFilled = t.maxFilled,
           u.refining = t.refining, u.queued = t.queued, u.pendingMax = t.pendingMax,
           u.estimating = t.estimating, u.recipient = t.recipient,
           u.refining => u.estimating \/ (u.balance = 0 /\ ~Frozen(u)) \/ ~u.recipient
    PROVE  FormHolds(u) /\ RefinementHolds(u)
  <1>1. Running(u) = Running(t)
    BY DEF Running
  <1> QED BY <1>1, Zenon DEF FormHolds, RefinementHolds

\* What the user types gives a refinement up.
LEMMA TypingStep ==
    ASSUME NEW t \in FeeForm, FormHolds(t), NEW w \in FeeForm,
           w.running = t.running, w.seq = t.seq, w.estimating = t.estimating,
           NEW u, u = Schedule(w)
    PROVE  u \in FeeForm /\ FormHolds(u) /\ RefinementHolds(u) /\ u.running = t.running
  <1>1. /\ u \in FeeForm /\ u.running = w.running /\ u.seq = w.seq /\ u.estimating = w.estimating
        /\ u.pendingMax = 0 /\ ~u.queued /\ ~u.refining
    BY ScheduleFacts
  <1> QED BY <1>1, WithoutRefinement

\* Finished, of a form that is not a state.
EndedOf(t, r) == [[t EXCEPT !.running = @ \ {r}] EXCEPT !.estimating = FALSE, !.stale = FALSE]

\* An answer ends its estimate.
LEMMA FinishedHolds ==
    ASSUME NEW t \in FeeForm, FormHolds(t), NEW r \in t.running, r.seq = t.seq,
           NEW w, w = EndedOf(t, r)
    PROVE  /\ w \in FeeForm /\ FormHolds(w)
           /\ w.seq = t.seq /\ w.refining = t.refining /\ w.queued = t.queued /\ w.amount = t.amount
           /\ w.pendingMax = t.pendingMax /\ w.recipient = t.recipient /\ w.native = t.native
           /\ w.maxFilled = t.maxFilled /\ w.auth = t.auth /\ w.sending = t.sending
  <1>1. PICK rest : rest = t.running \ {r}
    OBVIOUS
  <1>2. rest \in SUBSET Requests
    BY <1>1, FormTypes
  <1>3. w = [[t EXCEPT !.running = rest] EXCEPT !.estimating = FALSE, !.stale = FALSE]
    BY <1>1 DEF EndedOf
  <1>4. /\ w \in FeeForm /\ w.running = rest /\ w.estimating = FALSE
        /\ w.seq = t.seq /\ w.refining = t.refining /\ w.queued = t.queued /\ w.amount = t.amount
        /\ w.pendingMax = t.pendingMax /\ w.recipient = t.recipient /\ w.native = t.native
        /\ w.maxFilled = t.maxFilled /\ w.auth = t.auth /\ w.sending = t.sending
    BY <1>2, <1>3, Zenon DEF FeeForm
  <1>5. \A x \in rest : x \in t.running
    BY <1>1
  <1>6. FormHolds(w)
    BY <1>4, <1>5, Zenon DEF FormHolds
  <1> QED BY <1>4, <1>6

\* After an answer that is not the awaited one, a queued MAX is started.
LEMMA QueuedAfterAnswer ==
    ASSUME NEW t \in FeeForm, FormHolds(t), RefinementHolds(t), t.seq + 1 \in Seqs,
           NEW w \in FeeForm, FormHolds(w), w.seq = t.seq, w.refining = t.refining,
           w.queued = t.queued, w.recipient = t.recipient, w.amount = t.amount,
           ~t.queued => t.pendingMax # t.seq,
           NEW u, u = StartQueuedMax(w)
    PROVE  u \in FeeForm /\ FormHolds(u) /\ RefinementHolds(u) /\ u.amount = t.amount
  <1>1. w.seq + 1 \in Seqs
    OBVIOUS
  <1>2. ~w.queued => RefinementHolds(w)
    BY Zenon DEF RefinementHolds
  <1> QED BY <1>1, <1>2, StartQueuedMaxHolds

\* A constant stands for the form before and after a step.
Kept(u) == u \in FeeForm /\ FormHolds(u) /\ RefinementHolds(u)
\* The amount changed by an answer is one that MAX filled in.
AmountKept(t, u) == u.amount = t.amount \/ t.running \subseteq u.running \/ (t.maxFilled /\ ~Frozen(t))

\* The next sequence number is one, below the bound.
LEMMA NextSeq ==
    ASSUME NEW t \in FeeForm, t.seq < MaxSeq PROVE t.seq + 1 \in Seqs
  BY FormTypes, FeeConstants DEF Seqs

\* apply_fee_estimated.
LEMMA FeeEstimatedHolds ==
    ASSUME NEW t \in FeeForm, FormHolds(t), RefinementHolds(t), t.seq + 1 \in Seqs,
           NEW r \in t.running, r.seq = t.seq, ~r.max, NEW f \in Fees,
           NEW w, w = EndedOf(t, r),
           NEW u, u = StartQueuedMax(IF r.gen = t.gen THEN [w EXCEPT !.fee = f] ELSE w)
    PROVE  Kept(u) /\ AmountKept(t, u)
  <1>1. PICK v : v = IF r.gen = t.gen THEN [w EXCEPT !.fee = f] ELSE w
    OBVIOUS
  <1>2. w \in FeeForm /\ FormHolds(w) /\ w.seq = t.seq /\ w.refining = t.refining
        /\ w.queued = t.queued /\ w.recipient = t.recipient /\ w.amount = t.amount
    BY FinishedHolds
  <1>3. f \in Known(Fees)
    BY DEF Known
  <1>4. /\ v \in FeeForm /\ v.seq = w.seq /\ v.running = w.running /\ v.native = w.native
        /\ v.maxFilled = w.maxFilled /\ v.refining = w.refining /\ v.queued = w.queued
        /\ v.pendingMax = w.pendingMax /\ v.estimating = w.estimating /\ v.recipient = w.recipient
        /\ v.amount = w.amount
    BY <1>1, <1>2, <1>3, Zenon DEF FeeForm
  <1>5. FormHolds(v)
    <2>1. Running(v) = Running(w)
      BY <1>4 DEF Running
    <2> QED BY <1>2, <1>4, <2>1, ZenonT(40) DEF FormHolds
  <1>6. t.pendingMax # t.seq
    BY DEF FormHolds
  <1>7. u = StartQueuedMax(v)
    BY <1>1
  <1> QED BY <1>2, <1>4, <1>5, <1>6, <1>7, QueuedAfterAnswer DEF Kept, AmountKept

\* apply_fee_estimate_failed.
LEMMA FeeEstimateFailedHolds ==
    ASSUME NEW t \in FeeForm, FormHolds(t), RefinementHolds(t), t.seq + 1 \in Seqs,
           NEW r \in t.running, r.seq = t.seq,
           NEW w, w = EndedOf(t, r),
           NEW v, v = (IF r.gen = t.gen THEN [w EXCEPT !.fee = 0] ELSE w),
           NEW u, u = IF Owns(v, r) THEN ClearPendingMax(v) ELSE StartQueuedMax(v)
    PROVE  Kept(u) /\ AmountKept(t, u)
  <1>2. w \in FeeForm /\ FormHolds(w) /\ w.seq = t.seq /\ w.refining = t.refining
        /\ w.queued = t.queued /\ w.recipient = t.recipient /\ w.amount = t.amount
        /\ w.pendingMax = t.pendingMax
    BY FinishedHolds
  <1>4. /\ v \in FeeForm /\ v.seq = w.seq /\ v.running = w.running /\ v.native = w.native
        /\ v.maxFilled = w.maxFilled /\ v.refining = w.refining /\ v.queued = w.queued
        /\ v.pendingMax = w.pendingMax /\ v.estimating = w.estimating /\ v.recipient = w.recipient
        /\ v.amount = w.amount
    <2>1. CASE v = [w EXCEPT !.fee = 0]
      BY <1>2, <2>1, Absent, Zenon DEF FeeForm
    <2>2. CASE v = w
      BY <1>2, <2>2, Zenon
    <2> QED BY <2>1, <2>2
  <1>5. FormHolds(v)
    <2>1. Running(v) = Running(w)
      BY <1>4 DEF Running
    <2> QED BY <1>2, <1>4, <2>1, ZenonT(40) DEF FormHolds
  <1>6. CASE Owns(v, r)
    <2>1. u = ClearPendingMax(v)
      BY <1>6
    <2>2. u.amount = v.amount
      BY <2>1, <1>4, ClearFacts
    <2>3. Kept(u)
      BY <2>1, <1>4, <1>5, ClearHolds DEF Kept
    <2> QED BY <2>2, <2>3, <1>2, <1>4 DEF AmountKept
  <1>7. CASE ~Owns(v, r)
    <2>1. u = StartQueuedMax(v)
      BY <1>7
    <2>2. t.pendingMax # t.seq
      BY <1>7, <1>2, <1>4 DEF Owns
    <2>3. v \in FeeForm /\ v.seq = t.seq /\ v.refining = t.refining /\ v.queued = t.queued
          /\ v.recipient = t.recipient /\ v.amount = t.amount
      BY <1>2, <1>4
    <2>4. u \in FeeForm /\ FormHolds(u) /\ RefinementHolds(u) /\ u.amount = t.amount
      BY <1>5, <2>1, <2>2, <2>3, QueuedAfterAnswer, ZenonT(40)
    <2> QED BY <2>4 DEF Kept, AmountKept
  <1> QED BY <1>6, <1>7

\* apply_max_fee_estimated: the only step that writes the amount itself.
LEMMA MaxFeeEstimatedHolds ==
    ASSUME NEW t \in FeeForm, FormHolds(t), RefinementHolds(t), t.seq + 1 \in Seqs,
           NEW r \in t.running, r.seq = t.seq, NEW f \in Fees,
           NEW w, w = EndedOf(t, r),
           NEW applies \in BOOLEAN, applies => Owns(w, r) /\ ~Frozen(w),
           NEW v, v = (IF applies /\ w.balance # 0
                       THEN [w EXCEPT !.fee = f, !.amount = MaxSpendable(w.balance, f)] ELSE w),
           NEW u, u = IF applies /\ w.balance # w.maxBalance THEN SetMaxAmount(ClearPendingMax(w))
                      ELSE IF Owns(w, r) THEN ClearPendingMax(v) ELSE StartQueuedMax(v)
    PROVE  Kept(u) /\ AmountKept(t, u)
  <1>2. w \in FeeForm /\ FormHolds(w) /\ w.seq = t.seq /\ w.refining = t.refining
        /\ w.queued = t.queued /\ w.recipient = t.recipient /\ w.amount = t.amount
        /\ w.pendingMax = t.pendingMax /\ w.maxFilled = t.maxFilled
        /\ w.auth = t.auth /\ w.sending = t.sending
    BY FinishedHolds
  <1>3. applies => t.maxFilled /\ ~Frozen(t)
    <2>1. r.seq # 0
      BY FormTypes
    <2> QED BY <1>2, <2>1 DEF Owns, Frozen, FormHolds
  <1>4. f \in Known(Fees) /\ MaxSpendable(w.balance, f) \in Nat
    <2>1. w.balance \in Known(Balances)
      BY <1>2, Zenon DEF FeeForm
    <2>2. PICK b : b = w.balance
      OBVIOUS
    <2>3. b \in Nat
      BY <2>1, <2>2, FeeConstants DEF Known
    <2>4. MaxSpendable(b, f) \in Nat
      BY <2>3, FeeConstants DEF MaxSpendable
    <2> QED BY <2>2, <2>4 DEF Known
  <1>5. /\ v \in FeeForm /\ v.seq = w.seq /\ v.running = w.running /\ v.native = w.native
        /\ v.maxFilled = w.maxFilled /\ v.refining = w.refining /\ v.queued = w.queued
        /\ v.pendingMax = w.pendingMax /\ v.estimating = w.estimating /\ v.recipient = w.recipient
        /\ applies \/ v.amount = w.amount
    <2>1. PICK a : a = MaxSpendable(w.balance, f)
      OBVIOUS
    <2>2. CASE v = [w EXCEPT !.fee = f, !.amount = a] /\ applies
      BY <1>2, <1>4, <2>1, <2>2, Zenon DEF FeeForm
    <2>3. CASE v = w
      BY <1>2, <2>3, Zenon
    <2> QED BY <2>1, <2>2, <2>3
  <1>6. FormHolds(v)
    <2>1. Running(v) = Running(w)
      BY <1>5 DEF Running
    <2> QED BY <1>2, <1>5, <2>1, ZenonT(40) DEF FormHolds
  <1>7. CASE applies /\ w.balance # w.maxBalance
    <2>1. PICK c : c = ClearPendingMax(w)
      OBVIOUS
    <2>2. c \in FeeForm /\ FormHolds(c) /\ RefinementHolds(c) /\ c.seq = w.seq
      <3>1. c \in FeeForm /\ FormHolds(c) /\ RefinementHolds(c)
        BY <2>1, <1>2, ClearHolds
      <3>2. c.seq = w.seq
        BY <2>1, <1>2, ClearFacts
      <3> QED BY <3>1, <3>2
    <2>3. c.seq + 1 \in Seqs
      BY <2>2, <1>2
    <2>4. u = SetMaxAmount(c)
      BY <1>7, <2>1
    <2>5. u \in FeeForm /\ FormHolds(u) /\ (c.balance = 0 => u = c) /\ (c.balance # 0 => RefinementHolds(u))
      BY <2>2, <2>3, <2>4, SetMaxAmountHolds
    <2> QED BY <2>2, <2>5, <1>3, <1>7 DEF Kept, AmountKept
  <1>8. CASE ~(applies /\ w.balance # w.maxBalance) /\ Owns(w, r)
    <2>1. u = ClearPendingMax(v)
      BY <1>8
    <2>2. u.amount = v.amount
      <3>1. v \in FeeForm
        BY <1>5
      <3> QED BY <2>1, <3>1, ClearFacts, ZenonT(40)
    <2>3. Kept(u)
      BY <2>1, <1>5, <1>6, ClearHolds DEF Kept
    <2> QED BY <2>2, <2>3, <1>2, <1>3, <1>5 DEF AmountKept
  <1>9. CASE ~(applies /\ w.balance # w.maxBalance) /\ ~Owns(w, r)
    <2>1. u = StartQueuedMax(v) /\ ~applies
      BY <1>9
    <2>2. t.pendingMax # t.seq
      BY <1>9, <1>2 DEF Owns
    <2>3. v.amount = t.amount
      BY <2>1, <1>2, <1>5
    <2>4. v \in FeeForm /\ v.seq = t.seq /\ v.refining = t.refining /\ v.queued = t.queued
          /\ v.recipient = t.recipient
      BY <1>2, <1>5
    <2>5. u \in FeeForm /\ FormHolds(u) /\ RefinementHolds(u) /\ u.amount = t.amount
      BY <1>6, <2>1, <2>2, <2>3, <2>4, QueuedAfterAnswer
    <2> QED BY <2>5 DEF Kept, AmountKept
  <1> QED BY <1>7, <1>8, <1>9

\* An answer that was overtaken changes nothing but the list of requests.
LEMMA OvertakenHolds ==
    ASSUME NEW t \in FeeForm, FormHolds(t), RefinementHolds(t),
           NEW r \in t.running, r.seq # t.seq, NEW u, u = [t EXCEPT !.running = @ \ {r}]
    PROVE  Kept(u) /\ AmountKept(t, u)
  <1>1. PICK rest : rest = t.running \ {r}
    OBVIOUS
  <1>2. rest \in SUBSET Requests
    BY <1>1, FormTypes
  <1>3. u = [t EXCEPT !.running = rest]
    BY <1>1
  <1>4. /\ u \in FeeForm /\ u.running = rest /\ u.estimating = t.estimating
        /\ u.seq = t.seq /\ u.refining = t.refining /\ u.queued = t.queued /\ u.amount = t.amount
        /\ u.pendingMax = t.pendingMax /\ u.recipient = t.recipient /\ u.native = t.native
        /\ u.maxFilled = t.maxFilled /\ u.auth = t.auth /\ u.sending = t.sending
        /\ u.balance = t.balance
    BY <1>2, <1>3, Zenon DEF FeeForm
  <1>5. \A x \in rest : x \in t.running
    BY <1>1
  <1>6. Running(t) => Running(u)
    BY <1>1, <1>4 DEF Running
  <1>7. FormHolds(u)
    BY <1>4, <1>5, <1>6, Zenon DEF FormHolds
  <1>8. RefinementHolds(u)
    BY <1>4, <1>6, Zenon DEF RefinementHolds, Frozen
  <1> QED BY <1>4, <1>7, <1>8 DEF Kept, AmountKept

\* One step of the form, at constants.
LEMMA FeeStep ==
    ASSUME FeeTypeOK, FormHolds(s), RefinementHolds(s), FeeNext
    PROVE  Kept(s') /\ AmountKept(s, s')
  <1>0. PICK t : t = s
    OBVIOUS
  <1>1. PICK u : u = s'
    OBVIOUS
  <1>2. t \in FeeForm /\ FormHolds(t) /\ RefinementHolds(t)
    BY <1>0 DEF FeeTypeOK
  <1> SUFFICES Kept(u) /\ AmountKept(t, u)
    BY <1>0, <1>1
  <1>3. ASSUME NEW v \in BOOLEAN, SetSendDestination(v) PROVE Kept(u) /\ AmountKept(t, u)
    <2>1. PICK w : w = [t EXCEPT !.recipient = v]
      OBVIOUS
    <2>2. w \in FeeForm /\ w.running = t.running /\ w.seq = t.seq /\ w.estimating = t.estimating
      BY <1>2, <2>1, Zenon DEF FeeForm
    <2>3. u = Schedule(w)
      BY <1>0, <1>1, <1>3, <2>1 DEF SetSendDestination, Command
    <2> QED BY <1>2, <2>2, <2>3, TypingStep DEF Kept, AmountKept
  <1>4. ASSUME NEW a \in Typed, SetSendAmount(a) PROVE Kept(u) /\ AmountKept(t, u)
    <2>1. PICK w : w = [t EXCEPT !.amount = a, !.maxFilled = FALSE]
      OBVIOUS
    <2>2. a \in Nat
      BY FeeConstants
    <2>3. w \in FeeForm /\ w.running = t.running /\ w.seq = t.seq /\ w.estimating = t.estimating
      BY <1>2, <2>1, <2>2, Zenon DEF FeeForm
    <2>4. u = Schedule(w)
      BY <1>0, <1>1, <1>4, <2>1 DEF SetSendAmount, Command
    <2> QED BY <1>2, <2>3, <2>4, TypingStep DEF Kept, AmountKept
  <1>5. ASSUME NEW v \in BOOLEAN, SelectAsset(v) PROVE Kept(u) /\ AmountKept(t, u)
    <2>1. PICK w : w = [t EXCEPT !.native = v, !.maxFilled = FALSE]
      OBVIOUS
    <2>2. w \in FeeForm /\ w.running = t.running /\ w.seq = t.seq /\ w.estimating = t.estimating
      BY <1>2, <2>1, Zenon DEF FeeForm
    <2>3. u = Schedule(w)
      BY <1>0, <1>1, <1>5, <2>1 DEF SelectAsset, Command
    <2> QED BY <1>2, <2>2, <2>3, TypingStep DEF Kept, AmountKept
  <1>6. CASE SetMax
    <2>1. u = SetMaxAmount(t) /\ t.seq + 1 \in Seqs
      BY <1>0, <1>1, <1>2, <1>6, NextSeq DEF SetMax, Command, FeeRoom
    <2> QED BY <1>2, <2>1, SetMaxAmountHolds DEF Kept, AmountKept
  <1>7. CASE Tick
    <2>1. PICK w : w = [t EXCEPT !.timer = FALSE]
      OBVIOUS
    <2>2. t.seq + 1 \in Seqs /\ (u = EstimateFee(w) \/ u = w)
      BY <1>0, <1>1, <1>2, <1>7, <2>1, NextSeq DEF Tick, FeeRoom
    <2>3. /\ w \in FeeForm /\ w.seq = t.seq /\ w.running = t.running /\ w.native = t.native
          /\ w.maxFilled = t.maxFilled /\ w.refining = t.refining /\ w.queued = t.queued
          /\ w.pendingMax = t.pendingMax /\ w.estimating = t.estimating /\ w.recipient = t.recipient
          /\ w.balance = t.balance /\ w.auth = t.auth /\ w.sending = t.sending
      BY <1>2, <2>1, Zenon DEF FeeForm
    <2>4. w.refining => w.estimating \/ (w.balance = 0 /\ ~Frozen(w)) \/ ~w.recipient
      BY <1>2, <2>3, Zenon DEF RefinementHolds, Frozen
    <2>5. FormHolds(w) /\ RefinementHolds(w)
      BY <1>2, <2>3, <2>4, SameForm
    <2>6. w.seq + 1 \in Seqs
      BY <2>2, <2>3
    <2> QED BY <2>2, <2>3, <2>5, <2>6, EstimateFeeHolds DEF Kept, AmountKept
  <1>8. CASE RequestSend
    <2>1. u = [t EXCEPT !.auth = TRUE, !.timer = FALSE] /\ ~t.refining
      BY <1>0, <1>1, <1>8 DEF RequestSend
    <2>2. /\ u \in FeeForm /\ u.seq = t.seq /\ u.running = t.running /\ u.native = t.native
          /\ u.maxFilled = t.maxFilled /\ u.refining = t.refining /\ u.queued = t.queued
          /\ u.pendingMax = t.pendingMax /\ u.estimating = t.estimating /\ u.recipient = t.recipient
      BY <1>2, <2>1, Zenon DEF FeeForm
    <2>3. ~u.refining
      BY <2>1, <2>2
    <2> QED BY <1>2, <2>2, <2>3, SameForm DEF Kept, AmountKept
  <1>9. CASE SendChat
    <2>0. PICK m \in BOOLEAN : m = FALSE
      OBVIOUS
    <2>1. PICK w : w = Spawn(t, m)
      OBVIOUS
    <2>2. /\ u = [w EXCEPT !.auth = TRUE, !.timer = FALSE] /\ t.seq + 1 \in Seqs /\ t.balance > 0
      BY <1>0, <1>1, <1>2, <1>9, <2>0, <2>1, NextSeq DEF SendChat, Command, FeeRoom
    <2>3. w \in FeeForm /\ FormHolds(w)
      BY <1>2, <2>0, <2>1, <2>2, SpawnHolds
    <2>4. /\ u \in FeeForm /\ u.seq = w.seq /\ u.running = w.running /\ u.native = w.native
          /\ u.maxFilled = w.maxFilled /\ u.refining = w.refining /\ u.queued = w.queued
          /\ u.pendingMax = w.pendingMax /\ u.estimating = w.estimating /\ u.recipient = w.recipient
      BY <2>2, <2>3, Zenon DEF FeeForm
    <2>5. w.recipient = t.recipient /\ w.refining = t.refining /\ w.pendingMax = t.pendingMax
          /\ t.running \subseteq w.running
      BY <1>2, <2>0, <2>1, <2>2, SpawnFacts
    <2>6. t.refining /\ t.recipient =>
             t.estimating /\ w.estimating /\ w.running = t.running /\ w.seq = t.seq /\ w.queued = t.queued
      <3>1. ~(t.balance = 0)
        BY <2>2
      <3>2. t.refining /\ t.recipient => t.estimating
        BY <1>2, <3>1 DEF RefinementHolds
      <3>3. t.estimating /\ ~Frozen(t) => w.estimating /\ w.running = t.running /\ w.seq = t.seq /\ w.queued = t.queued
        BY <1>2, <2>0, <2>1, <2>2, SpawnFacts
      <3>4. ~Frozen(t)
        BY <1>0, <1>9 DEF SendChat, Command
      <3> QED BY <3>2, <3>3, <3>4
    <2>7. Running(u) = Running(w)
      BY <2>4 DEF Running
    <2>8. FormHolds(u)
      BY <2>3, <2>4, <2>7, Zenon DEF FormHolds
    <2>9. RefinementHolds(u)
      <3>1. t.refining /\ t.recipient => Running(u)
        BY <2>4, <2>6, <1>2 DEF Running, RefinementHolds
      <3> QED BY <1>2, <2>4, <2>5, <2>6, <3>1, Zenon DEF RefinementHolds
    <2> QED BY <2>4, <2>5, <2>8, <2>9 DEF Kept, AmountKept
  <1>10. CASE Cancel \/ Confirm \/ SendEnds(FALSE) \/ NextGeneration
    <2>1. \/ (u = [t EXCEPT !.auth = FALSE] \/ u = [t EXCEPT !.auth = FALSE, !.sending = TRUE]
              \/ u = [t EXCEPT !.sending = FALSE]) /\ Frozen(t)
          \/ \E n \in Gens : u = [t EXCEPT !.gen = n] /\ ~Frozen(t)
      <3>1. CASE Cancel \/ Confirm \/ SendEnds(FALSE)
        BY <1>0, <1>1, <3>1 DEF Cancel, Confirm, SendEnds, Frozen
      <3>2. CASE NextGeneration
        <4>1. t.gen \in Gens /\ t.gen < MaxFeeGen
          BY <1>0, <1>2, <3>2, FormTypes DEF NextGeneration
        <4>2. t.gen + 1 \in Gens
          BY <4>1, FeeConstants DEF Gens
        <4>3. u = [t EXCEPT !.gen = t.gen + 1] /\ ~Frozen(t)
          BY <1>0, <1>1, <3>2 DEF NextGeneration, Command
        <4> QED BY <4>2, <4>3
      <3> QED BY <1>10, <3>1, <3>2
    <2>2. /\ u \in FeeForm /\ u.seq = t.seq /\ u.running = t.running /\ u.native = t.native
          /\ u.maxFilled = t.maxFilled /\ u.refining = t.refining /\ u.queued = t.queued
          /\ u.pendingMax = t.pendingMax /\ u.estimating = t.estimating /\ u.recipient = t.recipient
          /\ u.balance = t.balance
      BY <1>2, <2>1, ZenonT(40) DEF FeeForm
    <2>3. Frozen(t) \/ ~Frozen(u)
      BY <1>2, <2>1, Zenon DEF FeeForm, Frozen
    <2>4. u.refining => u.estimating \/ (u.balance = 0 /\ ~Frozen(u)) \/ ~u.recipient
      BY <1>2, <2>2, <2>3, Zenon DEF RefinementHolds
    <2> QED BY <1>2, <2>2, <2>4, SameForm DEF Kept, AmountKept
  <1>11. CASE SeedActivated
    <2>1. PICK g \in Gens : u = [t EXCEPT !.gen = g, !.balance = 0, !.fee = 0, !.estimating = FALSE,
                                          !.native = TRUE]
      <3>1. t.gen \in Gens /\ t.gen < MaxFeeGen
        BY <1>0, <1>2, <1>11, FormTypes DEF SeedActivated
      <3>2. t.gen + 1 \in Gens
        BY <3>1, FeeConstants DEF Gens
      <3>3. u = [t EXCEPT !.gen = t.gen + 1, !.balance = 0, !.fee = 0, !.estimating = FALSE,
                                          !.native = TRUE]
        BY <1>0, <1>1, <1>11 DEF SeedActivated, Command
      <3> QED BY <3>2, <3>3
    <2>2. /\ u \in FeeForm /\ u.seq = t.seq /\ u.running = t.running /\ u.native = TRUE
          /\ u.maxFilled = t.maxFilled /\ u.refining = t.refining /\ u.queued = t.queued
          /\ u.pendingMax = t.pendingMax /\ u.estimating = FALSE /\ u.recipient = t.recipient
          /\ u.balance = 0 /\ u.auth = t.auth /\ u.sending = t.sending
      BY <1>2, <2>1, Absent, Zenon DEF FeeForm
    <2>3. ~Frozen(u)
      BY <1>0, <1>11, <2>2, Zenon DEF SeedActivated, Command, Frozen
    <2>4. Running(u) = Running(t)
      BY <2>2 DEF Running
    <2>5. FormHolds(u)
      BY <1>2, <2>2, <2>4, Zenon DEF FormHolds
    <2>6. RefinementHolds(u)
      BY <1>2, <2>2, <2>3, <2>4, Zenon DEF RefinementHolds
    <2> QED BY <2>2, <2>5, <2>6 DEF Kept, AmountKept
  <1>12. CASE LockAndUnlock
    <2>1. PICK c : c = ClearPendingMax(t)
      OBVIOUS
    <2>2. /\ c \in FeeForm /\ c.running = t.running /\ c.seq = t.seq /\ c.pendingMax = 0
          /\ ~c.queued /\ ~c.refining /\ c.gen = t.gen
      BY <1>2, <2>1, ClearFacts
    <2>3. PICK g : g = c.gen + 1
      OBVIOUS
    <2>4. g \in Gens /\ 0 \in Nat
      <3>1. t.gen \in Gens /\ t.gen < MaxFeeGen
        BY <1>0, <1>2, <1>12, FormTypes DEF LockAndUnlock
      <3> QED BY <2>2, <2>3, <3>1, FeeConstants DEF Gens
    <2>5. u = [c EXCEPT !.gen = g, !.balance = 0, !.fee = 0,
                    !.estimating = FALSE, !.native = TRUE, !.recipient = FALSE, !.amount = 0,
                    !.maxFilled = FALSE, !.timer = FALSE, !.stale = FALSE, !.auth = FALSE,
                    !.sending = FALSE]
      BY <1>0, <1>1, <1>12, <2>1, <2>3 DEF LockAndUnlock
    <2>6. u \in FeeForm
      BY <2>2, <2>4, <2>5, Absent, ZenonT(120) DEF FeeForm
    <2>7. /\ u.running = c.running /\ u.seq = c.seq /\ u.pendingMax = c.pendingMax
          /\ u.queued = c.queued /\ u.refining = c.refining /\ u.estimating = FALSE
      BY <2>2, <2>5, ZenonT(60) DEF FeeForm
    <2>8. /\ u.running = t.running /\ u.seq = t.seq /\ u.pendingMax = 0
          /\ ~u.queued /\ ~u.refining /\ (u.estimating => t.estimating)
      BY <2>2, <2>7
    <2> QED BY <1>2, <2>6, <2>8, WithoutRefinement DEF Kept, AmountKept
  <1>13. CASE SendEnds(TRUE)
    <2>1. PICK c : c = ClearPendingMax(t)
      OBVIOUS
    <2>2. /\ c \in FeeForm /\ c.running = t.running /\ c.seq = t.seq /\ c.pendingMax = 0
          /\ ~c.queued /\ ~c.refining /\ c.estimating = t.estimating
      BY <1>2, <2>1, ClearFacts
    <2>3. u = [c EXCEPT !.sending = FALSE, !.maxFilled = FALSE, !.timer = FALSE, !.recipient = FALSE,
                        !.amount = 0]
      BY <1>0, <1>1, <1>13, <2>1 DEF SendEnds
    <2>4. 0 \in Nat
      OBVIOUS
    <2>5. /\ u \in FeeForm /\ u.running = c.running /\ u.seq = c.seq /\ u.pendingMax = c.pendingMax
          /\ u.queued = c.queued /\ u.refining = c.refining /\ u.estimating = c.estimating
      BY <2>2, <2>3, <2>4, Zenon DEF FeeForm
    <2>6. /\ u.running = t.running /\ u.seq = t.seq /\ u.pendingMax = 0
          /\ ~u.queued /\ ~u.refining /\ (u.estimating => t.estimating)
      BY <2>2, <2>5
    <2> QED BY <1>2, <2>5, <2>6, WithoutRefinement DEF Kept, AmountKept
  <1>14. ASSUME NEW b \in Balances, Snapshot(b) PROVE Kept(u) /\ AmountKept(t, u)
    <2>1. PICK w : w = [t EXCEPT !.balance = b]
      OBVIOUS
    <2>2. t.seq + 1 \in Seqs /\ (u = IF Frozen(w) THEN w ELSE EstimateFee(w))
      BY <1>0, <1>1, <1>2, <1>14, <2>1, NextSeq DEF Snapshot, FeeRoom
    <2>3. b \in Known(Balances) /\ b # 0
      BY FeeConstants DEF Known
    <2>4. /\ w \in FeeForm /\ w.seq = t.seq /\ w.running = t.running /\ w.native = t.native
          /\ w.maxFilled = t.maxFilled /\ w.refining = t.refining /\ w.queued = t.queued
          /\ w.pendingMax = t.pendingMax /\ w.estimating = t.estimating /\ w.recipient = t.recipient
          /\ w.balance = b /\ w.auth = t.auth /\ w.sending = t.sending
      BY <1>2, <2>1, <2>3, Zenon DEF FeeForm
    <2>5. Running(w) = Running(t) /\ Frozen(w) = Frozen(t)
      BY <2>4 DEF Running, Frozen
    <2>6. FormHolds(w)
      BY <1>2, <2>4, <2>5, Zenon DEF FormHolds
    <2>7. CASE Frozen(w)
      <3>1. RefinementHolds(w)
        BY <1>2, <2>4, <2>5, <2>7, Zenon DEF RefinementHolds
      <3> QED BY <2>2, <2>4, <2>6, <2>7, <3>1 DEF Kept, AmountKept
    <2>8. CASE ~Frozen(w)
      <3>1. w.seq + 1 \in Seqs /\ ~(w.balance = 0) /\ u = EstimateFee(w)
        BY <2>2, <2>3, <2>4, <2>8
      <3>2. u \in FeeForm /\ FormHolds(u) /\ RefinementHolds(u) /\ w.running \subseteq u.running
        BY <2>4, <2>6, <3>1, EstimateFeeHolds
      <3> QED BY <2>4, <3>2 DEF Kept, AmountKept
    <2> QED BY <2>7, <2>8
  <1>15. ASSUME NEW r \in s.running, FeeEstimateFailed(r) PROVE Kept(u) /\ AmountKept(t, u)
    <2>1. PICK w : w = EndedOf(t, r)
      OBVIOUS
    <2>2. PICK v : v = IF r.gen = t.gen THEN [w EXCEPT !.fee = 0] ELSE w
      OBVIOUS
    <2>3. r \in t.running /\ r.seq = t.seq /\ t.seq + 1 \in Seqs
      BY <1>0, <1>2, <1>15, NextSeq DEF FeeEstimateFailed, FeeRoom
    <2>4. u = IF Owns(v, r) THEN ClearPendingMax(v) ELSE StartQueuedMax(v)
      BY <1>0, <1>1, <1>15, <2>1, <2>2 DEF FeeEstimateFailed, Finished, Answered, EndedOf
    <2> QED BY <1>2, <2>1, <2>2, <2>3, <2>4, FeeEstimateFailedHolds
  <1>16. ASSUME NEW r \in s.running, Overtaken(r) PROVE Kept(u) /\ AmountKept(t, u)
    <2>1. r \in t.running /\ r.seq # t.seq /\ u = [t EXCEPT !.running = @ \ {r}]
      BY <1>0, <1>1, <1>16 DEF Overtaken, Answered
    <2> QED BY <1>2, <2>1, OvertakenHolds
  <1>17. ASSUME NEW r \in s.running, NEW f \in Fees, FeeEstimated(r, f)
         PROVE  Kept(u) /\ AmountKept(t, u)
    <2>1. PICK w : w = EndedOf(t, r)
      OBVIOUS
    <2>2. r \in t.running /\ r.seq = t.seq /\ ~r.max /\ t.seq + 1 \in Seqs
      BY <1>0, <1>2, <1>17, NextSeq DEF FeeEstimated, FeeRoom
    <2>3. u = StartQueuedMax(IF r.gen = t.gen THEN [w EXCEPT !.fee = f] ELSE w)
      BY <1>0, <1>1, <1>17, <2>1 DEF FeeEstimated, Finished, Answered, EndedOf
    <2> QED BY <1>2, <2>1, <2>2, <2>3, FeeEstimatedHolds
  <1>18. ASSUME NEW r \in s.running, NEW f \in Fees, MaxFeeEstimated(r, f)
         PROVE  Kept(u) /\ AmountKept(t, u)
    <2>1. PICK w : w = EndedOf(t, r)
      OBVIOUS
    <2>2. PICK applies \in BOOLEAN : applies = (r.gen = w.gen /\ Owns(w, r) /\ ~Frozen(w))
      OBVIOUS
    <2>3. PICK v : v = IF applies /\ w.balance # 0
                       THEN [w EXCEPT !.fee = f, !.amount = MaxSpendable(w.balance, f)] ELSE w
      OBVIOUS
    <2>4. r \in t.running /\ r.seq = t.seq /\ t.seq + 1 \in Seqs
      BY <1>0, <1>2, <1>18, NextSeq DEF MaxFeeEstimated, FeeRoom
    <2>5. u = IF applies /\ w.balance # w.maxBalance THEN SetMaxAmount(ClearPendingMax(w))
              ELSE IF Owns(w, r) THEN ClearPendingMax(v) ELSE StartQueuedMax(v)
      <3>1. w = Finished(r)
        BY <1>0, <2>1 DEF Finished, Answered, EndedOf
      <3>2. u = IF (r.gen = w.gen /\ Owns(w, r) /\ ~Frozen(w)) /\ w.balance # w.maxBalance
                THEN SetMaxAmount(ClearPendingMax(w))
                ELSE IF Owns(w, r)
                     THEN ClearPendingMax(IF (r.gen = w.gen /\ Owns(w, r) /\ ~Frozen(w)) /\ w.balance # 0
                                          THEN [w EXCEPT !.fee = f, !.amount = MaxSpendable(w.balance, f)]
                                          ELSE w)
                     ELSE StartQueuedMax(IF (r.gen = w.gen /\ Owns(w, r) /\ ~Frozen(w)) /\ w.balance # 0
                                          THEN [w EXCEPT !.fee = f, !.amount = MaxSpendable(w.balance, f)]
                                          ELSE w)
        BY <1>1, <1>18, <3>1, Zenon DEF MaxFeeEstimated
      <3> QED BY <2>2, <2>3, <3>2, Zenon
    <2>6. applies => Owns(w, r) /\ ~Frozen(w)
      BY <2>2
    <2> QED BY <1>2, <2>1, <2>3, <2>4, <2>5, <2>6, MaxFeeEstimatedHolds
  <1>19. (\E v \in BOOLEAN : SendEnds(v)) => SendEnds(TRUE) \/ SendEnds(FALSE)
    OBVIOUS
  <1> QED BY <1>3, <1>4, <1>5, <1>6, <1>7, <1>8, <1>9, <1>10, <1>11, <1>12, <1>13, <1>14, <1>15,
             <1>16, <1>17, <1>18, <1>19 DEF FeeNext

\* The invariant of the send form.
LEMMA FeeInductive == FeeSpec => []FeeIInv
  <1>1. FeeInit => FeeIInv
    <2> SUFFICES ASSUME FeeInit PROVE FeeIInv
      OBVIOUS
    <2>1. FeeTypeOK
      <3>1. 0 \in Nat /\ 0 \in Gens /\ {} \in SUBSET Requests
        BY FeeConstants DEF Gens
      <3> QED BY <3>1, Absent, Zenon DEF FeeInit, FeeTypeOK, FeeForm
    <2>2. s.running = {} /\ s.refining = FALSE /\ s.queued = FALSE /\ s.pendingMax = 0
          /\ s.estimating = FALSE /\ s.seq = 0
      BY Zenon DEF FeeInit
    <2>3. FormHolds(s) /\ RefinementHolds(s)
      BY <2>2 DEF FormHolds, RefinementHolds
    <2> QED BY <2>1, <2>3 DEF FeeIInv
  <1>2. FeeIInv /\ [FeeNext]_feeVars => FeeIInv'
    <2> SUFFICES ASSUME FeeIInv, [FeeNext]_feeVars PROVE FeeIInv'
      OBVIOUS
    <2>1. CASE FeeNext
      BY <2>1, FeeStep DEF FeeIInv, Kept, FeeTypeOK
    <2>2. CASE UNCHANGED feeVars
      BY <2>2 DEF FeeIInv, feeVars, FeeTypeOK
    <2> QED BY <2>1, <2>2
  <1> QED BY <1>1, <1>2, PTL DEF FeeSpec

\* A MAX amount that is being refined is waited for by an estimate that is
\* under way or queued, whatever the user, the answers and the endpoint do
\* (set_max_amount, start_queued_max and the apply_ functions of the answers).
THEOREM MaxIsServedAlways == FeeSpec => []MaxIsServed
  <1>1. FeeIInv => MaxIsServed
    <2> SUFFICES ASSUME FeeIInv PROVE MaxIsServed
      OBVIOUS
    <2>1. RefiningIsServed
      BY DEF FeeIInv, RefinementHolds, Running, RefiningIsServed, Latest
    <2> QED BY <2>1 DEF FeeIInv, MaxIsServed
  <1> QED BY <1>1, FeeInductive, PTL

\* No answer writes over an amount the user typed: only an amount that MAX
\* filled in is replaced, by the answer to its own estimate
\* (apply_max_fee_estimated).
THEOREM AmountIsTheUsersAlways == FeeSpec => AmountIsTheUsers
  <1>1. FeeIInv /\ [FeeNext]_feeVars => [UserKeepsAmount]_feeVars
    <2> SUFFICES ASSUME FeeIInv, FeeNext PROVE UserKeepsAmount
      OBVIOUS
    <2>1. AmountKept(s, s')
      BY FeeStep DEF FeeIInv
    <2> QED BY <2>1 DEF AmountKept, UserKeepsAmount
  <1> QED BY <1>1, FeeInductive, PTL DEF FeeSpec, AmountIsTheUsers

\* What MAX filled in is refined, and what the user typed is left alone
\* (set_max_amount, start_queued_max, apply_max_fee_estimated).
THEOREM MaxIsSoundAlways == FeeSpec => MaxIsSound
  BY MaxIsServedAlways, AmountIsTheUsersAlways, PTL DEF MaxIsSound

-----------------------------------------------------------------------------
(* LiveWallet: the loads.                                                  *)

\* Loads are numbered apart.
LoadsNumbered ==
    /\ \A l \in loads : l.id <= lastId
    /\ \A l1, l2 \in loads : l1.id = l2.id => l1 = l2
    /\ manualId <= lastId /\ autoId <= lastId

\* What waits for a load has one.
WaitedFor ==
    /\ manualId # 0 => \E l \in loads : l.manual /\ l.id = manualId
    /\ autoId # 0 => \E l \in loads : ~l.manual /\ l.id = autoId
    /\ busy <=> manualId # 0

\* The loads are well formed.
LoadType ==
    /\ loads \in SUBSET Load /\ manualId \in 0..MaxLoads /\ autoId \in 0..MaxLoads
    /\ lastId \in 0..MaxLoads /\ again \in BOOLEAN /\ busy \in BOOLEAN

\* What a step does to the loads.
LoadsAlone == UNCHANGED <<loads, manualId, autoId, again, busy, lastId>>
LoadAsked ==
    /\ lastId < MaxLoads /\ lastId' = lastId + 1 /\ manualId' = lastId + 1 /\ busy' = TRUE
    /\ loads' = loads \cup {Started(TRUE, lastId + 1, Resolved(custom', selected'), liveGen')}
    /\ (autoId' = autoId /\ again' = again) \/ (autoId' = 0 /\ again' = FALSE)
LoadRead(l) ==
    /\ l \in loads /\ l.read = 0 /\ loads' = (loads \ {l}) \cup {[l EXCEPT !.read = version]}
    /\ UNCHANGED <<manualId, autoId, again, busy, lastId>>
LoadDropped(l) ==
    /\ l \in loads /\ ~Awaited(l) /\ loads' = loads \ {l}
    /\ UNCHANGED <<manualId, autoId, again, busy, lastId>>
LoadOver(l) ==
    /\ l \in loads /\ l.manual /\ l.id = manualId /\ manualId' = 0 /\ busy' = FALSE
    /\ loads' = loads \ {l} /\ UNCHANGED <<autoId, again, lastId>>
RefreshOver(l) ==
    /\ l \in loads /\ ~l.manual /\ l.id = autoId /\ autoId' = 0 /\ again' = FALSE
    /\ loads' = loads \ {l} /\ UNCHANGED <<manualId, busy, lastId>>
RefreshStarted(ls) ==
    /\ \/ ls = loads /\ autoId = 0
       \/ \E l \in loads : ~l.manual /\ l.id = autoId /\ ls = loads \ {l}
    /\ lastId < MaxLoads /\ lastId' = lastId + 1 /\ autoId' = lastId + 1 /\ again' = FALSE
    /\ loads' = ls \cup {Started(FALSE, lastId + 1, InUse, liveGen')}
    /\ UNCHANGED <<manualId, busy>>
RefreshQueued ==
    /\ autoId # 0 /\ again' = TRUE /\ UNCHANGED <<loads, manualId, autoId, busy, lastId>>

LoadsMove ==
    \/ LoadsAlone \/ LoadAsked \/ RefreshQueued
    \/ \E l \in loads : LoadRead(l) \/ LoadDropped(l) \/ LoadOver(l) \/ RefreshOver(l)
    \/ \E ls \in SUBSET loads : RefreshStarted(ls)

\* A load that is over.
LEMMA TaskOverMoves ==
    ASSUME NEW l \in loads, NEW more \in BOOLEAN, Awaited(l), TaskOver(l, liveGen', more)
    PROVE  LoadOver(l) \/ RefreshOver(l) \/ RefreshStarted(loads \ {l})
  <1>1. CASE ManualDone(l)
    BY <1>1 DEF ManualDone, LoadOver, Awaited
  <1>2. CASE AutoDone(l, liveGen', more)
    <2>1. ~l.manual /\ l.id = autoId
      BY <1>2 DEF AutoDone, Awaited
    <2>2. CASE again /\ more
      BY <1>2, <2>1, <2>2 DEF AutoDone, AutoRefresh, RefreshStarted
    <2>3. CASE ~(again /\ more)
      BY <1>2, <2>1, <2>3 DEF AutoDone, RefreshOver
    <2> QED BY <2>2, <2>3
  <1> QED BY <1>1, <1>2 DEF TaskOver

\* Every step of the snapshot and its subscription moves the loads in one of
\* the few ways LoadsMove lists.
LEMMA StepMovesLoads ==
    ASSUME LiveNext PROVE LoadsMove
  <1>1. ASSUME NEW e \in Custom, AddEndpoint(e) PROVE LoadsMove
    BY <1>1 DEF AddEndpoint, LoadsMove, LoadsAlone
  <1>2. ASSUME NEW c, NEW i, Reconnect(c, i), custom' = c, selected' = i PROVE LoadAsked
    BY <1>2 DEF Reconnect, Stopped, SpawnManual, LoadAsked
  <1>3. ASSUME NEW e \in Custom, RemoveEndpoint(e) PROVE LoadsMove
    <2>1. (\E c, i : Reconnect(c, i) /\ custom' = c /\ selected' = i) \/ LoadsAlone
      BY <1>3 DEF RemoveEndpoint, LoadsAlone
    <2> QED BY <2>1, <1>2 DEF LoadsMove
  <1>4. ASSUME NEW i \in 1..Cardinality(LiveEndpoints), Select(i) PROVE LoadsMove
    BY <1>4, <1>2 DEF Select, LoadsMove
  <1>5. CASE RefreshWallet
    BY <1>5 DEF RefreshWallet, SpawnManual, LoadAsked, LoadsMove
  <1>6. ASSUME NEW l \in loads, LoadAnswer(l) PROVE LoadsMove
    BY <1>6 DEF LoadAnswer, LoadRead, LoadsMove
  <1>7. ASSUME NEW l \in loads, Ignored(l) PROVE LoadsMove
    BY <1>7 DEF Ignored, LoadDropped, LoadsMove
  <1>8. ASSUME NEW l \in loads, Adopt(l) \/ WrongNetwork(l) \/ LoadFails(l) \/ Superseded(l) PROVE LoadsMove
    <2>1. Awaited(l) /\ \E more \in BOOLEAN : TaskOver(l, liveGen', more)
      BY <1>8 DEF Adopt, WrongNetwork, LoadFails, Superseded
    <2>2. LoadOver(l) \/ RefreshOver(l) \/ RefreshStarted(loads \ {l})
      BY <2>1, TaskOverMoves
    <2> QED BY <2>2 DEF LoadsMove
  <1>9. CASE StreamOpens \/ StreamEnds \/ AccountChanges \/ RetrySubscription
    BY <1>9 DEF StreamOpens, StreamEnds, AccountChanges, RetrySubscription, LoadsMove, LoadsAlone
  <1>10. ASSUME NEW ev \in inbox, DropEvent(ev) \/ SubscriptionFailed(ev) PROVE LoadsMove
    BY <1>10 DEF DropEvent, SubscriptionFailed, LoadsMove, LoadsAlone
  <1>11. ASSUME NEW ev \in inbox, SubscriptionReady(ev) \/ SubscriptionUpdate(ev) PROVE LoadsMove
    <2>1. UNCHANGED <<liveGen, manualId, busy>>
      BY <1>11 DEF SubscriptionReady, SubscriptionUpdate
    <2>2. AutoRefresh(loads, autoId, liveGen) \/ UNCHANGED <<loads, autoId, again, lastId>>
      BY <1>11 DEF SubscriptionReady, SubscriptionUpdate
    <2>3. CASE AutoRefresh(loads, autoId, liveGen)
      BY <2>1, <2>3 DEF AutoRefresh, LoadsMove, RefreshQueued, RefreshStarted
    <2> QED BY <2>1, <2>2, <2>3 DEF LoadsMove, LoadsAlone
  <1> QED BY <1>1, <1>3, <1>4, <1>5, <1>6, <1>7, <1>8, <1>9, <1>10, <1>11 DEF LiveNext

\* An endpoint is always in use.
LoadsTypes ==
    /\ LoadType /\ version \in 1..MaxVersion
    /\ liveGen' \in 0..MaxSubscriptions /\ Resolved(custom', selected') \in LiveEndpoints /\ InUse \in LiveEndpoints

\* The fields of a load.
LEMMA LoadFields ==
    ASSUME NEW l \in Load
    PROVE  l.id \in Nat /\ l.id # 0 /\ l.id \in 1..MaxLoads /\ l.manual \in BOOLEAN /\ l.read \in Nat
  BY LiveConstants DEF Load

\* A load that has started has the other fields it had.
LEMMA StartedFields ==
    ASSUME NEW m \in BOOLEAN, NEW i \in 1..MaxLoads, NEW at \in LiveEndpoints,
           NEW g \in 0..MaxSubscriptions, NEW n, n = Started(m, i, at, g)
    PROVE  n \in Load /\ n.id = i /\ n.manual = m /\ n.at = at /\ n.gen = g /\ n.read = 0
  BY LiveConstants DEF Load, Started

\* A load that has read has the other fields it had.
LEMMA ReadFields ==
    ASSUME NEW l \in Load, NEW v \in 0..MaxVersion, NEW n, n = [l EXCEPT !.read = v]
    PROVE  n \in Load /\ n.id = l.id /\ n.manual = l.manual /\ n.at = l.at /\ n.gen = l.gen /\ n.read = v
  BY DEF Load

\* The next number, and the load that is started under it.
LEMMA NextLoad ==
    ASSUME LoadsTypes, lastId < MaxLoads
    PROVE  /\ lastId + 1 \in 1..MaxLoads /\ lastId + 1 \in 0..MaxLoads
           /\ lastId + 1 \in Nat /\ lastId + 1 # 0 /\ lastId <= lastId + 1
  BY LiveConstants DEF LoadsTypes, LoadType

\* A new load is well formed and its number is new.
LEMMA NewLoad ==
    ASSUME LoadsTypes, lastId < MaxLoads, NEW m \in BOOLEAN, NEW at \in LiveEndpoints,
           NEW n, n = Started(m, lastId + 1, at, liveGen')
    PROVE  /\ n \in Load /\ n.id = lastId + 1 /\ n.manual = m /\ n.at = at
           /\ n.gen = liveGen' /\ n.read = 0
  <1>1. PICK k : k = lastId + 1
    OBVIOUS
  <1>2. PICK g : g = liveGen'
    OBVIOUS
  <1>3. k \in 1..MaxLoads
    BY <1>1, NextLoad
  <1>4. g \in 0..MaxSubscriptions
    BY <1>2 DEF LoadsTypes
  <1>5. n = Started(m, k, at, g)
    BY <1>1, <1>2
  <1>6. n \in Load /\ n.id = k /\ n.manual = m /\ n.at = at /\ n.gen = g /\ n.read = 0
    BY <1>3, <1>4, <1>5, StartedFields
  <1> QED BY <1>1, <1>2, <1>6

\* The load that is asked for, and the automatic one.
LEMMA AskedLoad ==
    ASSUME LoadsTypes, LoadAsked
    PROVE  \E n \in Load : /\ loads' = loads \cup {n} /\ n.id = lastId + 1 /\ n.manual = TRUE
                           /\ n.at = Resolved(custom', selected') /\ n.gen = liveGen' /\ n.read = 0
  <1>1. PICK n : n = Started(TRUE, lastId + 1, Resolved(custom', selected'), liveGen')
    OBVIOUS
  <1>2. PICK m \in BOOLEAN : m = TRUE
    OBVIOUS
  <1>3. PICK at \in LiveEndpoints : at = Resolved(custom', selected')
    BY DEF LoadsTypes
  <1>4. n = Started(m, lastId + 1, at, liveGen') /\ lastId < MaxLoads
    BY <1>1, <1>2, <1>3 DEF LoadAsked
  <1>5. n \in Load /\ n.id = lastId + 1 /\ n.manual = m /\ n.at = at /\ n.gen = liveGen' /\ n.read = 0
    BY <1>4, NewLoad
  <1>6. loads' = loads \cup {n}
    BY <1>1 DEF LoadAsked
  <1> QED BY <1>2, <1>3, <1>5, <1>6

\* So does the start of an automatic load.
LEMMA StartedLoad ==
    ASSUME LoadsTypes, NEW ls, RefreshStarted(ls)
    PROVE  \E n \in Load : /\ loads' = ls \cup {n} /\ n.id = lastId + 1 /\ n.manual = FALSE
                           /\ n.at = InUse /\ n.gen = liveGen' /\ n.read = 0
  <1>1. PICK n : n = Started(FALSE, lastId + 1, InUse, liveGen')
    OBVIOUS
  <1>2. PICK m \in BOOLEAN : m = FALSE
    OBVIOUS
  <1>3. PICK at \in LiveEndpoints : at = InUse
    BY DEF LoadsTypes
  <1>4. n = Started(m, lastId + 1, at, liveGen') /\ lastId < MaxLoads
    BY <1>1, <1>2, <1>3 DEF RefreshStarted
  <1>5. n \in Load /\ n.id = lastId + 1 /\ n.manual = m /\ n.at = at /\ n.gen = liveGen' /\ n.read = 0
    BY <1>4, NewLoad
  <1>6. loads' = ls \cup {n}
    BY <1>1 DEF RefreshStarted
  <1> QED BY <1>2, <1>3, <1>5, <1>6

\* The load whose endpoint answers.
LEMMA ReadLoad ==
    ASSUME LoadsTypes, NEW l \in loads, LoadRead(l)
    PROVE  \E n \in Load : /\ loads' = (loads \ {l}) \cup {n} /\ n.id = l.id /\ n.manual = l.manual
                           /\ n.at = l.at /\ n.gen = l.gen /\ n.read = version
  <1>1. PICK v : v = version
    OBVIOUS
  <1>2. v \in 0..MaxVersion /\ l \in Load
    BY <1>1 DEF LoadsTypes, LoadType
  <1>3. PICK n : n = [l EXCEPT !.read = v]
    OBVIOUS
  <1>4. n \in Load /\ n.id = l.id /\ n.manual = l.manual /\ n.at = l.at /\ n.gen = l.gen /\ n.read = v
    BY <1>2, <1>3, ReadFields
  <1>5. loads' = (loads \ {l}) \cup {n}
    BY <1>1, <1>3 DEF LoadRead
  <1> QED BY <1>1, <1>4, <1>5

\* Loads stay well formed.
LEMMA StepLoadType ==
    ASSUME LoadsTypes, LoadsMove PROVE LoadType'
  <1>0. LoadType /\ 0 \in 0..MaxLoads
    BY LiveConstants DEF LoadsTypes
  <1>1. CASE LoadsAlone \/ RefreshQueued
    BY <1>0, <1>1 DEF LoadsAlone, RefreshQueued, LoadType
  <1>2. CASE LoadAsked
    <2>2. PICK n \in Load : loads' = loads \cup {n}
      BY <1>2, AskedLoad
    <2>3. lastId + 1 \in 0..MaxLoads
      BY <1>2, NextLoad DEF LoadAsked
    <2> QED BY <1>0, <1>2, <2>2, <2>3 DEF LoadAsked, LoadType
  <1>3. ASSUME NEW l \in loads, LoadRead(l) PROVE LoadType'
    <2>1. PICK n \in Load : loads' = (loads \ {l}) \cup {n}
      BY <1>3, ReadLoad
    <2> QED BY <1>0, <1>3, <2>1 DEF LoadRead, LoadType
  <1>4. ASSUME NEW l \in loads, LoadDropped(l) \/ LoadOver(l) \/ RefreshOver(l) PROVE LoadType'
    BY <1>0, <1>4 DEF LoadDropped, LoadOver, RefreshOver, LoadType
  <1>5. ASSUME NEW ls \in SUBSET loads, RefreshStarted(ls) PROVE LoadType'
    <2>2. PICK n \in Load : loads' = ls \cup {n}
      BY <1>5, StartedLoad
    <2>3. lastId + 1 \in 0..MaxLoads
      BY <1>5, NextLoad DEF RefreshStarted
    <2> QED BY <1>0, <1>5, <2>2, <2>3 DEF RefreshStarted, LoadType
  <1> QED BY <1>1, <1>2, <1>3, <1>4, <1>5 DEF LoadsMove

\* Loads stay numbered apart.
LEMMA StepLoadsNumbered ==
    ASSUME LoadsTypes, LoadsNumbered, LoadsMove PROVE LoadsNumbered'
  <1>0. LoadType /\ lastId \in Nat /\ manualId \in Nat /\ autoId \in Nat
    BY LiveConstants DEF LoadsTypes, LoadType
  <1>a. \A l \in loads : l.id \in Nat /\ l.id # 0 /\ l.id <= lastId /\ l.id <= lastId + 1 /\ l.id # lastId + 1
    BY <1>0, LoadFields DEF LoadType, LoadsNumbered
  <1>1. CASE LoadsAlone \/ RefreshQueued
    BY <1>1 DEF LoadsAlone, RefreshQueued, LoadsNumbered
  <1>2. CASE LoadAsked
    <2>2. PICK n \in Load : loads' = loads \cup {n} /\ n.id = lastId + 1
      BY <1>2, AskedLoad
    <2>3. autoId' <= lastId + 1 /\ lastId + 1 <= lastId + 1
      BY <1>0, <1>2 DEF LoadAsked, LoadsNumbered
    <2>4. loads' = loads \cup {n} /\ lastId' = lastId + 1 /\ manualId' = lastId + 1
      BY <1>2, <2>2 DEF LoadAsked
    <2> QED BY <1>a, <2>2, <2>3, <2>4 DEF LoadsNumbered
  <1>3. ASSUME NEW l \in loads, LoadRead(l) PROVE LoadsNumbered'
    <2>3. PICK n \in Load : loads' = (loads \ {l}) \cup {n} /\ n.id = l.id
      BY <1>3, ReadLoad
    <2>4. UNCHANGED <<manualId, autoId, lastId>>
      BY <1>3 DEF LoadRead
    <2> QED BY <2>3, <2>4 DEF LoadsNumbered
  <1>4. ASSUME NEW l \in loads, LoadDropped(l) \/ LoadOver(l) \/ RefreshOver(l) PROVE LoadsNumbered'
    BY <1>0, <1>4 DEF LoadDropped, LoadOver, RefreshOver, LoadsNumbered
  <1>5. ASSUME NEW ls \in SUBSET loads, RefreshStarted(ls) PROVE LoadsNumbered'
    <2>2. PICK n \in Load : loads' = ls \cup {n} /\ n.id = lastId + 1
      BY <1>5, StartedLoad
    <2>3. manualId <= lastId + 1 /\ lastId + 1 <= lastId + 1
      BY <1>0 DEF LoadsNumbered
    <2>4. loads' = ls \cup {n} /\ lastId' = lastId + 1 /\ autoId' = lastId + 1 /\ manualId' = manualId
      BY <1>5, <2>2 DEF RefreshStarted
    <2> QED BY <1>a, <2>2, <2>3, <2>4 DEF LoadsNumbered
  <1> QED BY <1>1, <1>2, <1>3, <1>4, <1>5 DEF LoadsMove

\* The load that the window or the refresh waits for stays under way.
LEMMA StepWaitedFor ==
    ASSUME LoadsTypes, LoadsNumbered, WaitedFor, LoadsMove PROVE WaitedFor'
  <1>0. LoadType /\ lastId \in Nat /\ manualId \in Nat /\ autoId \in Nat
    BY LiveConstants DEF LoadsTypes, LoadType
  <1>1. CASE LoadsAlone \/ RefreshQueued
    BY <1>1 DEF LoadsAlone, RefreshQueued, WaitedFor
  <1>2. CASE LoadAsked
    <2>1. PICK n \in Load : loads' = loads \cup {n} /\ n.id = lastId + 1 /\ n.manual = TRUE
      BY <1>2, AskedLoad
    <2>2. lastId + 1 # 0
      BY <1>0
    <2>3. manualId' = lastId + 1 /\ busy' = TRUE
          /\ (autoId' = autoId \/ autoId' = 0)
      BY <1>2 DEF LoadAsked
    <2> QED BY <2>1, <2>2, <2>3 DEF WaitedFor
  <1>3. ASSUME NEW l \in loads, LoadRead(l) PROVE WaitedFor'
    <2>3. PICK n \in Load : loads' = (loads \ {l}) \cup {n} /\ n.id = l.id /\ n.manual = l.manual
      BY <1>3, ReadLoad
    <2>4. UNCHANGED <<manualId, autoId, busy>>
      BY <1>3 DEF LoadRead
    <2> QED BY <2>3, <2>4 DEF WaitedFor
  <1>4. ASSUME NEW l \in loads, LoadDropped(l) PROVE WaitedFor'
    <2>1. loads' = loads \ {l} /\ UNCHANGED <<manualId, autoId, busy>>
      BY <1>4 DEF LoadDropped
    <2>2. (l.manual => l.id # manualId) /\ (~l.manual => l.id # autoId)
      BY <1>4 DEF LoadDropped, Awaited
    <2> QED BY <2>1, <2>2 DEF WaitedFor
  <1>5. ASSUME NEW l \in loads, LoadOver(l) \/ RefreshOver(l) PROVE WaitedFor'
    BY <1>5 DEF LoadOver, RefreshOver, WaitedFor
  <1>6. ASSUME NEW ls \in SUBSET loads, RefreshStarted(ls) PROVE WaitedFor'
    <2>2. PICK n \in Load : loads' = ls \cup {n} /\ n.id = lastId + 1 /\ n.manual = FALSE
      BY <1>6, StartedLoad
    <2>3. autoId' = lastId + 1 /\ manualId' = manualId /\ busy' = busy
      BY <1>6 DEF RefreshStarted
    <2>4. \A l \in loads : l.manual => l \in ls
      BY <1>6 DEF RefreshStarted
    <2> QED BY <2>2, <2>3, <2>4 DEF WaitedFor
  <1> QED BY <1>1, <1>2, <1>3, <1>4, <1>5, <1>6 DEF LoadsMove

-----------------------------------------------------------------------------
(* LiveWallet: the list of endpoints.                                      *)

\* A sequence without one position: each of the others once, in order.
LEMMA RemoveAtFacts ==
    ASSUME NEW S, NEW c \in Seq(S), NEW i \in 1..Len(c), NEW d, d = RemoveAt(c, i)
    PROVE  /\ d \in Seq(S) /\ Len(d) = Len(c) - 1
           /\ \A j \in 1..Len(d) : d[j] = c[IF j < i THEN j ELSE j + 1]
  <1>1. PICK a : a = SubSeq(c, 1, i - 1)
    OBVIOUS
  <1>2. PICK b : b = SubSeq(c, i + 1, Len(c))
    OBVIOUS
  <1>3. a \in Seq(S) /\ Len(a) = i - 1 /\ \A j \in 1..(i - 1) : a[j] = c[j]
    BY <1>1
  <1>4. b \in Seq(S) /\ Len(b) = Len(c) - i /\ \A j \in 1..(Len(c) - i) : b[j] = c[i + j]
    BY <1>2
  <1>5. d = a \o b
    BY <1>1, <1>2 DEF RemoveAt
  <1>6. d \in Seq(S) /\ Len(d) = Len(c) - 1
    <2>0. a \in Seq(S) /\ b \in Seq(S)
      BY <1>3, <1>4
    <2>1. d \in Seq(S) /\ Len(d) = Len(a) + Len(b)
      BY <1>5, <2>0
    <2>2. Len(a) + Len(b) = Len(c) - 1
      BY <1>3, <1>4
    <2> QED BY <2>1, <2>2
  <1>7. ASSUME NEW j \in 1..Len(d) PROVE d[j] = c[IF j < i THEN j ELSE j + 1]
    <2>1. CASE j < i
      <3>1. j \in 1..(i - 1) /\ j \in 1..Len(a)
        BY <2>1, <1>3
      <3>2. d[j] = a[j]
        BY <3>1, <1>3, <1>4, <1>5
      <3> QED BY <3>1, <3>2, <1>3, <2>1
    <2>2. CASE ~(j < i)
      <3>1. j - Len(a) \in 1..Len(b) /\ j - Len(a) = j - (i - 1) /\ j > Len(a)
        BY <2>2, <1>3, <1>4, <1>6
      <3>2. d[j] = b[j - Len(a)]
        BY <3>1, <1>3, <1>4, <1>5, <1>6
      <3>3. b[j - Len(a)] = c[i + (j - Len(a))]
        BY <3>1, <1>4
      <3>4. i + (j - Len(a)) = j + 1
        BY <1>3
      <3> QED BY <3>2, <3>3, <3>4, <2>2
    <2> QED BY <2>1, <2>2
  <1> QED BY <1>6, <1>7

\* A list of custom endpoints, without repetition and without the default, and
\* an index into the list that is displayed.
GoodList(c, i) ==
    /\ c \in Seq(Custom) /\ IsInjective(c) /\ \A k \in 1..Len(c) : c[k] # Default
    /\ i \in 1..Cardinality(LiveEndpoints) /\ i <= Len(c) + 1

\* There are finitely many endpoints, and at least one.
LEMMA EndpointsCounted == Cardinality(LiveEndpoints) \in Nat /\ 1 \in 1..Cardinality(LiveEndpoints)
  <1>1. IsFiniteSet(LiveEndpoints)
    BY LiveConstants, FS_Singleton, FS_Union DEF LiveEndpoints
  <1>2. Cardinality(LiveEndpoints) \in Nat
    BY <1>1, FS_CardinalityType
  <1>3. Cardinality(LiveEndpoints) # 0
    BY <1>1, FS_EmptySet DEF LiveEndpoints
  <1> QED BY <1>2, <1>3

\* The position an index resolves to is one of the list.
LEMMA ResolvedFacts ==
    ASSUME NEW c \in Seq(Custom), NEW i \in Nat, i # 0, i <= Len(c) + 1
    PROVE  /\ i = 1 => Resolved(c, i) = Default
           /\ i # 1 => Resolved(c, i) = c[i - 1] /\ i - 1 \in 1..Len(c)
           /\ Resolved(c, i) \in LiveEndpoints
  <1>1. DisplayList(c) \in Seq(LiveEndpoints) /\ Len(DisplayList(c)) = Len(c) + 1
    BY DEF DisplayList, LiveEndpoints
  <1>2. \A k \in 1..Len(c) + 1 : DisplayList(c)[k] = IF k = 1 THEN Default ELSE c[k - 1]
    BY DEF DisplayList
  <1>3. Resolved(c, i) = DisplayList(c)[i]
    BY <1>1 DEF Resolved
  <1>4. i # 1 => i - 1 \in 1..Len(c)
    OBVIOUS
  <1> QED BY <1>1, <1>2, <1>3, <1>4 DEF LiveEndpoints

\* The list shows the default endpoint and then the custom ones.
LEMMA Displayed ==
    ASSUME NEW c \in Seq(Custom), NEW e
    PROVE  e \in ToSet(DisplayList(c)) <=> e = Default \/ \E k \in 1..Len(c) : c[k] = e
  <1>1. Len(DisplayList(c)) = Len(c) + 1 /\ DisplayList(c) \in Seq(LiveEndpoints)
    BY DEF DisplayList, LiveEndpoints
  <1>2. \A k \in 1..Len(c) + 1 : DisplayList(c)[k] = IF k = 1 THEN Default ELSE c[k - 1]
    BY DEF DisplayList
  <1>3. DOMAIN DisplayList(c) = 1..Len(c) + 1
    BY <1>1
  <1>4. ASSUME e \in ToSet(DisplayList(c)) PROVE e = Default \/ \E k \in 1..Len(c) : c[k] = e
    <2>1. PICK k \in 1..Len(c) + 1 : e = DisplayList(c)[k]
      BY <1>3, <1>4 DEF ToSet
    <2>2. k # 1 => k - 1 \in 1..Len(c)
      OBVIOUS
    <2> QED BY <1>2, <2>1, <2>2
  <1>5. ASSUME e = Default PROVE e \in ToSet(DisplayList(c))
    <2>1. 1 \in 1..Len(c) + 1
      OBVIOUS
    <2> QED BY <1>2, <1>3, <1>5, <2>1 DEF ToSet
  <1>6. ASSUME NEW k \in 1..Len(c), c[k] = e PROVE e \in ToSet(DisplayList(c))
    <2>1. k + 1 \in 1..Len(c) + 1 /\ k + 1 # 1 /\ (k + 1) - 1 = k
      OBVIOUS
    <2>2. DisplayList(c)[k + 1] = c[k]
      BY <1>2, <2>1
    <2> QED BY <1>3, <1>6, <2>1, <2>2 DEF ToSet
  <1> QED BY <1>4, <1>5, <1>6

\* The list without one of its entries.
LEMMA RemovedFacts ==
    ASSUME NEW c \in Seq(Custom), NEW p \in 1..Len(c), NEW d, d = RemoveAt(c, p)
    PROVE  /\ d \in Seq(Custom) /\ Len(d) = Len(c) - 1
           /\ \A k \in 1..Len(d) : d[k] = IF k < p THEN c[k] ELSE c[k + 1]
  <1>1. /\ d \in Seq(Custom) /\ Len(d) = Len(c) - 1
        /\ \A k \in 1..Len(d) : d[k] = c[IF k < p THEN k ELSE k + 1]
    BY RemoveAtFacts
  <1>2. ASSUME NEW k \in 1..Len(d) PROVE d[k] = IF k < p THEN c[k] ELSE c[k + 1]
    BY <1>1
  <1> QED BY <1>1, <1>2

\* add_endpoint changes neither the index nor the endpoint in use.
LEMMA AddedList ==
    ASSUME NEW c, NEW i, GoodList(c, i), NEW e \in Custom, e \notin ToSet(DisplayList(c)),
           NEW d, d = Append(c, e)
    PROVE  GoodList(d, i) /\ Resolved(d, i) = Resolved(c, i)
  <1>1. c \in Seq(Custom) /\ i \in Nat /\ i # 0 /\ i <= Len(c) + 1
    BY EndpointsCounted DEF GoodList
  <1>2. d \in Seq(Custom) /\ Len(d) = Len(c) + 1 /\ d[Len(c) + 1] = e /\ \A k \in 1..Len(c) : d[k] = c[k]
    BY <1>1
  <1>3. e # Default /\ \A k \in 1..Len(c) : c[k] # e
    BY <1>1, Displayed
  <1>4. \A k \in 1..Len(d) : k \in 1..Len(c) \/ k = Len(c) + 1
    BY <1>1, <1>2
  <1>5. \A k, m \in 1..Len(c) : c[k] = c[m] => k = m
    BY <1>1 DEF GoodList, IsInjective
  <1>6. \A k, m \in 1..Len(d) : d[k] = d[m] => k = m
    BY <1>2, <1>3, <1>4, <1>5
  <1>7. IsInjective(d)
    BY <1>2, <1>6 DEF IsInjective
  <1>8. \A k \in 1..Len(d) : d[k] # Default
    BY <1>2, <1>3, <1>4 DEF GoodList
  <1>9. i <= Len(d) + 1
    BY <1>1, <1>2
  <1>10. Resolved(d, i) = Resolved(c, i)
    <2>1. CASE i = 1
      BY <1>1, <1>2, <1>9, <2>1, ResolvedFacts
    <2>2. CASE i # 1
      <3>1. Resolved(c, i) = c[i - 1] /\ i - 1 \in 1..Len(c)
        BY <1>1, <2>2, ResolvedFacts
      <3>2. Resolved(d, i) = d[i - 1]
        BY <1>1, <1>2, <1>9, <2>2, ResolvedFacts
      <3> QED BY <1>2, <3>1, <3>2
    <2> QED BY <2>1, <2>2
  <1> QED BY <1>2, <1>7, <1>8, <1>9, <1>10 DEF GoodList

\* remove_endpoint: the index goes with the endpoint in use, unless that is the
\* one removed.
LEMMA RemovedList ==
    ASSUME NEW c, NEW i, GoodList(c, i), NEW p \in 1..Len(c),
           NEW d, d = RemoveAt(c, p), NEW x, x = Shifted(i, p + 1),
           NEW j, j = IF x > Len(d) + 1 THEN Len(d) + 1 ELSE x
    PROVE  /\ GoodList(d, j)
           /\ Resolved(d, j) = Resolved(c, i) \/ (Resolved(c, i) = c[p] /\ c[p] \notin ToSet(DisplayList(d)))
  <1>1. c \in Seq(Custom) /\ i \in Nat /\ i # 0 /\ i <= Len(c) + 1 /\ i <= Cardinality(LiveEndpoints)
        /\ Len(c) \in Nat /\ Cardinality(LiveEndpoints) \in Nat
    BY EndpointsCounted DEF GoodList
  <1>2. d \in Seq(Custom) /\ Len(d) = Len(c) - 1 /\ \A k \in 1..Len(d) : d[k] = IF k < p THEN c[k] ELSE c[k + 1]
    BY <1>1, RemovedFacts
  <1>3. \A k \in 1..Len(d) : \E m \in 1..Len(c) : d[k] = c[m] /\ m # p
    <2> SUFFICES ASSUME NEW k \in 1..Len(d) PROVE \E m \in 1..Len(c) : d[k] = c[m] /\ m # p
      OBVIOUS
    <2>1. CASE k < p
      BY <1>2, <2>1
    <2>2. CASE ~(k < p)
      <3>1. k + 1 \in 1..Len(c) /\ k + 1 # p
        BY <1>1, <1>2, <2>2
      <3> QED BY <1>2, <2>2, <3>1
    <2> QED BY <2>1, <2>2
  <1>4. \A k, m \in 1..Len(c) : c[k] = c[m] => k = m
    BY <1>1 DEF GoodList, IsInjective
  <1>5. \A k, m \in 1..Len(d) : d[k] = d[m] => k = m
    <2> SUFFICES ASSUME NEW k \in 1..Len(d), NEW m \in 1..Len(d), d[k] = d[m] PROVE k = m
      OBVIOUS
    <2>0. \A l \in 1..Len(d) : l \in 1..Len(c) /\ l + 1 \in 1..Len(c)
      BY <1>1, <1>2
    <2>1. PICK k1 \in 1..Len(c) : k1 = IF k < p THEN k ELSE k + 1
      BY <2>0
    <2>2. PICK m1 \in 1..Len(c) : m1 = IF m < p THEN m ELSE m + 1
      BY <2>0
    <2>3. c[k1] = c[m1]
      BY <1>2, <2>1, <2>2
    <2>4. k1 = m1
      BY <1>4, <2>3
    <2> QED BY <2>1, <2>2, <2>4
  <1>6. IsInjective(d)
    BY <1>2, <1>5 DEF IsInjective
  <1>7. \A k \in 1..Len(d) : d[k] # Default
    BY <1>3 DEF GoodList
  <1>8. j \in Nat /\ j # 0 /\ j <= Len(d) + 1 /\ j <= i /\ j \in 1..Cardinality(LiveEndpoints)
    BY <1>1, <1>2 DEF Shifted
  <1>9. GoodList(d, j)
    BY <1>2, <1>6, <1>7, <1>8 DEF GoodList
  <1>10. CASE i = p + 1
    <2>1. Resolved(c, i) = c[p]
      BY <1>1, <1>10, ResolvedFacts
    <2>2. c[p] # Default
      BY DEF GoodList
    <2>3. \A k \in 1..Len(d) : d[k] # c[p]
      BY <1>3, <1>4
    <2> QED BY <1>2, <1>9, <2>1, <2>2, <2>3, Displayed
  <1>11. CASE i < p + 1
    <2>1. x = i /\ j = i
      BY <1>1, <1>2, <1>11 DEF Shifted
    <2>2. CASE i = 1
      BY <1>1, <1>2, <1>8, <1>9, <2>1, <2>2, ResolvedFacts
    <2>3. CASE i # 1
      <3>1. Resolved(c, i) = c[i - 1] /\ i - 1 \in 1..Len(c)
        BY <1>1, <2>3, ResolvedFacts
      <3>2. Resolved(d, i) = d[i - 1] /\ i - 1 \in 1..Len(d)
        BY <1>1, <1>2, <1>8, <2>1, <2>3, ResolvedFacts
      <3>3. i - 1 < p
        BY <1>1, <1>11
      <3> QED BY <1>2, <1>9, <2>1, <3>1, <3>2, <3>3
    <2> QED BY <2>2, <2>3
  <1>12. CASE i > p + 1
    <2>1. x = i - 1 /\ j = i - 1
      BY <1>1, <1>2, <1>12 DEF Shifted
    <2>2. Resolved(c, i) = c[i - 1]
      BY <1>1, <1>12, ResolvedFacts
    <2>3. j # 1 /\ Resolved(d, j) = d[j - 1] /\ j - 1 \in 1..Len(d)
      <3>1. j \in Nat /\ j # 0 /\ j # 1 /\ j <= Len(d) + 1
        BY <1>1, <1>8, <1>12, <2>1
      <3>2. d \in Seq(Custom)
        BY <1>2
      <3> QED BY <3>1, <3>2, ResolvedFacts
    <2>4. ~(j - 1 < p) /\ (j - 1) + 1 = i - 1
      BY <1>1, <1>12, <2>1
    <2> QED BY <1>2, <1>9, <2>2, <2>3, <2>4
  <1> QED BY <1>1, <1>10, <1>11, <1>12

-----------------------------------------------------------------------------
(* LiveWallet: the stream, the snapshot, and the theorems.                 *)

\* Tasks of a subscription, and snapshots.
Tasks == [gen : 0..MaxSubscriptions, at : LiveEndpoints \cup {NoEndpoint},
          pc : {"none", "connecting", "live", "ended"}]
Wallets == [at : LiveEndpoints \cup {NoEndpoint}, version : 0..MaxVersion]

\* The stream is well formed.
StreamType ==
    /\ version \in 1..MaxVersion /\ wallet \in Wallets /\ error \in BOOLEAN /\ mismatch \in BOOLEAN
    /\ liveGen \in 0..MaxSubscriptions /\ task \in Tasks
    /\ live \in {"offline", "connecting", "live"} /\ retry \in BOOLEAN
    /\ inbox \in SUBSET Event /\ owed \in 0..MaxVersion

\* The loads that are waited for were asked of the endpoint in use.
AwaitedHere == \A l \in loads : Awaited(l) => l.at = InUse

VersionsSeen ==
    /\ owed <= version /\ \A l \in loads : l.read <= version
    /\ \A ev \in inbox : ev.version <= version

UpdateHolds ==
    owed # 0 => \E l \in loads : /\ ~l.manual /\ l.id = autoId
                                 /\ again \/ (l.gen = liveGen /\ (l.read = 0 \/ l.read >= owed))

\* The inductive invariant.
LiveIInv ==
    /\ GoodList(custom, selected) /\ LoadType /\ StreamType
    /\ LoadsNumbered /\ WaitedFor /\ AwaitedHere /\ VersionsSeen /\ UpdateHolds /\ ConnectingIsServed

\* The endpoint in use is one of the list.
LEMMA InUseKnown == GoodList(custom, selected) => InUse \in LiveEndpoints
  BY EndpointsCounted, ResolvedFacts DEF GoodList, InUse

\* The list changes by add_endpoint, select_endpoint and remove_endpoint; with
\* the endpoint in use the subscription changes too.
Switched ==
    /\ LoadAsked /\ autoId' = 0 /\ liveGen' # liveGen /\ task' = NoTask
    /\ custom' = custom \/ InUse \notin ToSet(DisplayList(custom'))

\* reconnect is a change of endpoint.
LEMMA ReconnectSwitches ==
    ASSUME StreamType, NEW c, NEW i, Reconnect(c, i), custom' = c, selected' = i
    PROVE  LoadAsked /\ autoId' = 0 /\ liveGen' # liveGen /\ task' = NoTask
  BY DEF Reconnect, Stopped, SpawnManual, LoadAsked, StreamType

\* The list and the index stay as they should, in every step.
LEMMA StepList ==
    ASSUME GoodList(custom, selected), StreamType, LiveNext
    PROVE  /\ GoodList(custom', selected')
           /\ Resolved(custom', selected') = InUse \/ Switched
  <1>1. CASE UNCHANGED <<custom, selected>>
    BY <1>1 DEF GoodList, InUse
  <1>2. ASSUME NEW e \in Custom, AddEndpoint(e)
        PROVE  GoodList(custom', selected') /\ Resolved(custom', selected') = InUse
    <2>1. e \notin ToSet(DisplayList(custom)) /\ custom' = Append(custom, e) /\ selected' = selected
      BY <1>2 DEF AddEndpoint
    <2>2. GoodList(custom', selected) /\ Resolved(custom', selected) = Resolved(custom, selected)
      BY <2>1, AddedList
    <2> QED BY <2>1, <2>2 DEF InUse
  <1>3. ASSUME NEW i \in 1..Cardinality(LiveEndpoints), Select(i)
        PROVE  GoodList(custom', selected') /\ Switched
    <2>1. i \in 1..Len(DisplayList(custom)) /\ selected' = i /\ custom' = custom /\ Reconnect(custom, i)
      BY <1>3 DEF Select
    <2>2. custom \in Seq(Custom)
      BY DEF GoodList
    <2>3. Len(DisplayList(custom)) = Len(custom) + 1
      BY <2>2 DEF DisplayList
    <2>4. i <= Len(custom) + 1
      BY <2>1, <2>2, <2>3
    <2>5. GoodList(custom', selected')
      BY <2>1, <2>4 DEF GoodList
    <2>6. LoadAsked /\ autoId' = 0 /\ liveGen' # liveGen /\ task' = NoTask
      BY <2>1, ReconnectSwitches
    <2> QED BY <2>1, <2>5, <2>6 DEF Switched
  <1>4. ASSUME NEW e \in Custom, RemoveEndpoint(e)
        PROVE  GoodList(custom', selected') /\ (Resolved(custom', selected') = InUse \/ Switched)
    <2>0. custom \in Seq(Custom)
      BY DEF GoodList
    <2>1. PICK p : p = CHOOSE k \in 1..Len(custom) : custom[k] = e
      OBVIOUS
    <2>2. p \in 1..Len(custom)
      <3>1. \E k \in 1..Len(custom) : custom[k] = e
        BY <1>4, <2>0 DEF RemoveEndpoint, ToSet
      <3> QED BY <2>1, <3>1
    <2>3. PICK d : d = RemoveAt(custom, p)
      OBVIOUS
    <2>4. PICK x : x = Shifted(selected, p + 1)
      OBVIOUS
    <2>5. PICK j : j = IF x > Len(d) + 1 THEN Len(d) + 1 ELSE x
      OBVIOUS
    <2>6. /\ custom' = d /\ selected' = j
          /\ Resolved(d, j) # InUse => Reconnect(d, j)
      BY <1>4, <2>1, <2>3, <2>4, <2>5 DEF RemoveEndpoint
    <2>7. /\ GoodList(d, j)
          /\ Resolved(d, j) = Resolved(custom, selected) \/ Resolved(custom, selected) \notin ToSet(DisplayList(d))
      BY <2>2, <2>3, <2>4, <2>5, RemovedList
    <2>8. CASE Resolved(d, j) = InUse
      BY <2>6, <2>7, <2>8
    <2>9. CASE Resolved(d, j) # InUse
      <3>1. LoadAsked /\ autoId' = 0 /\ liveGen' # liveGen /\ task' = NoTask
        BY <2>6, <2>9, ReconnectSwitches
      <3> QED BY <2>6, <2>7, <2>9, <3>1 DEF Switched, InUse
    <2> QED BY <2>8, <2>9
  <1>5. \/ UNCHANGED <<custom, selected>>
        \/ \E e \in Custom : AddEndpoint(e) \/ RemoveEndpoint(e)
        \/ \E i \in 1..Cardinality(LiveEndpoints) : Select(i)
    BY DEF LiveNext, RefreshWallet, LoadAnswer, Ignored, Adopt, WrongNetwork, LoadFails, Superseded,
           StreamOpens, StreamEnds, AccountChanges, RetrySubscription, DropEvent, SubscriptionReady,
           SubscriptionUpdate, SubscriptionFailed
  <1> QED BY <1>1, <1>2, <1>3, <1>4, <1>5

\* ensure_subscription keeps the task that runs, or starts one.
LEMMA EnsureFacts ==
    ASSUME StreamType, InUse \in LiveEndpoints, EnsureSubscription
    PROVE  /\ liveGen' \in 0..MaxSubscriptions /\ task' \in Tasks /\ live' \in {"offline", "connecting", "live"}
           /\ task'.pc # "none"
           /\ UNCHANGED <<liveGen, task, live>> \/ liveGen' # liveGen
  <1>1. CASE task.at = InUse /\ task.pc \in {"connecting", "live"}
    <2>1. UNCHANGED <<liveGen, task, live>>
      BY <1>1 DEF EnsureSubscription
    <2>2. task'.pc # "none"
      <3>1. task.pc # "none"
        BY <1>1
      <3>2. task' = task
        BY <2>1
      <3> QED BY <3>1, <3>2, Zenon
    <2>3. liveGen \in 0..MaxSubscriptions /\ task \in Tasks /\ live \in {"offline", "connecting", "live"}
      BY DEF StreamType
    <2> QED BY <2>1, <2>2, <2>3
  <1>2. CASE ~(task.at = InUse /\ task.pc \in {"connecting", "live"})
    <2>1. /\ liveGen < MaxSubscriptions /\ liveGen' = liveGen + 1 /\ live' = "connecting"
          /\ task' = [gen |-> liveGen + 1, at |-> InUse, pc |-> "connecting"]
      BY <1>2 DEF EnsureSubscription
    <2>2. liveGen + 1 \in 0..MaxSubscriptions /\ liveGen + 1 # liveGen
      BY <2>1, LiveConstants DEF StreamType
    <2> QED BY <2>1, <2>2 DEF Tasks
  <1> QED BY <1>1, <1>2

\* The stream, its tasks and the snapshot stay well formed.
LEMMA StepStreamType ==
    ASSUME GoodList(custom, selected), LoadType, StreamType, LiveNext PROVE StreamType'
  <1>0. InUse \in LiveEndpoints /\ NoTask \in Tasks /\ 0 \in 0..MaxVersion
    BY InUseKnown, LiveConstants DEF NoTask, Tasks
  <1>1. ASSUME Stopped, UNCHANGED <<version, wallet, error, inbox>>, mismatch' = FALSE PROVE StreamType'
    <2>1. liveGen' \in 0..MaxSubscriptions
      BY <1>1, LiveConstants DEF Stopped, StreamType
    <2>2. task' = NoTask /\ retry' = FALSE /\ live' = "offline" /\ owed' = 0
      BY <1>1 DEF Stopped
    <2> QED BY <1>0, <1>1, <2>1, <2>2 DEF StreamType
  <1>2. ASSUME NEW c, NEW i, Reconnect(c, i) PROVE StreamType'
    BY <1>1, <1>2 DEF Reconnect
  <1>3. CASE UNCHANGED <<version, wallet, error, mismatch, liveGen, task, live, retry, inbox, owed>>
    BY <1>3 DEF StreamType
  <1>4. ASSUME NEW e \in Custom, AddEndpoint(e) \/ RemoveEndpoint(e) PROVE StreamType'
    <2>1. \/ UNCHANGED <<version, wallet, error, mismatch, liveGen, task, live, retry, inbox, owed>>
          \/ \E c, i : Reconnect(c, i)
      BY <1>4 DEF AddEndpoint, RemoveEndpoint
    <2> QED BY <1>2, <1>3, <2>1
  <1>5. ASSUME NEW i \in 1..Cardinality(LiveEndpoints), Select(i) PROVE StreamType'
    BY <1>2, <1>5 DEF Select
  <1>6. CASE RefreshWallet
    BY <1>3, <1>6 DEF RefreshWallet
  <1>7. ASSUME NEW l \in loads, LoadAnswer(l) \/ Ignored(l) \/ Superseded(l) PROVE StreamType'
    BY <1>3, <1>7 DEF LoadAnswer, Ignored, Superseded
  <1>8. ASSUME NEW l \in loads, Adopt(l) PROVE StreamType'
    <2>1. l \in Load
      BY DEF LoadType
    <2>2. PICK w : w = [at |-> l.at, version |-> l.read]
      OBVIOUS
    <2>3. w \in Wallets
      BY <2>1, <2>2 DEF Load, Wallets
    <2>4. liveGen' \in 0..MaxSubscriptions /\ task' \in Tasks /\ live' \in {"offline", "connecting", "live"}
      BY <1>0, <1>8, EnsureFacts DEF Adopt
    <2>5. owed' = 0 \/ owed' = owed
      BY <1>8 DEF Adopt
    <2>6. wallet' = w /\ error' = FALSE /\ mismatch' = FALSE /\ UNCHANGED <<version, retry, inbox>>
      BY <1>8, <2>2 DEF Adopt
    <2> QED BY <1>0, <2>3, <2>4, <2>5, <2>6 DEF StreamType
  <1>9. ASSUME NEW l \in loads, WrongNetwork(l) PROVE StreamType'
    BY <1>0, <1>9 DEF WrongNetwork, StreamType
  <1>10. ASSUME NEW l \in loads, LoadFails(l) PROVE StreamType'
    <2>1. liveGen' \in 0..MaxSubscriptions /\ task' \in Tasks /\ live' \in {"offline", "connecting", "live"}
      <3>1. CASE EnsureSubscription
        BY <1>0, <3>1, EnsureFacts
      <3>2. CASE UNCHANGED <<liveGen, task, live>>
        BY <3>2 DEF StreamType
      <3> QED BY <1>10, <3>1, <3>2 DEF LoadFails
    <2>2. error' = TRUE /\ owed' = 0 /\ UNCHANGED <<version, wallet, mismatch, retry, inbox>>
      BY <1>10 DEF LoadFails
    <2> QED BY <1>0, <2>1, <2>2 DEF StreamType
  <1>11. ASSUME NEW k \in {"ready", "failed"}, Send(k) PROVE inbox' \in SUBSET Event
    <2>1. PICK ev : ev = [kind |-> k, gen |-> task.gen, version |-> version]
      OBVIOUS
    <2>2. task.gen \in 0..MaxSubscriptions /\ version \in 0..MaxVersion
      BY DEF StreamType, Tasks
    <2>3. ev \in Event
      BY <2>1, <2>2 DEF Event
    <2> QED BY <1>11, <2>1, <2>3 DEF Send, StreamType
  <1>12. CASE StreamOpens \/ StreamEnds
    <2>1. PICK there \in {"live", "ended"} : task' = [task EXCEPT !.pc = there]
      BY <1>12 DEF StreamOpens, StreamEnds
    <2>2. task' \in Tasks
      BY <2>1 DEF StreamType, Tasks
    <2>3. inbox' \in SUBSET Event
      BY <1>11, <1>12 DEF StreamOpens, StreamEnds
    <2>4. UNCHANGED <<version, wallet, error, mismatch, liveGen, live, retry, owed>>
      BY <1>12 DEF StreamOpens, StreamEnds
    <2> QED BY <2>2, <2>3, <2>4 DEF StreamType
  <1>13. CASE AccountChanges
    <2>1. PICK ev : ev = [kind |-> "update", gen |-> task.gen, version |-> version + 1]
      OBVIOUS
    <2>2. version + 1 \in 1..MaxVersion /\ version + 1 \in 0..MaxVersion
      BY <1>13, LiveConstants DEF AccountChanges, StreamType
    <2>3. task.gen \in 0..MaxSubscriptions
      BY DEF StreamType, Tasks
    <2>4. ev \in Event
      BY <2>1, <2>2, <2>3 DEF Event
    <2>5. inbox' = inbox \/ inbox' = inbox \cup {ev}
      BY <1>13, <2>1 DEF AccountChanges
    <2>6. version' = version + 1 /\ UNCHANGED <<wallet, error, mismatch, liveGen, task, live, retry, owed>>
      BY <1>13 DEF AccountChanges
    <2> QED BY <2>2, <2>4, <2>5, <2>6 DEF StreamType
  <1>14. CASE RetrySubscription
    <2>1. liveGen' \in 0..MaxSubscriptions /\ task' \in Tasks /\ live' \in {"offline", "connecting", "live"}
      <3>1. CASE EnsureSubscription
        BY <1>0, <3>1, EnsureFacts
      <3>2. CASE UNCHANGED <<liveGen, task, live>>
        BY <3>2 DEF StreamType
      <3> QED BY <1>14, <3>1, <3>2 DEF RetrySubscription
    <2>2. retry' = FALSE /\ (owed' = 0 \/ owed' = owed) /\ UNCHANGED <<version, wallet, error, mismatch, inbox>>
      BY <1>14 DEF RetrySubscription
    <2> QED BY <1>0, <2>1, <2>2 DEF StreamType
  <1>15. ASSUME NEW ev \in inbox, DropEvent(ev) \/ SubscriptionReady(ev) \/ SubscriptionUpdate(ev) \/ SubscriptionFailed(ev)
         PROVE  StreamType'
    <2>1. ev \in Event /\ ev.version \in 0..MaxVersion
      BY DEF StreamType, Event
    <2>2. CASE DropEvent(ev)
      BY <2>2 DEF DropEvent, StreamType
    <2>3. CASE SubscriptionReady(ev)
      BY <2>3 DEF SubscriptionReady, StreamType
    <2>4. CASE SubscriptionUpdate(ev)
      BY <2>1, <2>4 DEF SubscriptionUpdate, StreamType
    <2>5. CASE SubscriptionFailed(ev)
      BY <1>0, <2>5 DEF SubscriptionFailed, StreamType
    <2> QED BY <1>15, <2>2, <2>3, <2>4, <2>5
  <1> QED BY <1>4, <1>5, <1>6, <1>7, <1>8, <1>9, <1>10, <1>12, <1>13, <1>14, <1>15 DEF LiveNext

\* The facts about loads hold before a step and about what it starts.
LEMMA StepLoadsTypes ==
    ASSUME GoodList(custom, selected), LoadType, StreamType, LiveNext PROVE LoadsTypes
  <1>1. GoodList(custom', selected') /\ StreamType'
    BY StepList, StepStreamType
  <1>2. Resolved(custom', selected') \in LiveEndpoints
    <2>1. PICK c : c = custom'
      OBVIOUS
    <2>2. PICK i : i = selected'
      OBVIOUS
    <2>3. GoodList(c, i)
      BY <1>1, <2>1, <2>2
    <2>4. Resolved(c, i) \in LiveEndpoints
      BY <2>3, EndpointsCounted, ResolvedFacts DEF GoodList
    <2> QED BY <2>1, <2>2, <2>4
  <1> QED BY <1>1, <1>2, InUseKnown DEF LoadsTypes, StreamType

\* A load that is waited for was asked of the endpoint in use.
LEMMA StepAwaitedHere ==
    ASSUME LoadsTypes, LoadsNumbered, AwaitedHere, LoadsMove,
           Resolved(custom', selected') = InUse \/ Switched
    PROVE  AwaitedHere'
  <1>0. LoadType /\ lastId \in Nat /\ manualId \in Nat /\ autoId \in Nat
    BY LiveConstants DEF LoadsTypes, LoadType
  <1>a. \A l \in loads : l.id \in Nat /\ l.id # 0 /\ l.id <= lastId /\ l.id # lastId + 1
    BY <1>0, LoadFields DEF LoadType, LoadsNumbered
  <1>b. SUFFICES ASSUME NEW l \in loads', l.id = IF l.manual THEN manualId' ELSE autoId'
                 PROVE  l.at = Resolved(custom', selected')
    BY DEF AwaitedHere, Awaited, InUse
  <1>c. \A k \in loads : k.id = (IF k.manual THEN manualId ELSE autoId) => k.at = InUse
    BY DEF AwaitedHere, Awaited
  <1>1. CASE LoadAsked
    <2>1. PICK n \in Load : loads' = loads \cup {n} /\ n.at = Resolved(custom', selected')
      BY <1>1, AskedLoad
    <2>2. CASE l = n
      BY <2>1, <2>2
    <2>3. CASE l # n
      <3>1. l \in loads /\ ~l.manual /\ l.id = autoId'
        BY <1>1, <1>a, <1>b, <2>1, <2>3 DEF LoadAsked
      <3>2. autoId' # 0 /\ autoId' = autoId
        BY <1>1, <1>a, <3>1 DEF LoadAsked
      <3>3. Resolved(custom', selected') = InUse
        BY <3>2 DEF Switched
      <3> QED BY <1>c, <3>1, <3>2, <3>3
    <2> QED BY <2>2, <2>3
  <1>2. CASE ~LoadAsked
    <2>0. Resolved(custom', selected') = InUse
      BY <1>2 DEF Switched
    <2>1. CASE LoadsAlone \/ RefreshQueued
      BY <1>b, <1>c, <2>0, <2>1 DEF LoadsAlone, RefreshQueued
    <2>2. ASSUME NEW k \in loads, LoadRead(k) PROVE l.at = InUse
      <3>1. PICK n \in Load : loads' = (loads \ {k}) \cup {n} /\ n.id = k.id /\ n.manual = k.manual /\ n.at = k.at
        BY <2>2, ReadLoad
      <3>2. UNCHANGED <<manualId, autoId>>
        BY <2>2 DEF LoadRead
      <3> QED BY <1>b, <1>c, <3>1, <3>2
    <2>3. ASSUME NEW k \in loads, LoadDropped(k) \/ LoadOver(k) \/ RefreshOver(k) PROVE l.at = InUse
      <3>1. loads' = loads \ {k}
        BY <2>3 DEF LoadDropped, LoadOver, RefreshOver
      <3>2. (manualId' = manualId \/ manualId' = 0) /\ (autoId' = autoId \/ autoId' = 0)
        BY <2>3 DEF LoadDropped, LoadOver, RefreshOver
      <3> QED BY <1>a, <1>b, <1>c, <3>1, <3>2
    <2>4. ASSUME NEW ls \in SUBSET loads, RefreshStarted(ls) PROVE l.at = InUse
      <3>1. PICK n \in Load : loads' = ls \cup {n} /\ n.at = InUse
        BY <2>4, StartedLoad
      <3>2. manualId' = manualId /\ autoId' = lastId + 1
        BY <2>4 DEF RefreshStarted
      <3> QED BY <1>a, <1>b, <1>c, <3>1, <3>2
    <2> QED BY <1>2, <2>0, <2>1, <2>2, <2>3, <2>4 DEF LoadsMove
  <1> QED BY <1>1, <1>2

\* Versions only grow.
LEMMA StepVersionsSeen ==
    ASSUME LoadsTypes, StreamType, VersionsSeen, LoadsMove, LiveNext PROVE VersionsSeen'
  <1>0. version \in Nat /\ version' \in Nat /\ version <= version' /\ 0 <= version' /\ owed \in Nat
    <2>1. version \in Nat /\ owed \in Nat /\ 1 <= version
      BY LiveConstants DEF StreamType
    <2>2. version' = version \/ version' = version + 1
      BY DEF LiveNext, AddEndpoint, RemoveEndpoint, Select, Reconnect, RefreshWallet, LoadAnswer, Ignored,
             Adopt, WrongNetwork, LoadFails, Superseded, StreamOpens, StreamEnds, AccountChanges,
             RetrySubscription, DropEvent, SubscriptionReady, SubscriptionUpdate, SubscriptionFailed
    <2> QED BY <2>1, <2>2
  <1>1. \A l \in loads : l.read \in Nat /\ l.read <= version /\ l.read <= version'
    BY <1>0, LoadFields DEF LoadsTypes, LoadType, VersionsSeen
  <1>2. \A l \in loads' : l.read <= version'
    <2>1. CASE LoadsAlone \/ RefreshQueued
      BY <1>1, <2>1 DEF LoadsAlone, RefreshQueued
    <2>2. CASE LoadAsked
      <3>1. PICK n \in Load : loads' = loads \cup {n} /\ n.read = 0
        BY <2>2, AskedLoad
      <3> QED BY <1>0, <1>1, <3>1
    <2>3. ASSUME NEW k \in loads, LoadRead(k) PROVE \A l \in loads' : l.read <= version'
      <3>1. PICK n \in Load : loads' = (loads \ {k}) \cup {n} /\ n.read = version
        BY <2>3, ReadLoad
      <3> QED BY <1>0, <1>1, <3>1
    <2>4. ASSUME NEW k \in loads, LoadDropped(k) \/ LoadOver(k) \/ RefreshOver(k)
          PROVE  \A l \in loads' : l.read <= version'
      BY <1>1, <2>4 DEF LoadDropped, LoadOver, RefreshOver
    <2>5. ASSUME NEW ls \in SUBSET loads, RefreshStarted(ls) PROVE \A l \in loads' : l.read <= version'
      <3>1. PICK n \in Load : loads' = ls \cup {n} /\ n.read = 0
        BY <2>5, StartedLoad
      <3> QED BY <1>0, <1>1, <3>1
    <2> QED BY <2>1, <2>2, <2>3, <2>4, <2>5 DEF LoadsMove
  <1>3. \A ev \in inbox : ev.version \in Nat /\ ev.version <= version /\ ev.version <= version'
    BY <1>0, LiveConstants DEF StreamType, Event, VersionsSeen
  <1>4. \A ev \in inbox' : ev.version <= version'
    <2>1. CASE inbox' \subseteq inbox
      BY <1>3, <2>1
    <2>2. CASE \E k, g, v : inbox' = inbox \cup {[kind |-> k, gen |-> g, version |-> v]} /\ v = version'
      BY <1>0, <1>3, <2>2
    <2>3. CASE StreamOpens \/ StreamEnds
      <3>1. version' = version
        BY <2>3 DEF StreamOpens, StreamEnds
      <3>2. \E k : inbox' = inbox \cup {[kind |-> k, gen |-> task.gen, version |-> version]}
        BY <2>3 DEF StreamOpens, StreamEnds, Send
      <3> QED BY <2>2, <3>1, <3>2
    <2>4. CASE AccountChanges
      BY <2>1, <2>2, <2>4 DEF AccountChanges
    <2>5. CASE ~StreamOpens /\ ~StreamEnds /\ ~AccountChanges
      BY <2>1, <2>5 DEF LiveNext, AddEndpoint, RemoveEndpoint, Select, Reconnect, RefreshWallet, LoadAnswer,
             Ignored, Adopt, WrongNetwork, LoadFails, Superseded,
             RetrySubscription, DropEvent, SubscriptionReady, SubscriptionUpdate, SubscriptionFailed
    <2> QED BY <2>3, <2>4, <2>5
  <1>5. owed' <= version'
    <2>1. CASE owed' = owed \/ owed' = 0
      BY <1>0, <2>1 DEF VersionsSeen
    <2>2. ASSUME NEW ev \in inbox, SubscriptionUpdate(ev) PROVE owed' <= version'
      BY <1>3, <2>2 DEF SubscriptionUpdate
    <2>3. CASE ~\E ev \in inbox : SubscriptionUpdate(ev)
      BY <2>1, <2>3 DEF LiveNext, AddEndpoint, RemoveEndpoint, Select, Reconnect, Stopped, RefreshWallet, LoadAnswer,
             Ignored, Adopt, WrongNetwork, LoadFails, Superseded, StreamOpens, StreamEnds, AccountChanges,
             RetrySubscription, DropEvent, SubscriptionReady, SubscriptionFailed
    <2> QED BY <2>2, <2>3
  <1> QED BY <1>2, <1>4, <1>5 DEF VersionsSeen

\* Two states that agree on what UpdateHolds reads.
LEMMA SameUpdate ==
    ASSUME UpdateHolds, owed' = owed \/ owed' = 0, UNCHANGED <<liveGen, autoId, again>>, loads \subseteq loads'
    PROVE  UpdateHolds'
  BY DEF UpdateHolds

\* An update is not lost: what ends the load that would bring it starts another.
LEMMA StepUpdateHolds ==
    ASSUME LoadsTypes, StreamType, LoadsNumbered, WaitedFor, VersionsSeen, UpdateHolds, LiveNext
    PROVE  UpdateHolds'
  <1>0. LoadType /\ lastId \in Nat /\ manualId \in Nat /\ autoId \in Nat /\ owed \in Nat /\ version \in Nat
    BY LiveConstants DEF LoadsTypes, LoadType, StreamType
  <1>a. \A l \in loads : l \in Load /\ l.id \in Nat /\ l.id # 0 /\ l.read \in Nat
    BY <1>0, LoadFields DEF LoadType
  <1>1. CASE owed' = 0
    BY <1>1 DEF UpdateHolds
  <1>2. ASSUME NEW c, NEW i, Reconnect(c, i) PROVE UpdateHolds'
    BY <1>1, <1>2 DEF Reconnect, Stopped
  <1>3. ASSUME NEW e \in Custom, AddEndpoint(e) \/ RemoveEndpoint(e) PROVE UpdateHolds'
    <2>1. (\E c, i : Reconnect(c, i)) \/ UNCHANGED <<liveGen, loads, autoId, again, owed>>
      BY <1>3 DEF AddEndpoint, RemoveEndpoint
    <2> QED BY <1>2, <2>1, SameUpdate
  <1>4. ASSUME NEW i \in 1..Cardinality(LiveEndpoints), Select(i) PROVE UpdateHolds'
    BY <1>2, <1>4 DEF Select
  <1>5. CASE RefreshWallet
    BY <1>5, SameUpdate DEF RefreshWallet, SpawnManual
  <1>6. ASSUME NEW l \in loads, LoadAnswer(l) PROVE UpdateHolds'
    <2>1. LoadRead(l) /\ UNCHANGED <<liveGen, autoId, again, owed>>
      BY <1>6 DEF LoadAnswer, LoadRead
    <2>2. PICK n \in Load : /\ loads' = (loads \ {l}) \cup {n} /\ n.id = l.id /\ n.manual = l.manual
                            /\ n.gen = l.gen /\ n.read = version
      BY <2>1, ReadLoad
    <2>3. version >= owed
      BY <1>0 DEF VersionsSeen
    <2> QED BY <2>1, <2>2, <2>3 DEF UpdateHolds
  <1>7. ASSUME NEW l \in loads, Ignored(l) PROVE UpdateHolds'
    <2>1. loads' = loads \ {l} /\ UNCHANGED <<liveGen, autoId, again, owed>> /\ ~(~l.manual /\ l.id = autoId)
      BY <1>7 DEF Ignored, Awaited
    <2> QED BY <2>1 DEF UpdateHolds
  <1>8. ASSUME NEW l \in loads, ManualDone(l), liveGen' = liveGen, owed' = owed \/ owed' = 0 PROVE UpdateHolds'
    <2>1. loads' = loads \ {l} /\ UNCHANGED <<autoId, again>> /\ l.manual
      BY <1>8 DEF ManualDone
    <2> QED BY <1>8, <2>1 DEF UpdateHolds
  <1>9. ASSUME NEW l \in loads, AutoDone(l, liveGen', TRUE), again PROVE UpdateHolds'
    <2>1. lastId < MaxLoads /\ loads' = (loads \ {l}) \cup {Started(FALSE, lastId + 1, InUse, liveGen')}
          /\ autoId' = lastId + 1
      BY <1>9 DEF AutoDone, AutoRefresh
    <2>2. PICK n : n = Started(FALSE, lastId + 1, InUse, liveGen')
      OBVIOUS
    <2>3. PICK m \in BOOLEAN : m = FALSE
      OBVIOUS
    <2>4. PICK at \in LiveEndpoints : at = InUse
      BY DEF LoadsTypes
    <2>5. n = Started(m, lastId + 1, at, liveGen')
      BY <2>2, <2>3, <2>4
    <2>6. n.id = lastId + 1 /\ n.manual = m /\ n.gen = liveGen' /\ n.read = 0
      BY <2>1, <2>5, NewLoad
    <2> QED BY <2>1, <2>2, <2>3, <2>6 DEF UpdateHolds
  <1>10. ASSUME NEW l \in loads, Adopt(l) PROVE UpdateHolds'
    <2>1. CASE liveGen' # liveGen
      BY <1>1, <1>10, <2>1 DEF Adopt
    <2>2. CASE liveGen' = liveGen
      <3>1. owed' = IF l.read >= owed THEN 0 ELSE owed
        BY <1>10, <2>2 DEF Adopt
      <3>2. CASE ManualDone(l)
        BY <1>8, <2>2, <3>1, <3>2
      <3>3. CASE AutoDone(l, liveGen', TRUE) /\ again
        BY <1>9, <3>3
      <3>4. CASE AutoDone(l, liveGen', TRUE) /\ ~again
        <4>1. ~l.manual /\ l.id = autoId /\ l.read # 0
          BY <1>10, <3>4 DEF Adopt, Awaited, AutoDone
        <4>2. owed # 0 => l.read >= owed
          BY <3>4, <4>1 DEF UpdateHolds, LoadsNumbered
        <4>3. owed' = 0
          BY <3>1, <4>2
        <4> QED BY <1>1, <4>3
      <3> QED BY <1>10, <3>2, <3>3, <3>4 DEF Adopt, TaskOver
    <2> QED BY <2>1, <2>2
  <1>11. ASSUME NEW l \in loads, WrongNetwork(l) \/ LoadFails(l) PROVE UpdateHolds'
    BY <1>1, <1>11 DEF WrongNetwork, LoadFails
  <1>12. ASSUME NEW l \in loads, Superseded(l) PROVE UpdateHolds'
    <2>1. liveGen' = liveGen /\ owed' = owed /\ l.gen # liveGen /\ TaskOver(l, liveGen', TRUE)
      BY <1>12 DEF Superseded, OfThisSubscription
    <2>2. CASE ManualDone(l)
      BY <1>8, <2>1, <2>2
    <2>3. CASE AutoDone(l, liveGen', TRUE) /\ again
      BY <1>9, <2>3
    <2>4. CASE AutoDone(l, liveGen', TRUE) /\ ~again
      <3>1. ~l.manual /\ l.id = autoId
        BY <1>12, <2>4 DEF Superseded, Awaited, AutoDone
      <3>2. owed = 0
        BY <2>1, <2>4, <3>1 DEF UpdateHolds, LoadsNumbered
      <3> QED BY <1>1, <2>1, <3>2
    <2> QED BY <2>1, <2>2, <2>3, <2>4 DEF TaskOver
  <1>13. CASE StreamOpens \/ StreamEnds \/ AccountChanges
    BY <1>13, SameUpdate DEF StreamOpens, StreamEnds, AccountChanges
  <1>14. CASE RetrySubscription
    <2>1. CASE mismatch
      BY <1>14, <2>1, SameUpdate DEF RetrySubscription
    <2>2. CASE ~mismatch
      BY <1>1, <1>14, <2>2 DEF RetrySubscription
    <2> QED BY <2>1, <2>2
  <1>15. ASSUME NEW ev \in inbox, DropEvent(ev) \/ SubscriptionFailed(ev) PROVE UpdateHolds'
    BY <1>15, SameUpdate DEF DropEvent, SubscriptionFailed
  <1>16. ASSUME autoId # 0, AutoRefresh(loads, autoId, liveGen) PROVE UpdateHolds'
    BY <1>16 DEF AutoRefresh, UpdateHolds, WaitedFor
  <1>17. ASSUME autoId = 0, AutoRefresh(loads, autoId, liveGen), liveGen' = liveGen PROVE UpdateHolds'
    <2>1. lastId < MaxLoads /\ loads' = loads \cup {Started(FALSE, lastId + 1, InUse, liveGen')}
          /\ autoId' = lastId + 1
      BY <1>17 DEF AutoRefresh
    <2>2. PICK n : n = Started(FALSE, lastId + 1, InUse, liveGen')
      OBVIOUS
    <2>3. PICK m \in BOOLEAN : m = FALSE
      OBVIOUS
    <2>4. PICK at \in LiveEndpoints : at = InUse
      BY DEF LoadsTypes
    <2>5. n = Started(m, lastId + 1, at, liveGen')
      BY <2>2, <2>3, <2>4
    <2>6. n.id = lastId + 1 /\ n.manual = m /\ n.gen = liveGen' /\ n.read = 0
      BY <2>1, <2>5, NewLoad
    <2> QED BY <2>1, <2>2, <2>3, <2>6 DEF UpdateHolds
  <1>18. ASSUME NEW ev \in inbox, SubscriptionReady(ev) \/ SubscriptionUpdate(ev) PROVE UpdateHolds'
    <2>1. liveGen' = liveGen
      BY <1>18 DEF SubscriptionReady, SubscriptionUpdate
    <2>2. CASE AutoRefresh(loads, autoId, liveGen)
      BY <1>16, <1>17, <2>1, <2>2
    <2>3. CASE ~AutoRefresh(loads, autoId, liveGen)
      BY <1>18, <2>3, SameUpdate DEF SubscriptionReady, SubscriptionUpdate
    <2> QED BY <2>2, <2>3
  <1> QED BY <1>3, <1>4, <1>5, <1>6, <1>7, <1>10, <1>11, <1>12, <1>13, <1>14, <1>15, <1>18 DEF LiveNext

\* A subscription shown as connecting keeps its task.
LEMMA StepConnecting ==
    ASSUME GoodList(custom, selected), StreamType, ConnectingIsServed, LiveNext PROVE ConnectingIsServed'
  <1>0. InUse \in LiveEndpoints
    BY InUseKnown
  <1>1. CASE live' = "offline" \/ live' = "live" \/ retry'
    BY <1>1 DEF ConnectingIsServed
  <1>2. CASE task'.pc # "none"
    BY <1>2 DEF ConnectingIsServed
  <1>3. CASE UNCHANGED <<live, task, retry, mismatch>>
    BY <1>3 DEF ConnectingIsServed
  <1>4. CASE EnsureSubscription
    BY <1>0, <1>2, <1>4, EnsureFacts
  <1>5. ASSUME NEW c, NEW i, Reconnect(c, i) PROVE ConnectingIsServed'
    BY <1>1, <1>5 DEF Reconnect, Stopped
  <1>6. ASSUME NEW e \in Custom, AddEndpoint(e) \/ RemoveEndpoint(e) PROVE ConnectingIsServed'
    <2>1. (\E c, i : Reconnect(c, i)) \/ UNCHANGED <<live, task, retry, mismatch>>
      BY <1>6 DEF AddEndpoint, RemoveEndpoint
    <2> QED BY <1>3, <1>5, <2>1
  <1>7. ASSUME NEW i \in 1..Cardinality(LiveEndpoints), Select(i) PROVE ConnectingIsServed'
    BY <1>5, <1>7 DEF Select
  <1>8. CASE RefreshWallet
    BY <1>3, <1>8 DEF RefreshWallet
  <1>9. ASSUME NEW l \in loads, LoadAnswer(l) \/ Ignored(l) \/ Superseded(l) PROVE ConnectingIsServed'
    BY <1>3, <1>9 DEF LoadAnswer, Ignored, Superseded
  <1>10. ASSUME NEW l \in loads, Adopt(l) PROVE ConnectingIsServed'
    BY <1>4, <1>10 DEF Adopt
  <1>11. ASSUME NEW l \in loads, WrongNetwork(l) PROVE ConnectingIsServed'
    BY <1>1, <1>11 DEF WrongNetwork
  <1>12. ASSUME NEW l \in loads, LoadFails(l) PROVE ConnectingIsServed'
    <2>1. EnsureSubscription \/ UNCHANGED <<live, task, retry, mismatch>>
      BY <1>12 DEF LoadFails
    <2> QED BY <1>3, <1>4, <2>1
  <1>13. CASE StreamOpens \/ StreamEnds
    <2>1. PICK there \in {"live", "ended"} : task' = [task EXCEPT !.pc = there]
      BY <1>13 DEF StreamOpens, StreamEnds
    <2>2. task'.pc = there
      BY <2>1 DEF StreamType, Tasks
    <2> QED BY <1>2, <2>2
  <1>14. CASE AccountChanges
    BY <1>3, <1>14 DEF AccountChanges
  <1>15. CASE RetrySubscription
    <2>1. CASE ~mismatch
      BY <1>4, <1>15, <2>1 DEF RetrySubscription
    <2>2. CASE mismatch
      BY <1>15, <2>2 DEF RetrySubscription, ConnectingIsServed
    <2> QED BY <2>1, <2>2
  <1>16. ASSUME NEW ev \in inbox, DropEvent(ev) \/ SubscriptionUpdate(ev) PROVE ConnectingIsServed'
    BY <1>3, <1>16 DEF DropEvent, SubscriptionUpdate
  <1>17. ASSUME NEW ev \in inbox, SubscriptionReady(ev) \/ SubscriptionFailed(ev) PROVE ConnectingIsServed'
    BY <1>1, <1>17 DEF SubscriptionReady, SubscriptionFailed
  <1> QED BY <1>6, <1>7, <1>8, <1>9, <1>10, <1>11, <1>12, <1>13, <1>14, <1>15, <1>16, <1>17 DEF LiveNext

\* Every step keeps the invariant.
LEMMA LiveStep == ASSUME LiveIInv, LiveNext PROVE LiveIInv'
  <1>1. LoadsMove /\ LoadsTypes
    BY StepMovesLoads, StepLoadsTypes DEF LiveIInv
  <1>2. GoodList(custom', selected') /\ (Resolved(custom', selected') = InUse \/ Switched)
    BY StepList DEF LiveIInv
  <1>3. LoadType' /\ LoadsNumbered' /\ WaitedFor'
    BY <1>1, StepLoadType, StepLoadsNumbered, StepWaitedFor DEF LiveIInv
  <1>4. AwaitedHere'
    BY <1>1, <1>2, StepAwaitedHere DEF LiveIInv
  <1>5. StreamType' /\ ConnectingIsServed'
    BY StepStreamType, StepConnecting DEF LiveIInv
  <1>6. VersionsSeen' /\ UpdateHolds'
    BY <1>1, StepVersionsSeen, StepUpdateHolds DEF LiveIInv
  <1> QED BY <1>2, <1>3, <1>4, <1>5, <1>6 DEF LiveIInv

\* It holds initially.
LEMMA LiveStart == LiveInit => LiveIInv
  <1> SUFFICES ASSUME LiveInit PROVE LiveIInv
    OBVIOUS
  <1>1. GoodList(custom, selected)
    BY EndpointsCounted DEF LiveInit, GoodList, IsInjective
  <1>2. PICK first : first = Started(TRUE, 1, Default, 0)
    OBVIOUS
  <1>3. first \in Load /\ first.id = 1 /\ first.manual = TRUE /\ first.at = Default /\ first.read = 0
    BY <1>2, LiveConstants DEF Started, Load, LiveEndpoints
  <1>4. loads = {first} /\ manualId = 1 /\ autoId = 0 /\ lastId = 1 /\ again = FALSE /\ busy = TRUE
    BY <1>2 DEF LiveInit
  <1>5. LoadType
    <2>1. 1 \in 0..MaxLoads /\ 0 \in 0..MaxLoads
      BY LiveConstants
    <2> QED BY <1>3, <1>4, <2>1 DEF LoadType
  <1>6. LoadsNumbered /\ WaitedFor
    <2>1. LoadsNumbered
      BY <1>3, <1>4 DEF LoadsNumbered
    <2>2. WaitedFor
      BY <1>3, <1>4 DEF WaitedFor
    <2> QED BY <2>1, <2>2
  <1>7. InUse = Default
    <2>1. custom \in Seq(Custom) /\ Len(custom) = 0 /\ selected = 1
      BY DEF LiveInit
    <2>2. selected \in Nat /\ selected # 0 /\ selected <= Len(custom) + 1
      BY <2>1
    <2>3. Resolved(custom, selected) = Default
      BY <2>1, <2>2, ResolvedFacts
    <2> QED BY <2>3 DEF InUse
  <1>8. AwaitedHere
    BY <1>3, <1>4, <1>7 DEF AwaitedHere
  <1>9. StreamType
    <2>1. NoWallet \in Wallets /\ NoTask \in Tasks
      BY LiveConstants DEF NoWallet, Wallets, NoTask, Tasks
    <2>2. 1 \in 1..MaxVersion /\ 0 \in 0..MaxVersion /\ 0 \in 0..MaxSubscriptions
      BY LiveConstants
    <2> QED BY <2>1, <2>2 DEF LiveInit, StreamType
  <1>10. VersionsSeen /\ UpdateHolds /\ ConnectingIsServed
    <2>1. version = 1 /\ owed = 0 /\ inbox = {} /\ live = "offline"
      BY DEF LiveInit
    <2>2. VersionsSeen
      BY <1>3, <1>4, <2>1 DEF VersionsSeen
    <2> QED BY <2>1, <2>2 DEF UpdateHolds, ConnectingIsServed
  <1> QED BY <1>1, <1>5, <1>6, <1>8, <1>9, <1>10 DEF LiveIInv

\* The invariant of the snapshot and its subscription.
LEMMA LiveInductive == LiveSpec => []LiveIInv
  <1>1. LiveIInv /\ [LiveNext]_liveVars => LiveIInv'
    <2> SUFFICES ASSUME LiveIInv, [LiveNext]_liveVars PROVE LiveIInv'
      OBVIOUS
    <2>1. CASE LiveNext
      BY <2>1, LiveStep
    <2>2. CASE UNCHANGED liveVars
      BY <2>2 DEF liveVars, LiveIInv, GoodList, LoadType, StreamType, LoadsNumbered, WaitedFor, AwaitedHere,
                  Awaited, InUse, VersionsSeen, UpdateHolds, ConnectingIsServed
    <2> QED BY <2>1, <2>2
  <1> QED BY <1>1, LiveStart, PTL DEF LiveSpec

\* An update that was announced, a subscription shown as connecting and a busy
\* window are each served by a load or a task that is under way, through every
\* change of endpoint, reconnection and late answer (controller/live.rs and
\* events.rs).
THEOREM WalletIsServedAlways == LiveSpec => []WalletIsServed
  <1>1. LiveIInv => WalletIsServed
    <2> SUFFICES ASSUME LiveIInv PROVE WalletIsServed
      OBVIOUS
    <2>1. LiveTypeOK
      BY DEF LiveIInv, GoodList, LoadType, StreamType, Tasks, Wallets, LiveTypeOK
    <2>2. UpdateIsServed /\ ConnectingIsServed
      BY DEF LiveIInv, UpdateHolds, UpdateIsServed
    <2>3. BusyIsServed
      <3>1. \A l \in loads : l.id # 0
        BY LoadFields DEF LiveIInv, LoadType
      <3> QED BY <3>1 DEF LiveIInv, WaitedFor, BusyIsServed
    <2> QED BY <2>1, <2>2, <2>3 DEF WalletIsServed
  <1> QED BY <1>1, LiveInductive, PTL

\* A snapshot is adopted only from the endpoint in use and only of its own
\* network, and editing the list of endpoints never switches the endpoint
\* (apply_loaded, remove_endpoint and the index arithmetic of endpoints.rs).
THEOREM SnapshotsAreOwnAlways == LiveSpec => SnapshotsAreOwn
  <1>1. LiveIInv /\ [LiveNext]_liveVars => [AdoptsOwnSnapshots /\ IndexFollowsList]_liveVars
    <2> SUFFICES ASSUME LiveIInv, LiveNext PROVE AdoptsOwnSnapshots /\ IndexFollowsList
      OBVIOUS
    <2>1. Resolved(custom', selected') = InUse \/ Switched
      BY StepList DEF LiveIInv
    <2>2. IndexFollowsList
      BY <2>1 DEF IndexFollowsList, Switched
    <2>3. ASSUME NEW l \in loads, Adopt(l) PROVE AdoptsOwnSnapshots
      <3>1. l.at = InUse /\ l.at \notin Foreign /\ wallet' = [at |-> l.at, version |-> l.read]
        BY <2>3 DEF LiveIInv, AwaitedHere, Adopt, Verified
      <3> QED BY <3>1 DEF AdoptsOwnSnapshots
    <2>4. wallet' = wallet \/ \E l \in loads : Adopt(l)
      BY DEF LiveNext, AddEndpoint, RemoveEndpoint, Select, Reconnect, RefreshWallet, LoadAnswer, Ignored,
             WrongNetwork, LoadFails, Superseded, StreamOpens, StreamEnds, AccountChanges,
             RetrySubscription, DropEvent, SubscriptionReady, SubscriptionUpdate, SubscriptionFailed
    <2> QED BY <2>2, <2>3, <2>4 DEF AdoptsOwnSnapshots
  <1> QED BY <1>1, LiveInductive, PTL DEF LiveSpec, SnapshotsAreOwn

\* The window waits for nothing that is not on its way and adopts nothing that
\* is not its own (controller/live.rs, wallet_ops.rs, endpoints.rs).
THEOREM WalletIsSoundAlways == LiveSpec => WalletIsSound
  BY WalletIsServedAlways, SnapshotsAreOwnAlways, PTL DEF WalletIsSound

-----------------------------------------------------------------------------
(* LateAnswers: the operations on the pages.                               *)

\* The record types of the pages, without the bounds of TLC.
Named == Subjects \cup {None}
QueryRec == [seq : Nat, subject : Named, loading : BOOLEAN, shown : Shown \cup {NothingShown}]
ReqRec == [query : Queries, gen : Nat, seq : Nat, subject : Named, world : World]
LateForm == [q : [Queries -> QueryRec], reqs : SUBSET ReqRec, cache : Seq(Shown), jump : Named]

\* The pieces of the state of the pages.
LEMMA LatePieces ==
    ASSUME NEW t \in LateForm
    PROVE  /\ t.q \in [Queries -> QueryRec] /\ t.reqs \in SUBSET ReqRec /\ t.cache \in Seq(Shown)
           /\ t.jump \in Named
           /\ \A k \in Queries : /\ t.q[k] \in QueryRec /\ t.q[k].seq \in Nat /\ t.q[k].loading \in BOOLEAN
                                 /\ t.q[k].subject \in Named
                                 /\ t.q[k].shown \in Shown \cup {NothingShown}
           /\ \A r \in t.reqs : /\ r \in ReqRec /\ r.query \in Queries /\ r.seq \in Nat /\ r.gen \in Nat
                                /\ r.subject \in Named /\ r.world \in World
  <1>1. /\ t.q \in [Queries -> QueryRec] /\ t.reqs \in SUBSET ReqRec /\ t.cache \in Seq(Shown)
        /\ t.jump \in Named
    BY Zenon DEF LateForm
  <1>2. \A k \in Queries : t.q[k] \in QueryRec
    BY <1>1
  <1>3. \A x \in QueryRec : x.seq \in Nat /\ x.loading \in BOOLEAN /\ x.subject \in Named
                            /\ x.shown \in Shown \cup {NothingShown}
    BY Zenon DEF QueryRec
  <1>4. \A r \in ReqRec : r.query \in Queries /\ r.seq \in Nat /\ r.gen \in Nat
                          /\ r.subject \in Named /\ r.world \in World
    BY Zenon DEF ReqRec
  <1> QED BY <1>1, <1>2, <1>3, <1>4, Zenon

\* One query is replaced; everything else is as it was.
LEMMA PutFacts ==
    ASSUME NEW t \in LateForm, NEW k \in Queries, NEW x \in QueryRec, NEW u, u = Put(t, k, x)
    PROVE  /\ u \in LateForm /\ u.reqs = t.reqs /\ u.cache = t.cache /\ u.jump = t.jump
           /\ u.q[k] = x /\ \A j \in Queries \ {k} : u.q[j] = t.q[j]
  <1>1. u = [t EXCEPT !.q[k] = x]
    BY DEF Put
  <1>2. PICK f : f = [t.q EXCEPT ![k] = x]
    OBVIOUS
  <1>3. f \in [Queries -> QueryRec] /\ f[k] = x /\ \A j \in Queries \ {k} : f[j] = t.q[j]
    BY <1>2, LatePieces
  <1>4. u = [t EXCEPT !.q = f]
    BY <1>1, <1>2
  <1>5. u \in LateForm /\ u.q = f /\ u.reqs = t.reqs /\ u.cache = t.cache /\ u.jump = t.jump
    BY <1>3, <1>4, Zenon DEF LateForm
  <1> QED BY <1>3, <1>5

\* Another set of requests.
LEMMA MoreFacts ==
    ASSUME NEW t \in LateForm, NEW c \in SUBSET ReqRec, NEW u, u = [t EXCEPT !.reqs = c]
    PROVE  u \in LateForm /\ u.reqs = c /\ u.q = t.q /\ u.cache = t.cache /\ u.jump = t.jump
  BY Zenon DEF LateForm

\* Another trace cache.
LEMMA CacheFacts ==
    ASSUME NEW t \in LateForm, NEW c \in Seq(Shown), NEW u, u = [t EXCEPT !.cache = c]
    PROVE  u \in LateForm /\ u.cache = c /\ u.q = t.q /\ u.reqs = t.reqs /\ u.jump = t.jump
  BY Zenon DEF LateForm

\* Another pending trace.
LEMMA JumpFacts ==
    ASSUME NEW t \in LateForm, NEW h \in Named, NEW u, u = [t EXCEPT !.jump = h]
    PROVE  u \in LateForm /\ u.jump = h /\ u.q = t.q /\ u.reqs = t.reqs /\ u.cache = t.cache
  BY Zenon DEF LateForm

\* Nothing shown, not loading, under the number it had.
LEMMA IdleFacts ==
    ASSUME NEW t \in LateForm, NEW k \in Queries, NEW u, u = Idle(t, k)
    PROVE  /\ u \in LateForm /\ u.reqs = t.reqs /\ u.cache = t.cache /\ u.jump = t.jump
           /\ ~u.q[k].loading /\ u.q[k].shown = NothingShown
           /\ u.q[k].seq = t.q[k].seq /\ u.q[k].subject = t.q[k].subject
           /\ \A j \in Queries \ {k} : u.q[j] = t.q[j]
  <1>1. PICK y \in QueryRec : y = t.q[k]
    BY LatePieces
  <1>2. PICK x : x = [y EXCEPT !.loading = FALSE, !.shown = NothingShown]
    OBVIOUS
  <1>3. x \in QueryRec /\ x.loading = FALSE /\ x.shown = NothingShown /\ x.seq = y.seq /\ x.subject = y.subject
    BY <1>2, Zenon DEF QueryRec
  <1>4. u = Put(t, k, x)
    BY <1>1, <1>2 DEF Idle
  <1>5. /\ u \in LateForm /\ u.reqs = t.reqs /\ u.cache = t.cache /\ u.jump = t.jump
        /\ u.q[k] = x /\ \A j \in Queries \ {k} : u.q[j] = t.q[j]
    BY <1>3, <1>4, PutFacts
  <1> QED BY <1>1, <1>3, <1>5

\* The same, about nothing.
LEMMA OffFacts ==
    ASSUME NEW t \in LateForm, NEW k \in Queries, NEW u, u = Off(t, k)
    PROVE  /\ u \in LateForm /\ u.reqs = t.reqs /\ u.cache = t.cache /\ u.jump = t.jump
           /\ ~u.q[k].loading /\ u.q[k].shown = NothingShown
           /\ u.q[k].seq = t.q[k].seq /\ u.q[k].subject = None
           /\ \A j \in Queries \ {k} : u.q[j] = t.q[j]
  <1>1. PICK y \in QueryRec : y = t.q[k]
    BY LatePieces
  <1>2. PICK x : x = [y EXCEPT !.loading = FALSE, !.shown = NothingShown, !.subject = None]
    OBVIOUS
  <1>3. x \in QueryRec /\ x.loading = FALSE /\ x.shown = NothingShown /\ x.seq = y.seq /\ x.subject = None
    BY <1>2, Zenon DEF QueryRec, Named
  <1>4. u = Put(t, k, x)
    BY <1>1, <1>2 DEF Off
  <1>5. /\ u \in LateForm /\ u.reqs = t.reqs /\ u.cache = t.cache /\ u.jump = t.jump
        /\ u.q[k] = x /\ \A j \in Queries \ {k} : u.q[j] = t.q[j]
    BY <1>3, <1>4, PutFacts
  <1> QED BY <1>1, <1>3, <1>5

\* A closed view has a new number.
LEMMA ClosedFacts ==
    ASSUME NEW t \in LateForm, NEW k \in Queries, NEW u, u = ClosedView(t, k)
    PROVE  /\ u \in LateForm /\ u.reqs = t.reqs /\ u.cache = t.cache /\ u.jump = t.jump
           /\ ~u.q[k].loading /\ u.q[k].shown = NothingShown
           /\ u.q[k].seq = t.q[k].seq + 1 /\ u.q[k].subject = None
           /\ \A j \in Queries \ {k} : u.q[j] = t.q[j]
  <1>1. PICK v : v = Off(t, k)
    OBVIOUS
  <1>2. /\ v \in LateForm /\ v.reqs = t.reqs /\ v.cache = t.cache /\ v.jump = t.jump
        /\ ~v.q[k].loading /\ v.q[k].shown = NothingShown
        /\ v.q[k].seq = t.q[k].seq /\ v.q[k].subject = None
        /\ \A j \in Queries \ {k} : v.q[j] = t.q[j]
    BY <1>1, OffFacts
  <1>3. PICK y \in QueryRec : y = v.q[k]
    BY <1>2, LatePieces
  <1>4. PICK n \in Nat : n = y.seq + 1
    BY <1>2, <1>3, LatePieces
  <1>5. PICK x : x = [y EXCEPT !.seq = n]
    OBVIOUS
  <1>6. x \in QueryRec /\ x.loading = y.loading /\ x.shown = y.shown /\ x.seq = n /\ x.subject = y.subject
    BY <1>5, ZenonT(40) DEF QueryRec
  <1>7. u = Put(v, k, x)
    BY <1>1, <1>3, <1>4, <1>5 DEF ClosedView
  <1>8. /\ u \in LateForm /\ u.reqs = v.reqs /\ u.cache = v.cache /\ u.jump = v.jump
        /\ u.q[k] = x /\ \A j \in Queries \ {k} : u.q[j] = v.q[j]
    <2>1. v \in LateForm /\ x \in QueryRec
      BY <1>2, <1>6
    <2>2. u \in LateForm /\ u.reqs = v.reqs /\ u.cache = v.cache /\ u.jump = v.jump
      BY <2>1, <1>7, PutFacts
    <2>3. u.q[k] = x
      BY <2>1, <1>7, PutFacts
    <2>4. ASSUME NEW j \in Queries \ {k} PROVE u.q[j] = v.q[j]
      <3>1. PICK f : f = [v.q EXCEPT ![k] = x]
        OBVIOUS
      <3>2. f[j] = v.q[j]
        BY <2>1, <3>1, LatePieces
      <3>3. u = [v EXCEPT !.q = f]
        BY <1>7, <3>1 DEF Put
      <3>4. u.q = f
        BY <2>1, <3>3, Zenon DEF LateForm
      <3> QED BY <3>2, <3>4
    <2> QED BY <2>2, <2>3, <2>4
  <1> QED BY <1>2, <1>3, <1>4, <1>6, <1>8


\* Asking: a new number, and a request that carries it.
LEMMA AskFacts ==
    ASSUME NEW t \in LateForm, NEW k \in Queries, NEW a \in Named, NEW g \in Nat,
           NEW w \in World, NEW u, u = Ask(t, k, a, g, w)
    PROVE  /\ u \in LateForm /\ u.cache = t.cache /\ u.jump = t.jump
           /\ u.q[k].loading /\ u.q[k].shown = t.q[k].shown
           /\ u.q[k].seq = t.q[k].seq + 1 /\ u.q[k].subject = a
           /\ \A j \in Queries \ {k} : u.q[j] = t.q[j]
           /\ \E r \in ReqRec : /\ u.reqs = t.reqs \cup {r} /\ r.query = k /\ r.gen = g
                                /\ r.seq = t.q[k].seq + 1 /\ r.subject = a /\ r.world = w
  <1>1. PICK y \in QueryRec : y = t.q[k]
    BY LatePieces
  <1>2. PICK n \in Nat : n = t.q[k].seq + 1
    BY LatePieces
  <1>3. PICK r : r = [query |-> k, gen |-> g, seq |-> n, subject |-> a, world |-> w]
    OBVIOUS
  <1>4. r \in ReqRec /\ r.query = k /\ r.gen = g /\ r.seq = n /\ r.subject = a /\ r.world = w
    BY <1>2, <1>3, Zenon DEF ReqRec
  <1>5. PICK x : x = [y EXCEPT !.seq = n, !.subject = a, !.loading = TRUE]
    OBVIOUS
  <1>6. x \in QueryRec /\ x.loading = TRUE /\ x.shown = y.shown /\ x.seq = n /\ x.subject = a
    BY <1>5, ZenonT(40) DEF QueryRec
  <1>7. PICK v : v = Put(t, k, x)
    OBVIOUS
  <1>8. /\ v \in LateForm /\ v.reqs = t.reqs /\ v.cache = t.cache /\ v.jump = t.jump
        /\ v.q[k] = x /\ \A j \in Queries \ {k} : v.q[j] = t.q[j]
    BY <1>6, <1>7, PutFacts
  <1>9. u = [v EXCEPT !.reqs = @ \cup {r}]
    BY <1>1, <1>2, <1>3, <1>5, <1>7, Zenon DEF Ask
  <1>10. PICK c \in SUBSET ReqRec : c = v.reqs \cup {r}
    BY <1>4, <1>8, LatePieces
  <1>11. u = [v EXCEPT !.reqs = c]
    BY <1>9, <1>10, Zenon
  <1>12. u \in LateForm /\ u.reqs = c /\ u.q = v.q /\ u.cache = v.cache /\ u.jump = v.jump
    BY <1>8, <1>11, MoreFacts
  <1>13. u.reqs = t.reqs \cup {r}
    BY <1>8, <1>10, <1>12
  <1>14. /\ u.q[k].loading /\ u.q[k].shown = t.q[k].shown
         /\ u.q[k].seq = t.q[k].seq + 1 /\ u.q[k].subject = a
         /\ \A j \in Queries \ {k} : u.q[j] = t.q[j]
    BY <1>1, <1>2, <1>6, <1>8, <1>12
  <1>15. r.seq = t.q[k].seq + 1
    BY <1>2, <1>4
  <1>16. \E rr \in ReqRec : /\ u.reqs = t.reqs \cup {rr} /\ rr.query = k /\ rr.gen = g
                            /\ rr.seq = t.q[k].seq + 1 /\ rr.subject = a /\ rr.world = w
    BY <1>4, <1>13, <1>15, Zenon
  <1> QED BY <1>8, <1>12, <1>14, <1>16

\* The trace cache, the requests, and both: w is the world in use, g the
\* generation.
CacheGood(c, w) ==
    /\ Len(c) <= TraceMemory
    /\ \A i \in 1..Len(c) : c[i].world = w
    /\ \A i, j \in 1..Len(c) : c[i].subject = c[j].subject => i = j
ReqsGood(t, g, w) ==
    \A r \in t.reqs : r.seq <= t.q[r.query].seq /\ r.gen <= g /\ (r.gen = g => r.world = w)
Sound(t, g, w) == t \in LateForm /\ ReqsGood(t, g, w) /\ CacheGood(t.cache, w)
\* A query that says it is loading has its request under way.
Served(t, k, g) ==
    t.q[k].loading => \E r \in t.reqs : /\ r.query = k /\ r.seq = t.q[k].seq /\ r.subject = t.q[k].subject
                                        /\ (k = "dest" => r.gen = g)
\* What is shown is the screen's own; what a step may show; and a move of the
\* queries K from t to u.
Own(x, k, w) == x.shown = NothingShown \/ (x.shown.subject = x.subject /\ (k # "chat" => x.shown.world = w))
Shows(t, u, k, w) == u.q[k].shown = t.q[k].shown \/ Own(u.q[k], k, w)
Moves(t, u, K, g, w) ==
    /\ Sound(u, g, w)
    /\ t.reqs \subseteq u.reqs
    /\ \A j \in Queries \ K : u.q[j] = t.q[j]
    /\ \A j \in K : Served(u, j, g) /\ Shows(t, u, j, w) /\ u.q[j].seq <= t.q[j].seq + 1

\* A step on one query that leaves it not loading.
LEMMA MovesQuiet ==
    ASSUME NEW g \in Nat, NEW w \in World, NEW t, Sound(t, g, w), NEW k \in Queries, NEW u \in LateForm,
           u.reqs = t.reqs, CacheGood(u.cache, w),
           u.q[k].seq >= t.q[k].seq, u.q[k].seq <= t.q[k].seq + 1, ~u.q[k].loading,
           Shows(t, u, k, w), \A j \in Queries \ {k} : u.q[j] = t.q[j]
    PROVE  Moves(t, u, {k}, g, w)
  <1>1. t \in LateForm /\ ReqsGood(t, g, w)
    BY DEF Sound
  <1>2. \A j \in Queries : t.q[j].seq \in Nat /\ u.q[j].seq \in Nat
    BY <1>1, LatePieces
  <1>3. \A j \in Queries : t.q[j].seq <= u.q[j].seq
    BY <1>2
  <1>4. ReqsGood(u, g, w)
    <2> SUFFICES ASSUME NEW r \in t.reqs PROVE r.seq <= u.q[r.query].seq /\ r.gen <= g /\ (r.gen = g => r.world = w)
      BY DEF ReqsGood
    <2>1. r.seq <= t.q[r.query].seq /\ r.gen <= g /\ (r.gen = g => r.world = w)
      BY <1>1 DEF ReqsGood
    <2>2. r.query \in Queries /\ r.seq \in Nat
      BY <1>1, LatePieces
    <2> QED BY <2>1, <2>2, <1>2, <1>3
  <1>5. Served(u, k, g)
    BY DEF Served
  <1> QED BY <1>4, <1>5 DEF Moves, Sound

\* Asking is a move: the new request serves the query.
LEMMA MovesAsk ==
    ASSUME NEW g \in Nat, NEW w \in World, NEW t, Sound(t, g, w), NEW k \in Queries,
           NEW a \in Named, NEW u, u = Ask(t, k, a, g, w)
    PROVE  Moves(t, u, {k}, g, w)
  <1>1. t \in LateForm /\ ReqsGood(t, g, w) /\ CacheGood(t.cache, w)
    BY DEF Sound
  <1>2. /\ u \in LateForm /\ u.cache = t.cache /\ u.jump = t.jump
        /\ u.q[k].loading /\ u.q[k].shown = t.q[k].shown
        /\ u.q[k].seq = t.q[k].seq + 1 /\ u.q[k].subject = a
        /\ \A j \in Queries \ {k} : u.q[j] = t.q[j]
        /\ \E r \in ReqRec : /\ u.reqs = t.reqs \cup {r} /\ r.query = k /\ r.gen = g
                             /\ r.seq = t.q[k].seq + 1 /\ r.subject = a /\ r.world = w
    BY <1>1, AskFacts
  <1>3. PICK n \in ReqRec : /\ u.reqs = t.reqs \cup {n} /\ n.query = k /\ n.gen = g
                            /\ n.seq = t.q[k].seq + 1 /\ n.subject = a /\ n.world = w
    BY <1>2
  <1>4. \A j \in Queries : t.q[j].seq \in Nat /\ u.q[j].seq \in Nat
    BY <1>1, <1>2, LatePieces
  <1>5. \A j \in Queries : t.q[j].seq <= u.q[j].seq
    BY <1>2, <1>4
  <1>6. ReqsGood(u, g, w)
    <2> SUFFICES ASSUME NEW r \in u.reqs PROVE r.seq <= u.q[r.query].seq /\ r.gen <= g /\ (r.gen = g => r.world = w)
      BY DEF ReqsGood
    <2>1. CASE r = n
      <3>1. r.gen = g /\ r.world = w /\ r.query = k /\ r.seq = u.q[k].seq
        BY <2>1, <1>2, <1>3
      <3> QED BY <3>1, <1>4
    <2>2. CASE r \in t.reqs
      <3>1. r.seq <= t.q[r.query].seq /\ r.gen <= g /\ (r.gen = g => r.world = w)
        BY <2>2, <1>1 DEF ReqsGood
      <3>2. r.query \in Queries /\ r.seq \in Nat
        BY <2>2, <1>1, LatePieces
      <3> QED BY <3>1, <3>2, <1>4, <1>5
    <2> QED BY <2>1, <2>2, <1>3
  <1>7. n \in u.reqs /\ n.query = k /\ n.seq = u.q[k].seq /\ n.subject = u.q[k].subject /\ n.gen = g
    BY <1>2, <1>3
  <1>8. Served(u, k, g)
    BY <1>7 DEF Served
  <1>9. Shows(t, u, k, w)
    BY <1>2 DEF Shows
  <1>10. u.q[k].seq <= t.q[k].seq + 1
    BY <1>2, <1>4
  <1>11. t.reqs \subseteq u.reqs /\ Sound(u, g, w)
    BY <1>1, <1>2, <1>3, <1>6 DEF Sound
  <1>12. Moves(t, u, {k}, g, w)
    BY <1>2, <1>8, <1>9, <1>10, <1>11 DEF Moves
  <1> QED BY <1>2, <1>12

\* Two moves one after the other, of different queries.
LEMMA MovesThen ==
    ASSUME NEW g \in Nat, NEW w \in World, NEW t \in LateForm, NEW v, NEW u, NEW K \in SUBSET Queries, NEW L \in SUBSET Queries,
           K \cap L = {}, Moves(t, v, K, g, w), Moves(v, u, L, g, w)
    PROVE  Moves(t, u, K \cup L, g, w)
  <1>1. Sound(u, g, w) /\ t.reqs \subseteq u.reqs
    BY DEF Moves
  <1>2. \A j \in Queries \ (K \cup L) : u.q[j] = t.q[j]
    BY DEF Moves
  <1>3. ASSUME NEW j \in K PROVE Served(u, j, g) /\ Shows(t, u, j, w) /\ u.q[j].seq <= t.q[j].seq + 1
    <2>1. u.q[j] = v.q[j] /\ v.reqs \subseteq u.reqs /\ Served(v, j, g) /\ Shows(t, v, j, w) /\ v.q[j].seq <= t.q[j].seq + 1
      BY <1>3 DEF Moves
    <2> QED BY <2>1 DEF Served, Shows
  <1>4. ASSUME NEW j \in L PROVE Served(u, j, g) /\ Shows(t, u, j, w) /\ u.q[j].seq <= t.q[j].seq + 1
    <2>1. t.q[j] = v.q[j] /\ Served(u, j, g) /\ Shows(v, u, j, w) /\ u.q[j].seq <= v.q[j].seq + 1
      BY <1>4 DEF Moves
    <2> QED BY <2>1 DEF Shows
  <1> QED BY <1>1, <1>2, <1>3, <1>4 DEF Moves

\* Clearing a query is a move of it.
LEMMA MovesIdle ==
    ASSUME NEW g \in Nat, NEW w \in World, NEW t, Sound(t, g, w), NEW k \in Queries, NEW u, u = Idle(t, k)
    PROVE  Moves(t, u, {k}, g, w) /\ u.q[k].shown = NothingShown /\ u.jump = t.jump
  <1>1. t \in LateForm /\ CacheGood(t.cache, w)
    BY DEF Sound
  <1>2. /\ u \in LateForm /\ u.reqs = t.reqs /\ u.cache = t.cache /\ u.jump = t.jump
        /\ ~u.q[k].loading /\ u.q[k].shown = NothingShown
        /\ u.q[k].seq = t.q[k].seq
        /\ \A j \in Queries \ {k} : u.q[j] = t.q[j]
    BY <1>1, IdleFacts
  <1>3. u.q[k].seq >= t.q[k].seq /\ u.q[k].seq <= t.q[k].seq + 1
    BY <1>1, <1>2, LatePieces
  <1>4. Shows(t, u, k, w)
    BY <1>2 DEF Shows, Own
  <1>5. CacheGood(u.cache, w)
    BY <1>1, <1>2
  <1> QED BY <1>2, <1>3, <1>4, <1>5, MovesQuiet

\* Closing a view is a move of it.
LEMMA MovesClosed ==
    ASSUME NEW g \in Nat, NEW w \in World, NEW t, Sound(t, g, w), NEW k \in Queries, NEW u, u = ClosedView(t, k)
    PROVE  Moves(t, u, {k}, g, w)
  <1>1. t \in LateForm /\ CacheGood(t.cache, w)
    BY DEF Sound
  <1>2. /\ u \in LateForm /\ u.reqs = t.reqs /\ u.cache = t.cache /\ u.jump = t.jump
        /\ ~u.q[k].loading /\ u.q[k].shown = NothingShown
        /\ u.q[k].seq = t.q[k].seq + 1
        /\ \A j \in Queries \ {k} : u.q[j] = t.q[j]
    BY <1>1, ClosedFacts
  <1>3. u.q[k].seq >= t.q[k].seq /\ u.q[k].seq <= t.q[k].seq + 1
    BY <1>1, <1>2, LatePieces
  <1>4. Shows(t, u, k, w)
    BY <1>2 DEF Shows, Own
  <1>5. CacheGood(u.cache, w)
    BY <1>1, <1>2
  <1> QED BY <1>2, <1>3, <1>4, <1>5, MovesQuiet

\* Asking about something new is a move of that query.
LEMMA MovesAnew ==
    ASSUME NEW g \in Nat, NEW w \in World, NEW t, Sound(t, g, w), NEW k \in Queries,
           NEW a \in Named, NEW u, u = Anew(t, k, a, g, w)
    PROVE  Moves(t, u, {k}, g, w)
  <1>1. PICK v : v = Idle(t, k)
    OBVIOUS
  <1>2. Moves(t, v, {k}, g, w) /\ v.q[k].shown = NothingShown /\ v.jump = t.jump
    BY <1>1, MovesIdle
  <1>3. t \in LateForm /\ v \in LateForm /\ v.q[k].seq = t.q[k].seq
    BY <1>1, IdleFacts DEF Sound
  <1>4. u = Ask(v, k, a, g, w)
    BY <1>1 DEF Anew
  <1>5. Sound(v, g, w)
    BY <1>2 DEF Moves
  <1>a. Moves(v, u, {k}, g, w)
    BY <1>4, <1>5, MovesAsk
  <1>b. u.q[k].shown = v.q[k].shown /\ u.jump = v.jump
    BY <1>3, <1>4, AskFacts
  <1>6. Moves(v, u, {k}, g, w) /\ u.q[k].shown = v.q[k].shown /\ u.jump = v.jump
    BY <1>a, <1>b
  <1>7. Shows(t, u, k, w)
    BY <1>2, <1>6 DEF Shows, Own
  <1>8. u.q[k].seq <= t.q[k].seq + 1
    BY <1>3, <1>6 DEF Moves
  <1>9. \A j \in Queries \ {k} : u.q[j] = t.q[j]
    BY <1>2, <1>6 DEF Moves
  <1>10. t.reqs \subseteq u.reqs /\ Sound(u, g, w) /\ Served(u, k, g)
    BY <1>2, <1>6 DEF Moves
  <1> QED BY <1>2, <1>6, <1>7, <1>8, <1>9, <1>10 DEF Moves

\* No entry for h, and all of the world in use.
Alone(c, h, w) ==
    \A j \in 1..Len(c) : c[j].subject # h /\ c[j].world = w
Distinct(c) == \A i, j \in 1..Len(c) : c[i].subject = c[j].subject => i = j

\* The trace cache without a hash.
LEMMA WithoutFacts ==
    ASSUME NEW c \in Seq(Shown), NEW w, CacheGood(c, w), NEW h, NEW d, d = Without(c, h)
    PROVE  /\ d \in Seq(Shown) /\ Alone(d, h, w) /\ Distinct(d) /\ Len(d) <= Len(c)
           /\ (\E i \in 1..Len(c) : c[i].subject = h) => Len(d) = Len(c) - 1
  <1>1. CASE ~\E i \in 1..Len(c) : c[i].subject = h
    <2>1. d = c
      BY <1>1 DEF Without
    <2>2. Len(c) \in Nat
      OBVIOUS
    <2> QED BY <1>1, <2>1, <2>2 DEF CacheGood, Alone, Distinct
  <1>2. CASE \E i \in 1..Len(c) : c[i].subject = h
    <2>1. PICK i : i = CHOOSE n \in 1..Len(c) : c[n].subject = h
      OBVIOUS
    <2>2. i \in 1..Len(c) /\ c[i].subject = h
      BY <1>2, <2>1
    <2>3. d = RemoveAt(c, i)
      BY <1>2, <2>1 DEF Without
    <2>4. /\ d \in Seq(Shown) /\ Len(d) = Len(c) - 1
          /\ \A j \in 1..Len(d) : d[j] = c[IF j < i THEN j ELSE j + 1]
      BY <2>2, <2>3, RemoveAtFacts
    <2>5. Len(c) \in Nat
      OBVIOUS
    <2>6. \A j \in 1..Len(d) : /\ (IF j < i THEN j ELSE j + 1) \in 1..Len(c)
                             /\ (IF j < i THEN j ELSE j + 1) # i
      BY <2>2, <2>4, <2>5
    <2>7. Alone(d, h, w)
      BY <2>2, <2>4, <2>6 DEF Alone, CacheGood
    <2>8. ASSUME NEW m \in 1..Len(d), NEW n \in 1..Len(d), d[m].subject = d[n].subject PROVE m = n
      <3>1. PICK m1 \in 1..Len(c) : m1 = (IF m < i THEN m ELSE m + 1) /\ d[m] = c[m1]
        BY <2>4, <2>6
      <3>2. PICK n1 \in 1..Len(c) : n1 = (IF n < i THEN n ELSE n + 1) /\ d[n] = c[n1]
        BY <2>4, <2>6
      <3>3. m1 = n1
        BY <3>1, <3>2, <2>8 DEF CacheGood
      <3> QED BY <3>1, <3>2, <3>3, <2>2, <2>4, <2>5
    <2>9. Distinct(d)
      BY <2>8 DEF Distinct
    <2> QED BY <1>2, <2>4, <2>5, <2>7, <2>9
  <1> QED BY <1>1, <1>2

\* cached_trace and remember_trace keep one entry for a hash.
LEMMA ToFrontFacts ==
    ASSUME NEW w, NEW c \in Seq(Shown), CacheGood(c, w), NEW e \in Shown, e.world = w, NEW f, f = ToFront(c, e)
    PROVE  /\ f \in Seq(Shown) /\ Distinct(f) /\ (\A i \in 1..Len(f) : f[i].world = w)
           /\ (\E i \in 1..Len(c) : c[i].subject = e.subject) => Len(f) = Len(c)
  <1>1. PICK h : h = e.subject
    OBVIOUS
  <1>2. PICK d : d = Without(c, h)
    OBVIOUS
  <1>3. /\ d \in Seq(Shown) /\ Alone(d, h, w) /\ Distinct(d) /\ Len(d) <= Len(c)
        /\ (\E i \in 1..Len(c) : c[i].subject = h) => Len(d) = Len(c) - 1
    BY <1>2, WithoutFacts
  <1>4. f = <<e>> \o d
    BY <1>1, <1>2 DEF ToFront
  <1>5. Len(c) \in Nat /\ Len(d) \in Nat
    BY <1>3
  <1>6. f \in Seq(Shown) /\ Len(f) = Len(d) + 1 /\ f[1] = e /\ \A j \in 1..Len(d) : f[j + 1] = d[j]
    BY <1>3, <1>4
  <1>7. \A i \in 1..Len(f) : i = 1 \/ (i - 1 \in 1..Len(d) /\ f[i] = d[i - 1])
    <2> SUFFICES ASSUME NEW i \in 1..Len(f), i # 1 PROVE i - 1 \in 1..Len(d) /\ f[i] = d[i - 1]
      OBVIOUS
    <2>1. PICK j \in 1..Len(d) : i = j + 1
      <3>1. i - 1 \in 1..Len(d) /\ i = (i - 1) + 1
        BY <1>5, <1>6
      <3> QED BY <3>1
    <2>2. i - 1 = j /\ f[j + 1] = d[j]
      BY <2>1, <1>6
    <2> QED BY <2>1, <2>2
  <1>8. \A i \in 1..Len(f) : f[i].world = w
    BY <1>3, <1>6, <1>7 DEF Alone
  <1>9. ASSUME NEW m \in 1..Len(f), NEW n \in 1..Len(f), f[m].subject = f[n].subject PROVE m = n
    <2>1. CASE m = 1 /\ n = 1
      BY <2>1
    <2>2. CASE m = 1 /\ n # 1
      BY <2>2, <1>1, <1>3, <1>6, <1>7, <1>9 DEF Alone
    <2>3. CASE m # 1 /\ n = 1
      BY <2>3, <1>1, <1>3, <1>6, <1>7, <1>9 DEF Alone
    <2>4. CASE m # 1 /\ n # 1
      <3>1. m - 1 \in 1..Len(d) /\ n - 1 \in 1..Len(d) /\ d[m - 1].subject = d[n - 1].subject
        BY <2>4, <1>7, <1>9
      <3>2. m - 1 = n - 1
        BY <3>1, <1>3 DEF Distinct
      <3> QED BY <3>2
    <2> QED BY <2>1, <2>2, <2>3, <2>4
  <1>10. Distinct(f)
    BY <1>9 DEF Distinct
  <1> QED BY <1>1, <1>3, <1>5, <1>6, <1>8, <1>10

\* remember_trace keeps at most TRACE_MEMORY entries.
LEMMA RememberedFacts ==
    ASSUME NEW w, NEW c \in Seq(Shown), CacheGood(c, w), NEW e \in Shown, e.world = w, NEW d, d = Remembered(c, e)
    PROVE  d \in Seq(Shown) /\ CacheGood(d, w)
  <1>1. PICK f : f = ToFront(c, e)
    OBVIOUS
  <1>2. f \in Seq(Shown) /\ Distinct(f) /\ (\A i \in 1..Len(f) : f[i].world = w)
    BY <1>1, ToFrontFacts
  <1>3. PICK n : n = IF Len(f) < TraceMemory THEN Len(f) ELSE TraceMemory
    OBVIOUS
  <1>4. d = SubSeq(f, 1, n)
    BY <1>1, <1>3 DEF Remembered
  <1>5. Len(f) \in Nat /\ TraceMemory \in Nat
    BY <1>2, LateConstants
  <1>6. n \in Nat /\ n <= Len(f) /\ n <= TraceMemory
    BY <1>3, <1>5
  <1>7. d \in Seq(Shown) /\ Len(d) = n /\ \A i \in 1..n : d[i] = f[i] /\ i \in 1..Len(f)
    BY <1>2, <1>4, <1>5, <1>6
  <1>8. \A i \in 1..Len(d) : d[i].world = w
    BY <1>2, <1>7
  <1>9. \A i, j \in 1..Len(d) : d[i].subject = d[j].subject => i = j
    <2> SUFFICES ASSUME NEW i \in 1..Len(d), NEW j \in 1..Len(d), d[i].subject = d[j].subject
                 PROVE  i = j
      OBVIOUS
    <2>1. d[i] = f[i] /\ d[j] = f[j] /\ i \in 1..Len(f) /\ j \in 1..Len(f)
      BY <1>7
    <2> QED BY <1>2, <2>1 DEF Distinct
  <1> QED BY <1>6, <1>7, <1>8, <1>9 DEF CacheGood

\* The queries.
LEMMA QueryNames ==
    Queries = {"clock", "stats", "account", "txs", "trace", "pool", "storage", "chat", "dest"}
  BY DEF Queries, Groups

\* A query may be about nothing.
LEMMA NoneNamed == None \in Named
  BY DEF Named

\* Two moves of one query, when the second keeps what may be shown.
LEMMA MovesOver ==
    ASSUME NEW g, NEW w, NEW t, NEW v, NEW u, NEW k \in Queries, Moves(t, v, {k}, g, w), Moves(v, u, {k}, g, w),
           u.q[k].seq <= t.q[k].seq + 1, Shows(t, u, k, w)
    PROVE  Moves(t, u, {k}, g, w)
  BY DEF Moves

\* A trace from the cache is shown for the endpoint in use: the cache holds no
\* other.
LEMMA MovesTracedCached ==
    ASSUME NEW g \in Nat, NEW w \in World, NEW t, Sound(t, g, w), NEW h \in Named, NEW u,
           u = Traced(t, h, g, w), Cached(t, h)
    PROVE  Moves(t, u, {"trace"}, g, w)
  <1>0. "trace" \in Queries
    BY QueryNames
  <1>1. t \in LateForm /\ CacheGood(t.cache, w)
    BY DEF Sound
  <1>2. t.cache \in Seq(Shown) /\ t.q["trace"].seq \in Nat
    BY <1>0, <1>1, LatePieces
  <1>3. PICK c \in Seq(Shown) : c = t.cache
    BY <1>2
  <1>4. PICK e : e = CHOOSE x \in ToSet(c) : x.subject = h
    OBVIOUS
  <1>5. \E x \in ToSet(c) : x.subject = h
    BY <1>3 DEF Cached, ToSet
  <1>6. e \in ToSet(c) /\ e.subject = h
    BY <1>4, <1>5
  <1>7. PICK i \in 1..Len(c) : e = c[i]
    BY <1>3, <1>6 DEF ToSet
  <1>8. e \in Shown /\ e.world = w
    BY <1>1, <1>3, <1>7 DEF CacheGood
  <1>9. PICK n \in Nat : n = t.q["trace"].seq + 1
    BY <1>2
  <1>10. PICK x : x = [seq |-> n, subject |-> h, loading |-> FALSE, shown |-> e]
    OBVIOUS
  <1>11. x \in QueryRec /\ ~x.loading /\ x.shown = e /\ x.seq = n /\ x.subject = h
    BY <1>8, <1>10, Zenon DEF QueryRec
  <1>12. PICK v : v = Put(t, "trace", x)
    OBVIOUS
  <1>13. /\ v \in LateForm /\ v.reqs = t.reqs /\ v.cache = t.cache /\ v.jump = t.jump
         /\ v.q["trace"] = x /\ \A j \in Queries \ {"trace"} : v.q[j] = t.q[j]
    BY <1>0, <1>1, <1>11, <1>12, PutFacts
  <1>14. PICK d : d = ToFront(c, e)
    OBVIOUS
  <1>15. d \in Seq(Shown) /\ Distinct(d) /\ (\A m \in 1..Len(d) : d[m].world = w) /\ Len(d) = Len(c)
    BY <1>1, <1>3, <1>6, <1>7, <1>8, <1>14, ToFrontFacts
  <1>16. CacheGood(d, w)
    BY <1>1, <1>3, <1>15 DEF CacheGood, Distinct
  <1>17. u = [v EXCEPT !.cache = d]
    <2>1. u = [Put(t, "trace", [seq |-> t.q["trace"].seq + 1, subject |-> h, loading |-> FALSE, shown |-> e])
                 EXCEPT !.cache = ToFront(@, e)]
      BY <1>3, <1>4 DEF Traced
    <2>2. u = [v EXCEPT !.cache = ToFront(@, e)]
      BY <2>1, <1>9, <1>10, <1>12
    <2> QED BY <2>2, <1>3, <1>13, <1>14, Zenon
  <1>18. u \in LateForm /\ u.cache = d /\ u.q = v.q /\ u.reqs = v.reqs /\ u.jump = v.jump
    BY <1>13, <1>15, <1>17, CacheFacts
  <1>19. CacheGood(u.cache, w) /\ u.reqs = t.reqs /\ u.jump = t.jump /\ \A j \in Queries \ {"trace"} : u.q[j] = t.q[j]
    BY <1>13, <1>16, <1>18
  <1>20. u.q["trace"] = x
    BY <1>13, <1>18
  <1>21. u.q["trace"].seq >= t.q["trace"].seq /\ u.q["trace"].seq <= t.q["trace"].seq + 1 /\ ~u.q["trace"].loading
    BY <1>2, <1>9, <1>11, <1>20
  <1>22. Shows(t, u, "trace", w)
    BY <1>6, <1>8, <1>11, <1>20 DEF Shows, Own
  <1>23. Moves(t, u, {"trace"}, g, w)
    BY <1>0, <1>18, <1>19, <1>21, <1>22, MovesQuiet
  <1> QED BY <1>19, <1>23

\* trace_transaction moves the trace only.
LEMMA MovesTraced ==
    ASSUME NEW g \in Nat, NEW w \in World, NEW t, Sound(t, g, w), NEW h \in Named, NEW u, u = Traced(t, h, g, w)
    PROVE  Moves(t, u, {"trace"}, g, w)
  <1>1. CASE Cached(t, h)
    BY <1>1, MovesTracedCached
  <1>2. CASE ~Cached(t, h)
    <2>1. u = Anew(t, "trace", h, g, w)
      BY <1>2 DEF Traced
    <2>2. "trace" \in Queries
      BY QueryNames
    <2> QED BY <2>1, <2>2, MovesAnew
  <1> QED BY <1>1, <1>2

\* inspect_account moves the account, its transactions and the trace.
LEMMA MovesInspected ==
    ASSUME NEW g \in Nat, NEW w \in World, NEW t, Sound(t, g, w), NEW a \in Named, NEW u, u = Inspected(t, a, g, w)
    PROVE  Moves(t, u, {"trace", "account", "txs"}, g, w)
  <1>0. "trace" \in Queries /\ "account" \in Queries /\ "txs" \in Queries
    BY QueryNames
  <1>1. PICK v : v = ClosedView(t, "trace")
    OBVIOUS
  <1>2. Moves(t, v, {"trace"}, g, w)
    BY <1>0, <1>1, MovesClosed
  <1>3. Sound(v, g, w)
    BY <1>2 DEF Moves
  <1>4. PICK y : y = Ask(v, "account", a, g, w)
    OBVIOUS
  <1>5. Moves(v, y, {"account"}, g, w)
    BY <1>0, <1>3, <1>4, MovesAsk
  <1>6. Sound(y, g, w)
    BY <1>5 DEF Moves
  <1>7. u = Anew(y, "txs", a, g, w)
    BY <1>1, <1>4 DEF Inspected
  <1>8. Moves(y, u, {"txs"}, g, w)
    BY <1>0, <1>6, <1>7, MovesAnew
  <1>9. t \in LateForm /\ v \in LateForm
    BY <1>3 DEF Sound
  <1>10. {"trace"} \in SUBSET Queries /\ {"account"} \in SUBSET Queries /\ {"txs"} \in SUBSET Queries
         /\ {"account", "txs"} \in SUBSET Queries /\ {"account"} \cap {"txs"} = {}
         /\ {"trace"} \cap {"account", "txs"} = {}
    BY <1>0
  <1>11. Moves(v, u, {"account"} \cup {"txs"}, g, w)
    BY <1>5, <1>8, <1>9, <1>10, MovesThen
  <1>12. {"account"} \cup {"txs"} = {"account", "txs"} /\ {"trace"} \cup {"account", "txs"} = {"trace", "account", "txs"}
    OBVIOUS
  <1>13. Moves(v, u, {"account", "txs"}, g, w)
    BY <1>11, <1>12
  <1>14. Moves(t, u, {"trace"} \cup {"account", "txs"}, g, w)
    BY <1>2, <1>9, <1>10, <1>13, MovesThen
  <1> QED BY <1>12, <1>14

\* An answer that was expected, from this endpoint, may be shown.
LEMMA MovesTaken ==
    ASSUME NEW g \in Nat, NEW w \in World, NEW t, Sound(t, g, w), NEW r \in ReqRec, NEW k \in Queries, r.query = k,
           r.subject = t.q[k].subject, k # "chat" => r.world = w, NEW ok \in BOOLEAN, NEW u, u = Taken(t, r, ok)
    PROVE  Moves(t, u, {k}, g, w) /\ ~u.q[k].loading
  <1>1. t \in LateForm /\ CacheGood(t.cache, w)
    BY DEF Sound
  <1>2. PICK y \in QueryRec : y = t.q[k]
    BY <1>1, LatePieces
  <1>3. PICK n : n = [subject |-> r.subject, world |-> r.world]
    OBVIOUS
  <1>4. r.subject \in Named /\ r.world \in World
    BY Zenon DEF ReqRec
  <1>5. n \in Shown /\ n.subject = r.subject /\ n.world = r.world
    BY <1>3, <1>4, Zenon DEF Shown, Named
  <1>6. PICK z : z = IF ok THEN n ELSE IF k \in {"clock", "stats", "storage"} THEN y.shown ELSE NothingShown
    OBVIOUS
  <1>7. y.shown \in Shown \cup {NothingShown} /\ y.seq \in Nat
    BY Zenon DEF QueryRec
  <1>8. z \in Shown \cup {NothingShown}
    BY <1>5, <1>6, <1>7
  <1>9. PICK x : x = [y EXCEPT !.loading = FALSE, !.shown = z]
    OBVIOUS
  <1>10. x \in QueryRec /\ ~x.loading /\ x.shown = z /\ x.seq = y.seq /\ x.subject = y.subject
    BY <1>8, <1>9, Zenon DEF QueryRec
  <1>11. u = Put(t, k, x)
    <2>1. [y EXCEPT !.loading = FALSE,
                    !.shown = IF ok THEN n ELSE IF k \in {"clock", "stats", "storage"} THEN @ ELSE NothingShown] = x
      BY <1>6, <1>9, Zenon
    <2> QED BY <2>1, <1>2, <1>3, Zenon DEF Taken
  <1>12. /\ u \in LateForm /\ u.reqs = t.reqs /\ u.cache = t.cache /\ u.jump = t.jump
         /\ u.q[k] = x /\ \A j \in Queries \ {k} : u.q[j] = t.q[j]
    BY <1>1, <1>10, <1>11, PutFacts
  <1>13. Own(x, k, w) \/ x.shown = y.shown
    BY <1>2, <1>5, <1>6, <1>10 DEF Own
  <1>14. Shows(t, u, k, w)
    BY <1>2, <1>12, <1>13 DEF Shows
  <1>15. u.q[k].seq >= t.q[k].seq /\ u.q[k].seq <= t.q[k].seq + 1 /\ ~u.q[k].loading
    BY <1>2, <1>7, <1>10, <1>12
  <1>16. CacheGood(u.cache, w)
    BY <1>1, <1>12
  <1>17. Moves(t, u, {k}, g, w)
    BY <1>12, <1>14, <1>15, <1>16, MovesQuiet
  <1> QED BY <1>15, <1>17

\* The generation and the world in use.
Here(g, w) == gen = g /\ world = w

\* abandon_stale_storage_read asks again or stops loading.
LEMMA MovesAbandoned ==
    ASSUME NEW g \in Nat, NEW w \in World, Here(g, w), NEW t, Sound(t, g, w), NEW u, u = Abandoned(t)
    PROVE  Moves(t, u, {"storage"}, g, w)
  <1>0. "storage" \in Queries
    BY QueryNames
  <1>1. t \in LateForm /\ CacheGood(t.cache, w)
    BY DEF Sound
  <1>2. PICK y \in QueryRec : y = t.q["storage"]
    BY <1>0, <1>1, LatePieces
  <1>3. PICK x : x = [y EXCEPT !.loading = FALSE]
    OBVIOUS
  <1>4. y.seq \in Nat
    BY Zenon DEF QueryRec
  <1>5. x \in QueryRec /\ ~x.loading /\ x.shown = y.shown /\ x.seq = y.seq /\ x.subject = y.subject
    BY <1>3, Zenon DEF QueryRec
  <1>6. PICK v : v = Put(t, "storage", x)
    OBVIOUS
  <1>7. /\ v \in LateForm /\ v.reqs = t.reqs /\ v.cache = t.cache
        /\ v.q["storage"] = x /\ \A j \in Queries \ {"storage"} : v.q[j] = t.q[j]
    BY <1>0, <1>1, <1>5, <1>6, PutFacts
  <1>8. v.q["storage"].seq >= t.q["storage"].seq /\ v.q["storage"].seq <= t.q["storage"].seq + 1 /\ ~v.q["storage"].loading
    BY <1>2, <1>4, <1>5, <1>7
  <1>9. Shows(t, v, "storage", w) /\ CacheGood(v.cache, w)
    BY <1>1, <1>2, <1>5, <1>7 DEF Shows
  <1>10. Moves(t, v, {"storage"}, g, w)
    BY <1>0, <1>7, <1>8, <1>9, MovesQuiet
  <1>11. CASE ~y.loading
    <2>1. u = t
      BY <1>2, <1>11 DEF Abandoned
    <2>2. t.reqs \subseteq u.reqs /\ Served(u, "storage", g) /\ Shows(t, u, "storage", w)
      BY <1>2, <1>11, <2>1 DEF Served, Shows
    <2>3. u.q["storage"].seq <= t.q["storage"].seq + 1
      BY <1>2, <1>4, <2>1
    <2> QED BY <2>1, <2>2, <2>3 DEF Moves
  <1>12. CASE y.loading /\ ~tab
    <2>1. u = v
      BY <1>2, <1>3, <1>6, <1>12 DEF Abandoned
    <2> QED BY <2>1, <1>10
  <1>13. CASE y.loading /\ tab
    <2>1. u = Ask(v, "storage", None, g, w)
      BY <1>2, <1>3, <1>6, <1>13 DEF Abandoned, AskedStorage, Here
    <2>2. Sound(v, g, w)
      BY <1>10 DEF Moves
    <2>3. Moves(v, u, {"storage"}, g, w)
      BY <1>0, <2>1, <2>2, NoneNamed, MovesAsk
    <2>4. u.q["storage"].shown = v.q["storage"].shown /\ u.q["storage"].seq = v.q["storage"].seq + 1
      BY <1>0, <1>7, <2>1, NoneNamed, AskFacts
    <2>5. u.q["storage"].seq <= t.q["storage"].seq + 1
      BY <1>2, <1>4, <1>5, <1>7, <2>4
    <2>6. Shows(t, u, "storage", w)
      BY <1>2, <1>5, <1>7, <2>4 DEF Shows
    <2> QED BY <1>0, <1>10, <2>3, <2>5, <2>6, MovesOver
  <1> QED BY <1>11, <1>12, <1>13

\* The pending trace may change in any move.
LEMMA MovesJumpSet ==
    ASSUME NEW g, NEW w, NEW t, NEW K, NEW v, Moves(t, v, K, g, w), NEW h \in Named, NEW u, u = [v EXCEPT !.jump = h]
    PROVE  Moves(t, u, K, g, w)
  <1>1. v \in LateForm
    BY DEF Moves, Sound
  <1>2. u \in LateForm /\ u.q = v.q /\ u.reqs = v.reqs /\ u.cache = v.cache
    BY <1>1, JumpFacts
  <1>3. Sound(u, g, w)
    BY <1>2 DEF Moves, Sound, ReqsGood
  <1> QED BY <1>2, <1>3 DEF Moves, Served, Shows

\* A pending trace is opened as if it had been asked for.
LEMMA MovesJumped ==
    ASSUME NEW g \in Nat, NEW w \in World, Here(g, w), NEW t, Sound(t, g, w), NEW u, u = Jumped(t)
    PROVE  u = t \/ Moves(t, u, {"trace"}, g, w)
  <1>1. CASE t.jump = None
    BY <1>1 DEF Jumped
  <1>2. CASE t.jump # None
    <2>1. PICK h \in Named : h = t.jump
      BY LatePieces DEF Sound
    <2>2. PICK v : v = Traced(t, h, g, w)
      OBVIOUS
    <2>3. Moves(t, v, {"trace"}, g, w)
      BY <2>2, MovesTraced
    <2>4. u = [v EXCEPT !.jump = None]
      BY <1>2, <2>1, <2>2 DEF Jumped, Here
    <2> QED BY <2>3, <2>4, NoneNamed, MovesJumpSet
  <1> QED BY <1>1, <1>2

\* Remembering a trace shows nothing.
LEMMA MovesRemembered ==
    ASSUME NEW g \in Nat, NEW w \in World, NEW t, Sound(t, g, w), NEW r \in ReqRec, r.world = w, NEW ok \in BOOLEAN,
           NEW u, u \in Traces(t, r, ok)
    PROVE  Moves(t, u, {}, g, w)
  <1>1. t \in LateForm /\ ReqsGood(t, g, w) /\ CacheGood(t.cache, w)
    BY DEF Sound
  <1>2. CASE u = t
    BY <1>2 DEF Moves
  <1>3. CASE u # t
    <2>1. PICK e : e = [subject |-> r.subject, world |-> r.world]
      OBVIOUS
    <2>2. r.subject \in Named /\ r.world \in World
      BY Zenon DEF ReqRec
    <2>3. e \in Shown /\ e.world = w
      BY <2>1, <2>2, Zenon DEF Shown, Named
    <2>4. u = [t EXCEPT !.cache = Remembered(@, e)]
      BY <1>3, <2>1, Zenon DEF Traces
    <2>5. PICK d : d = Remembered(t.cache, e)
      OBVIOUS
    <2>6. t.cache \in Seq(Shown)
      BY <1>1, LatePieces
    <2>7. d \in Seq(Shown) /\ CacheGood(d, w)
      BY <1>1, <2>3, <2>5, <2>6, RememberedFacts
    <2>8. u = [t EXCEPT !.cache = d]
      BY <2>4, <2>5, Zenon
    <2>9. u \in LateForm /\ u.cache = d /\ u.q = t.q /\ u.reqs = t.reqs
      BY <1>1, <2>7, <2>8, CacheFacts
    <2>10. Sound(u, g, w)
      BY <1>1, <2>7, <2>9 DEF Sound, ReqsGood
    <2> QED BY <2>9, <2>10 DEF Moves
  <1> QED BY <1>2, <1>3

\* All but K is served; the bounds; the queries that never say they load; and
\* what a step from t to u must keep.
AllServed(t, K, g) == \A k \in (Queries \ K) \ {"pool"} : Served(t, k, g)
Bounded(t) == \A k \in Queries : t.q[k].seq <= MaxAsked
AllShow(t, u, w) == \A k \in Queries : Shows(t, u, k, w)
Calm(t) == ~t.q["clock"].loading /\ ~t.q["stats"].loading
Result(t, u, g, w) == Sound(u, g, w) /\ AllServed(u, {}, g) /\ Calm(u) /\ AllShow(t, u, w)

\* After a move of K, everything is served if all but K was.
LEMMA MovesResult ==
    ASSUME NEW g, NEW w, NEW t, NEW u, NEW K \in SUBSET Queries, AllServed(t, K, g), Moves(t, u, K, g, w), Calm(t),
           \A k \in {"clock", "stats"} \cap K : ~u.q[k].loading
    PROVE  Result(t, u, g, w)
  <1>1. ASSUME NEW k \in Queries \ K PROVE Shows(t, u, k, w) /\ (Served(t, k, g) => Served(u, k, g))
    <2>1. u.q[k] = t.q[k] /\ t.reqs \subseteq u.reqs
      BY <1>1 DEF Moves
    <2> QED BY <2>1 DEF Shows, Served
  <1>2. ASSUME NEW k \in K PROVE Shows(t, u, k, w) /\ Served(u, k, g)
    BY <1>2 DEF Moves
  <1>3. AllShow(t, u, w)
    BY <1>1, <1>2 DEF AllShow
  <1>4. AllServed(u, {}, g)
    BY <1>1, <1>2 DEF AllServed
  <1>5. Sound(u, g, w)
    BY DEF Moves
  <1>6. ASSUME NEW k \in {"clock", "stats"} PROVE ~u.q[k].loading
    <2>1. CASE k \in K
      BY <2>1
    <2>2. CASE k \notin K
      <3>1. k \in Queries
        BY QueryNames
      <3>2. u.q[k] = t.q[k]
        BY <3>1, <2>2 DEF Moves
      <3> QED BY <3>2 DEF Calm
    <2> QED BY <2>1, <2>2
  <1>7. Calm(u)
    BY <1>6 DEF Calm
  <1> QED BY <1>3, <1>4, <1>5, <1>7 DEF Result

\* A move counts each of its queries up by at most one.
LEMMA MovesBounded ==
    ASSUME NEW g, NEW w, NEW t \in LateForm, NEW u, NEW K \in SUBSET Queries, Bounded(t), CanAsk(t, K), Moves(t, u, K, g, w)
    PROVE  Bounded(u)
  <1>1. u \in LateForm
    BY DEF Moves, Sound
  <1>2. SUFFICES ASSUME NEW k \in Queries PROVE u.q[k].seq <= MaxAsked
    BY DEF Bounded
  <1>3. t.q[k].seq \in Nat /\ u.q[k].seq \in Nat /\ MaxAsked \in Nat /\ t.q[k].seq <= MaxAsked
    BY <1>1, LatePieces, LateConstants DEF Bounded
  <1>4. CASE k \in K
    <2>1. u.q[k].seq <= t.q[k].seq + 1 /\ t.q[k].seq < MaxAsked
      BY <1>4 DEF Moves, CanAsk
    <2> QED BY <2>1, <1>3
  <1>5. CASE k \notin K
    <2>1. u.q[k] = t.q[k]
      BY <1>5 DEF Moves
    <2> QED BY <2>1, <1>3
  <1> QED BY <1>4, <1>5

-----------------------------------------------------------------------------
(* LateAnswers: an answer.                                                 *)

\* The invariant of the pages, of a record.
Good(t, g, w) == Sound(t, g, w) /\ AllServed(t, {}, g) /\ Calm(t) /\ Bounded(t)

\* An answer whose query does not lose its request with it.
Lapsed(t, r, g) ==
    \/ ~(r.seq = t.q[r.query].seq /\ r.subject = t.q[r.query].subject)
    \/ (r.query = "dest" /\ r.gen # g)
    \/ r.query \in {"clock", "stats", "pool"}

\* A request less.
LEMMA AnsweredForm ==
    ASSUME NEW t \in LateForm, NEW r, NEW v, v = Arrived(t, r)
    PROVE  v \in LateForm /\ v.reqs = t.reqs \ {r} /\ v.q = t.q /\ v.cache = t.cache
  <1>1. PICK c : c = t.reqs \ {r}
    OBVIOUS
  <1>2. c \in SUBSET ReqRec
    BY <1>1, LatePieces
  <1>3. v = [t EXCEPT !.reqs = c]
    BY <1>1, Zenon DEF Arrived
  <1> QED BY <1>1, <1>2, <1>3, Zenon DEF LateForm

\* The answer is off the list: only its own query may have lost its request,
\* and not even that one if the answer is not the one expected.
LEMMA DroppedFacts ==
    ASSUME NEW g \in Nat, NEW w \in World, NEW t, Good(t, g, w), NEW r \in t.reqs, NEW v, v = Arrived(t, r)
    PROVE  /\ Sound(v, g, w) /\ Calm(v) /\ v.q = t.q /\ r \in ReqRec /\ r.query \in Queries
           /\ AllServed(v, {r.query}, g)
           /\ Lapsed(t, r, g) => AllServed(v, {}, g)
  <1>1. t \in LateForm /\ ReqsGood(t, g, w) /\ CacheGood(t.cache, w) /\ AllServed(t, {}, g) /\ Calm(t)
    BY DEF Good, Sound
  <1>3. r \in ReqRec /\ r.query \in Queries
    BY <1>1, LatePieces
  <1>5. v \in LateForm /\ v.reqs = t.reqs \ {r} /\ v.q = t.q /\ v.cache = t.cache
    BY <1>1, AnsweredForm
  <1>6. Sound(v, g, w) /\ Calm(v)
    BY <1>1, <1>5 DEF Sound, ReqsGood, Calm
  <1>7. ASSUME NEW k \in Queries \ {"pool"}, k # r.query PROVE Served(v, k, g)
    <2>1. Served(t, k, g)
      BY <1>1, <1>7 DEF AllServed
    <2>2. SUFFICES ASSUME t.q[k].loading PROVE Served(v, k, g)
      BY <1>5 DEF Served
    <2>3. PICK n \in t.reqs : n.query = k /\ n.seq = t.q[k].seq /\ n.subject = t.q[k].subject /\ (k = "dest" => n.gen = g)
      BY <2>1, <2>2, Zenon DEF Served
    <2>4. n \in v.reqs
      BY <1>5, <1>7, <2>3
    <2> QED BY <1>5, <2>3, <2>4 DEF Served
  <1>8. ASSUME \/ ~(r.seq = t.q[r.query].seq /\ r.subject = t.q[r.query].subject)
               \/ (r.query = "dest" /\ r.gen # g),
               r.query # "pool"
        PROVE  Served(v, r.query, g)
    <2>1. Served(t, r.query, g)
      BY <1>1, <1>3, <1>8 DEF AllServed
    <2>2. SUFFICES ASSUME t.q[r.query].loading PROVE Served(v, r.query, g)
      BY <1>5 DEF Served
    <2>3. PICK n \in t.reqs : /\ n.query = r.query /\ n.seq = t.q[r.query].seq /\ n.subject = t.q[r.query].subject
                              /\ (r.query = "dest" => n.gen = g)
      BY <2>1, <2>2, Zenon DEF Served
    <2>4. n \in v.reqs
      BY <1>5, <1>8, <2>3
    <2> QED BY <1>5, <2>3, <2>4 DEF Served
  <1>9. ASSUME r.query \in {"clock", "stats"} PROVE Served(v, r.query, g)
    BY <1>6, <1>9 DEF Served, Calm
  <1>10. AllServed(v, {r.query}, g)
    BY <1>7 DEF AllServed
  <1>11. ASSUME Lapsed(t, r, g) PROVE AllServed(v, {}, g)
    <2>1. r.query # "pool" => Served(v, r.query, g)
      BY <1>8, <1>9, <1>11 DEF Lapsed
    <2> QED BY <2>1, <1>7 DEF AllServed
  <1> QED BY <1>3, <1>5, <1>6, <1>10, <1>11

\* Nothing moves.
LEMMA StayResult ==
    ASSUME NEW g, NEW w, NEW v, Sound(v, g, w), Calm(v), AllServed(v, {}, g)
    PROVE  Result(v, v, g, w)
  BY DEF Result, AllShow, Shows

\* Fewer queries to ask about.
LEMMA ServedLess ==
    ASSUME NEW g, NEW v, NEW k, AllServed(v, {k}, g), NEW K, k \in K
    PROVE  AllServed(v, K, g)
  BY DEF AllServed

\* Taking the answer serves its query.
LEMMA TakenResult ==
    ASSUME NEW g \in Nat, NEW w \in World, NEW v, Sound(v, g, w), Calm(v), NEW r \in ReqRec, NEW k \in Queries, r.query = k,
           AllServed(v, {k}, g), r.subject = v.q[k].subject, k # "chat" => r.world = w, NEW ok \in BOOLEAN,
           NEW u, u = Taken(v, r, ok)
    PROVE  Result(v, u, g, w)
  <1>1. Moves(v, u, {k}, g, w) /\ ~u.q[k].loading
    BY MovesTaken
  <1>2. {k} \in SUBSET Queries /\ \A j \in {"clock", "stats"} \cap {k} : ~u.q[j].loading
    BY <1>1
  <1> QED BY <1>1, <1>2, MovesResult

\* A move of queries that say they are loading.
LEMMA LoudResult ==
    ASSUME NEW g, NEW w, NEW t, NEW u, NEW K \in SUBSET (Queries \ {"clock", "stats"}), AllServed(t, K, g),
           Moves(t, u, K, g, w), Calm(t)
    PROVE  Result(t, u, g, w)
  <1>1. K \in SUBSET Queries /\ \A j \in {"clock", "stats"} \cap K : ~u.q[j].loading
    OBVIOUS
  <1> QED BY <1>1, MovesResult

\* The state.
Current(t) == t = State

\* Whatever apply_event makes of an answer, everything stays served and nothing
\* stale is shown: one case for each query.
LEMMA OutcomeResult ==
    ASSUME NEW g \in Nat, NEW w \in World, Here(g, w), NEW t, Current(t), Good(t, g, w), NEW r \in t.reqs,
           NEW v, v = Arrived(t, r), NEW ok \in BOOLEAN, NEW u, u \in Outcomes(v, r, ok)
    PROVE  Result(v, u, g, w)
  <1>1. /\ Sound(v, g, w) /\ Calm(v) /\ v.q = t.q /\ r \in ReqRec /\ r.query \in Queries
        /\ AllServed(v, {r.query}, g)
        /\ Lapsed(t, r, g) => AllServed(v, {}, g)
    BY DroppedFacts
  <1>2. PICK k \in Queries : k = r.query
    BY <1>1
  <1>3. t.q = q
    BY DEF State, Current
  <1>4. Expected(r) <=> r.seq = v.q[k].seq /\ r.subject = v.q[k].subject
    BY <1>1, <1>2, <1>3 DEF Expected
  <1>5. OfThisGeneration(r) => r.world = w
    BY DEF OfThisGeneration, Here, Good, Sound, ReqsGood
  <1>6. ASSUME AllServed(v, {}, g), u = v PROVE Result(v, u, g, w)
    BY <1>1, <1>6, StayResult
  <1>7. ASSUME Expected(r), OfThisGeneration(r) \/ k = "chat", NEW z, z = Taken(v, r, ok) PROVE Result(v, z, g, w)
    <2>1. r.subject = v.q[k].subject /\ (k # "chat" => r.world = w) /\ AllServed(v, {k}, g)
      BY <1>1, <1>2, <1>4, <1>5, <1>7
    <2> QED BY <1>1, <1>2, <1>7, <2>1, TakenResult
  <1>8. ~Expected(r) => AllServed(v, {}, g)
    BY <1>1, <1>2, <1>4 DEF Lapsed
  <1>9. CASE k \in {"clock", "stats", "pool", "dest"}
    <2>1. u \in (IF Expected(r) /\ OfThisGeneration(r) THEN {Taken(v, r, ok)} ELSE {v})
      BY <1>2, <1>9 DEF Outcomes
    <2>2. CASE Expected(r) /\ OfThisGeneration(r)
      BY <2>1, <2>2, <1>7
    <2>3. CASE ~(Expected(r) /\ OfThisGeneration(r))
      <3>1. u = v
        BY <2>1, <2>3
      <3>2. AllServed(v, {}, g)
        BY <1>1, <1>2, <1>8, <1>9, <2>3 DEF OfThisGeneration, Here, Lapsed
      <3> QED BY <3>1, <3>2, <1>6
    <2> QED BY <2>2, <2>3
  <1>10. CASE k = "chat"
    <2>1. u \in (IF Expected(r) THEN {Taken(v, r, ok)} ELSE {v})
      BY <1>2, <1>10 DEF Outcomes
    <2> QED BY <2>1, <1>6, <1>7, <1>8, <1>10
  <1>11. CASE k = "storage"
    <2>1. u \in (IF Expected(r) /\ OfThisGeneration(r) THEN {Taken(v, r, ok)}
                 ELSE IF r.seq = v.q["storage"].seq THEN {Abandoned(v)} ELSE {v})
      BY <1>2, <1>11 DEF Outcomes
    <2>2. CASE Expected(r) /\ OfThisGeneration(r)
      BY <2>1, <2>2, <1>7
    <2>3. CASE ~(Expected(r) /\ OfThisGeneration(r)) /\ r.seq = v.q["storage"].seq
      <3>1. u = Abandoned(v)
        BY <2>1, <2>3
      <3>2. Moves(v, u, {"storage"}, g, w)
        BY <3>1, <1>1, MovesAbandoned
      <3>3. {"storage"} \in SUBSET (Queries \ {"clock", "stats"}) /\ AllServed(v, {"storage"}, g)
        BY <1>1, <1>2, <1>11, QueryNames
      <3> QED BY <3>2, <3>3, <1>1, LoudResult
    <2>4. CASE ~(Expected(r) /\ OfThisGeneration(r)) /\ r.seq # v.q["storage"].seq
      BY <2>1, <2>4, <1>4, <1>6, <1>8, <1>11
    <2> QED BY <2>2, <2>3, <2>4
  <1>12. CASE k \in {"account", "txs"}
    <2>1. u \in (IF ~Expected(r) THEN {v}
                 ELSE IF ~OfThisGeneration(r) THEN {Inspected(v, r.subject, g, w)}
                 ELSE IF k = "txs" THEN {Jumped(Taken(v, r, ok))}
                 ELSE {Taken(v, r, ok)})
      BY <1>2, <1>12 DEF Outcomes, Here
    <2>2. CASE ~Expected(r)
      BY <2>1, <2>2, <1>6, <1>8
    <2>3. CASE Expected(r) /\ ~OfThisGeneration(r)
      <3>1. PICK a \in Named : a = r.subject
        BY <1>1, Zenon DEF ReqRec
      <3>2. u = Inspected(v, a, g, w)
        BY <2>1, <2>3, <3>1
      <3>3. Moves(v, u, {"trace", "account", "txs"}, g, w)
        BY <3>2, <1>1, MovesInspected
      <3>4. {"trace", "account", "txs"} \in SUBSET (Queries \ {"clock", "stats"}) /\ k \in {"trace", "account", "txs"}
        BY <1>12, QueryNames
      <3>5. AllServed(v, {"trace", "account", "txs"}, g)
        BY <3>4, <1>1, <1>2, ServedLess
      <3> QED BY <3>3, <3>4, <3>5, <1>1, LoudResult
    <2>4. CASE Expected(r) /\ OfThisGeneration(r) /\ k # "txs"
      BY <2>1, <2>4, <1>7
    <2>5. CASE Expected(r) /\ OfThisGeneration(r) /\ k = "txs"
      <3>1. PICK z : z = Taken(v, r, ok)
        OBVIOUS
      <3>2. u = Jumped(z)
        BY <2>1, <2>5, <3>1
      <3>3. Result(v, z, g, w)
        BY <2>5, <3>1, <1>7
      <3>4. Sound(z, g, w) /\ AllServed(z, {}, g) /\ Calm(z)
        BY <3>3 DEF Result
      <3>5. u = z \/ Moves(z, u, {"trace"}, g, w)
        BY <3>2, <3>4, MovesJumped
      <3>6. CASE u = z
        BY <3>3, <3>6
      <3>7. CASE Moves(z, u, {"trace"}, g, w)
        <4>1. r.subject = v.q[k].subject /\ (k # "chat" => r.world = w)
          BY <1>4, <1>5, <2>5
        <4>2. Moves(v, z, {k}, g, w)
          BY <3>1, <4>1, <1>1, <1>2, MovesTaken
        <4>3. {k} \in SUBSET Queries /\ {"trace"} \in SUBSET Queries /\ {k} \cap {"trace"} = {} /\ v \in LateForm
          BY <2>5, <1>1, QueryNames DEF Sound
        <4>4. Moves(v, u, {k} \cup {"trace"}, g, w)
          BY <3>7, <4>2, <4>3, MovesThen
        <4>5. {k} \cup {"trace"} \in SUBSET (Queries \ {"clock", "stats"}) /\ k \in {k} \cup {"trace"}
          BY <2>5, QueryNames
        <4>6. AllServed(v, {k} \cup {"trace"}, g)
          BY <4>5, <1>1, <1>2, ServedLess
        <4> QED BY <4>4, <4>5, <4>6, <1>1, LoudResult
      <3> QED BY <3>5, <3>6, <3>7
    <2> QED BY <2>2, <2>3, <2>4, <2>5
  <1>13. CASE k = "trace"
    <2>1. u \in (IF ~Expected(r) THEN {v}
                 ELSE IF ~OfThisGeneration(r) THEN {Traced(v, r.subject, g, w)}
                 ELSE Traces(Taken(v, r, ok), r, ok))
      BY <1>2, <1>13 DEF Outcomes, Here
    <2>2. CASE ~Expected(r)
      BY <2>1, <2>2, <1>6, <1>8
    <2>3. CASE Expected(r) /\ ~OfThisGeneration(r)
      <3>1. PICK h \in Named : h = r.subject
        BY <1>1, Zenon DEF ReqRec
      <3>2. u = Traced(v, h, g, w)
        BY <2>1, <2>3, <3>1
      <3>3. Moves(v, u, {"trace"}, g, w)
        BY <3>2, <1>1, MovesTraced
      <3>4. {"trace"} \in SUBSET (Queries \ {"clock", "stats"}) /\ AllServed(v, {"trace"}, g)
        BY <1>1, <1>2, <1>13, QueryNames
      <3> QED BY <3>3, <3>4, <1>1, LoudResult
    <2>4. CASE Expected(r) /\ OfThisGeneration(r)
      <3>1. PICK z : z = Taken(v, r, ok)
        OBVIOUS
      <3>2. u \in Traces(z, r, ok)
        BY <2>1, <2>4, <3>1
      <3>3. Result(v, z, g, w)
        BY <2>4, <3>1, <1>7
      <3>4. Sound(z, g, w)
        BY <3>3 DEF Result
      <3>5. r.subject = v.q[k].subject /\ r.world = w
        BY <1>4, <1>5, <2>4
      <3>6. Moves(z, u, {}, g, w)
        BY <3>2, <3>4, <3>5, <1>1, MovesRemembered
      <3>7. Moves(v, z, {k}, g, w)
        BY <3>1, <3>5, <1>1, <1>2, MovesTaken
      <3>8. {k} \in SUBSET Queries /\ {} \in SUBSET Queries /\ {k} \cap {} = {} /\ v \in LateForm /\ {k} \cup {} = {k}
        BY <1>1 DEF Sound
      <3>9. Moves(v, u, {k} \cup {}, g, w)
        BY <3>6, <3>7, <3>8, MovesThen
      <3>10. Moves(v, u, {k}, g, w)
        BY <3>8, <3>9
      <3>11. {k} \in SUBSET (Queries \ {"clock", "stats"}) /\ AllServed(v, {k}, g)
        BY <1>1, <1>2, <1>13
      <3> QED BY <3>10, <3>11, <1>1, LoudResult
    <2> QED BY <2>2, <2>3, <2>4
  <1>14. Result(v, u, g, w)
    BY <1>9, <1>10, <1>11, <1>12, <1>13, QueryNames
  <1> QED BY <1>1, <1>14

-----------------------------------------------------------------------------
(* LateAnswers: the steps.                                                 *)

\* The inductive invariant of the pages, and what every step keeps.
LateIInv ==
    /\ active \in Groups /\ world \in World /\ gen \in 0..MaxGen /\ tab \in BOOLEAN
    /\ Good(State, gen, world)
LateKept == Good(State', gen', world') /\ AllShow(State, State', world')

\* The state is the record of its pieces.
LEMMA FormIs ==
    ASSUME NEW e \in LateForm
    PROVE  e = [q |-> e.q, reqs |-> e.reqs, cache |-> e.cache, jump |-> e.jump]
  BY DEF LateForm

\* What a step sets is the next state.
LEMMA SetState ==
    ASSUME NEW e \in LateForm, Set(e)
    PROVE  State' = e
  BY FormIs DEF Set, State

\* The steps that leave the subscription and the world alone.
LEMMA KeptBy ==
    ASSUME NEW g \in Nat, NEW w \in World, gen = g, world = w, gen' = gen, world' = world,
           NEW t, t = State, NEW u, Set(u), Good(u, g, w), AllShow(t, u, w)
    PROVE  LateKept
  <1>1. u \in LateForm
    BY DEF Good, Sound
  <1>2. State' = u
    BY <1>1, SetState
  <1> QED BY <1>2 DEF LateKept

\* A move keeps the invariant.
LEMMA GoodByMove ==
    ASSUME NEW g \in Nat, NEW w \in World, NEW t, Good(t, g, w), NEW K \in SUBSET Queries, CanAsk(t, K), NEW u,
           Moves(t, u, K, g, w), \A k \in {"clock", "stats"} \cap K : ~u.q[k].loading
    PROVE  Good(u, g, w) /\ AllShow(t, u, w)
  <1>1. t \in LateForm /\ Calm(t) /\ Bounded(t) /\ AllServed(t, K, g)
    BY DEF Good, Sound, AllServed
  <1>2. Bounded(u)
    BY <1>1, MovesBounded
  <1>3. Result(t, u, g, w)
    BY <1>1, MovesResult
  <1> QED BY <1>2, <1>3 DEF Good, Result

\* A step that is a move keeps it.
LEMMA KeptByMove ==
    ASSUME LateIInv, NEW K \in SUBSET Queries, CanAsk(State, K), UNCHANGED <<gen, world>>,
           NEW g \in Nat, g = gen, NEW w \in World, w = world, NEW t, t = State, NEW u, Set(u),
           Moves(t, u, K, g, w), \A k \in {"clock", "stats"} \cap K : ~u.q[k].loading
    PROVE  LateKept
  <1>1. Good(t, g, w) /\ CanAsk(t, K)
    BY DEF LateIInv
  <1>2. Good(u, g, w) /\ AllShow(t, u, w)
    BY <1>1, GoodByMove
  <1>3. u \in LateForm
    BY <1>2 DEF Good, Sound
  <1>4. State' = u
    BY <1>3, SetState
  <1>5. gen' = g /\ world' = w
    OBVIOUS
  <1> QED BY <1>2, <1>4, <1>5 DEF LateKept

\* The invariant at the current state.
LEMMA Constants ==
    ASSUME LateIInv
    PROVE  gen \in Nat /\ world \in World /\ Good(State, gen, world) /\ Sound(State, gen, world)
  BY LateConstants DEF LateIInv, Good

\* The clock and the statistics are asked for and never say so.
LEMMA RefreshStep ==
    ASSUME LateIInv, NEW k, Refresh(k)
    PROVE  LateKept
  <1>1. k \in {"clock", "stats"} /\ k \in Queries /\ CanAsk(State, {k}) /\ UNCHANGED <<gen, world>>
    BY QueryNames DEF Refresh, Asks
  <1>2. PICK g \in Nat : g = gen
    BY Constants
  <1>3. PICK w \in World : w = world
    BY Constants
  <1>4. PICK t : t = State
    OBVIOUS
  <1>5. Sound(t, g, w)
    BY <1>2, <1>3, <1>4, Constants
  <1>6. PICK v : v = Ask(t, k, None, g, w)
    OBVIOUS
  <1>7. Moves(t, v, {k}, g, w)
    BY <1>1, <1>5, <1>6, NoneNamed, MovesAsk
  <1>8. t \in LateForm
    BY <1>5 DEF Sound
  <1>9. v \in LateForm /\ v.q[k].shown = t.q[k].shown /\ v.q[k].seq = t.q[k].seq + 1
    BY <1>1, <1>6, <1>8, NoneNamed, AskFacts
  <1>10. PICK y \in QueryRec : y = v.q[k]
    BY <1>1, <1>9, LatePieces
  <1>11. PICK x : x = [y EXCEPT !.loading = FALSE]
    OBVIOUS
  <1>12. x \in QueryRec /\ ~x.loading /\ x.shown = y.shown /\ x.seq = y.seq
    BY <1>11, Zenon DEF QueryRec
  <1>13. PICK u : u = Put(v, k, x)
    OBVIOUS
  <1>14. /\ u \in LateForm /\ u.reqs = v.reqs /\ u.cache = v.cache
         /\ u.q[k] = x /\ \A j \in Queries \ {k} : u.q[j] = v.q[j]
    <2>1. k \in Queries
      BY <1>1
    <2>2. v \in LateForm
      BY <1>9
    <2>3. x \in QueryRec
      BY <1>12
    <2> QED BY <1>13, <2>1, <2>2, <2>3, PutFacts
  <1>15. Sound(v, g, w)
    BY <1>7 DEF Moves
  <1>16. CacheGood(u.cache, w) /\ v.q[k].seq \in Nat /\ t.q[k].seq \in Nat
    BY <1>1, <1>8, <1>9, <1>14, <1>15, LatePieces DEF Sound
  <1>17. u.q[k].seq = v.q[k].seq /\ u.q[k].shown = v.q[k].shown /\ ~u.q[k].loading
    BY <1>10, <1>12, <1>14
  <1>18. u.q[k].seq >= v.q[k].seq /\ u.q[k].seq <= v.q[k].seq + 1 /\ u.q[k].seq <= t.q[k].seq + 1
    BY <1>9, <1>16, <1>17
  <1>19. Shows(v, u, k, w) /\ Shows(t, u, k, w)
    BY <1>9, <1>17 DEF Shows
  <1>20. Moves(v, u, {k}, g, w)
    BY <1>1, <1>14, <1>15, <1>16, <1>17, <1>18, <1>19, MovesQuiet
  <1>21. Moves(t, u, {k}, g, w)
    BY <1>1, <1>7, <1>18, <1>19, <1>20, MovesOver
  <1>22. Set(u)
    BY <1>2, <1>3, <1>4, <1>6, <1>10, <1>11, <1>13 DEF Refresh
  <1>23. {k} \in SUBSET Queries /\ \A j \in {"clock", "stats"} \cap {k} : ~u.q[j].loading
    BY <1>1, <1>17
  <1> QED BY <1>1, <1>2, <1>3, <1>4, <1>21, <1>22, <1>23, KeptByMove

\* An account is opened, with or without a pending trace.
LEMMA InspectStep ==
    ASSUME LateIInv, NEW a \in Subjects, NEW h \in Subjects, InspectAccount(a) \/ OpenInExplorer(a, h)
    PROVE  LateKept
  <1>1. CanAsk(State, {"trace", "account", "txs"}) /\ UNCHANGED <<gen, world>>
    BY DEF InspectAccount, OpenInExplorer, Asks, CanAsk
  <1>2. PICK g \in Nat : g = gen
    BY Constants
  <1>3. PICK w \in World : w = world
    BY Constants
  <1>4. PICK t : t = State
    OBVIOUS
  <1>5. Sound(t, g, w)
    BY <1>2, <1>3, <1>4, Constants
  <1>6. PICK v : v = Inspected(t, a, g, w)
    OBVIOUS
  <1>7. a \in Named /\ h \in Named
    BY DEF Named
  <1>8. Moves(t, v, {"trace", "account", "txs"}, g, w)
    BY <1>5, <1>6, <1>7, MovesInspected
  <1>9. {"trace", "account", "txs"} \in SUBSET Queries /\ {"clock", "stats"} \cap {"trace", "account", "txs"} = {}
    BY QueryNames
  <1>10. CASE InspectAccount(a)
    <2>1. Set(v)
      BY <1>2, <1>3, <1>4, <1>6, <1>10 DEF InspectAccount
    <2> QED BY <1>1, <1>2, <1>3, <1>4, <1>8, <1>9, <2>1, KeptByMove
  <1>11. CASE OpenInExplorer(a, h)
    <2>1. PICK u : u = [v EXCEPT !.jump = h]
      OBVIOUS
    <2>2. Set(u)
      BY <1>2, <1>3, <1>4, <1>6, <1>11, <2>1 DEF OpenInExplorer
    <2>3. Moves(t, u, {"trace", "account", "txs"}, g, w)
      BY <1>7, <1>8, <2>1, MovesJumpSet
    <2> QED BY <1>1, <1>2, <1>3, <1>4, <1>9, <2>2, <2>3, KeptByMove
  <1> QED BY <1>10, <1>11

\* A step that asks, or closes, one of the queries that say they are loading.
LEMMA KeptByOne ==
    ASSUME LateIInv, NEW k \in Queries \ {"clock", "stats"}, CanAsk(State, {k}), UNCHANGED <<gen, world>>,
           NEW u, Set(u), Moves(State, u, {k}, gen, world)
    PROVE  LateKept
  <1>1. gen \in Nat /\ world \in World
    BY Constants
  <1>2. {k} \in SUBSET Queries /\ {"clock", "stats"} \cap {k} = {}
    OBVIOUS
  <1>3. PICK g \in Nat : g = gen
    BY <1>1
  <1>4. PICK w \in World : w = world
    BY <1>1
  <1>5. PICK t : t = State
    OBVIOUS
  <1>6. Moves(t, u, {k}, g, w)
    BY <1>3, <1>4, <1>5
  <1> QED BY <1>2, <1>3, <1>4, <1>5, <1>6, KeptByMove

\* The four ways to move a single query.
LEMMA OneStep ==
    ASSUME LateIInv, NEW k \in Queries \ {"clock", "stats"}, CanAsk(State, {k}), UNCHANGED <<gen, world>>, NEW a \in Named,
           \/ Set(Ask(State, k, a, gen, world)) \/ Set(Anew(State, k, a, gen, world)) \/ Set(ClosedView(State, k))
           \/ Set(Traced(State, a, gen, world)) /\ k = "trace"
    PROVE  LateKept
  <1>2. PICK g \in Nat : g = gen
    BY Constants
  <1>3. PICK w \in World : w = world
    BY Constants
  <1>4. PICK t : t = State
    OBVIOUS
  <1>5. Sound(t, g, w)
    BY <1>2, <1>3, <1>4, Constants
  <1>6. ASSUME NEW u, Set(u), Moves(t, u, {k}, g, w) PROVE LateKept
    <2>1. Moves(State, u, {k}, gen, world)
      BY <1>2, <1>3, <1>4, <1>6
    <2> QED BY <2>1, <1>6, KeptByOne
  <1>7. CASE Set(Ask(State, k, a, gen, world))
    <2>1. PICK u : u = Ask(t, k, a, g, w)
      OBVIOUS
    <2>2. Set(u)
      BY <1>2, <1>3, <1>4, <1>7, <2>1
    <2>3. Moves(t, u, {k}, g, w)
      BY <1>5, <2>1, MovesAsk
    <2> QED BY <2>2, <2>3, <1>6
  <1>8. CASE Set(Anew(State, k, a, gen, world))
    <2>1. PICK u : u = Anew(t, k, a, g, w)
      OBVIOUS
    <2>2. Set(u)
      BY <1>2, <1>3, <1>4, <1>8, <2>1
    <2>3. Moves(t, u, {k}, g, w)
      BY <1>5, <2>1, MovesAnew
    <2> QED BY <2>2, <2>3, <1>6
  <1>9. CASE Set(ClosedView(State, k))
    <2>1. PICK u : u = ClosedView(t, k)
      OBVIOUS
    <2>2. Set(u)
      BY <1>4, <1>9, <2>1
    <2>3. Moves(t, u, {k}, g, w)
      BY <1>5, <2>1, MovesClosed
    <2> QED BY <2>2, <2>3, <1>6
  <1>10. CASE Set(Traced(State, a, gen, world)) /\ k = "trace"
    <2>1. PICK u : u = Traced(t, a, g, w)
      OBVIOUS
    <2>2. Set(u)
      BY <1>2, <1>3, <1>4, <1>10, <2>1
    <2>3. Moves(t, u, {k}, g, w)
      BY <1>5, <1>10, <2>1, MovesTraced
    <2> QED BY <2>2, <2>3, <1>6
  <1> QED BY <1>7, <1>8, <1>9, <1>10

\* A step that leaves the pages alone.
LEMMA StayStep ==
    ASSUME LateIInv, UNCHANGED <<gen, world>>, UNCHANGED <<q, reqs, cache, jump>>
    PROVE  LateKept
  <1>1. State' = State
    BY DEF State
  <1>2. AllShow(State, State, world)
    BY DEF AllShow, Shows
  <1>3. Good(State, gen, world)
    BY Constants
  <1> QED BY <1>1, <1>2, <1>3 DEF LateKept

\* The steps that ask or close one query.
LEMMA AskingStep ==
    ASSUME LateIInv,
           \/ \E a \in Subjects : TraceTransaction(a) \/ OpenChat(a)
           \/ CloseTrace \/ CloseChat
           \/ RefreshPool \/ RefreshStorage \/ CheckDestination
    PROVE  LateKept
  <1>0. /\ "trace" \in Queries \ {"clock", "stats"} /\ "chat" \in Queries \ {"clock", "stats"}
        /\ "pool" \in Queries \ {"clock", "stats"} /\ "storage" \in Queries \ {"clock", "stats"}
        /\ "dest" \in Queries \ {"clock", "stats"}
    BY QueryNames
  <1>1. Subjects \subseteq Named /\ None \in Named
    BY DEF Named
  <1>2. ASSUME NEW a \in Subjects, TraceTransaction(a) PROVE LateKept
    BY <1>0, <1>1, <1>2, OneStep DEF TraceTransaction, Asks
  <1>3. ASSUME NEW a \in Subjects, OpenChat(a) PROVE LateKept
    BY <1>0, <1>1, <1>3, OneStep DEF OpenChat, Asks
  <1>4. CASE CloseTrace
    BY <1>0, <1>1, <1>4, OneStep DEF CloseTrace, Asks
  <1>5. CASE CloseChat
    BY <1>0, <1>1, <1>5, OneStep DEF CloseChat, Asks
  <1>6. CASE RefreshPool
    BY <1>0, <1>1, <1>6, OneStep DEF RefreshPool, Asks
  <1>7. CASE RefreshStorage
    BY <1>0, <1>1, <1>7, OneStep DEF RefreshStorage, AskedStorage, Asks
  <1>8. CASE CheckDestination
    <2>1. State \in LateForm /\ State.q = q
      BY Constants DEF Sound, State
    <2>2. q["dest"].subject \in Named
      BY <2>1, <1>0, LatePieces
    <2> QED BY <1>0, <1>8, <2>2, OneStep DEF CheckDestination, Asks
  <1> QED BY <1>2, <1>3, <1>4, <1>5, <1>6, <1>7, <1>8

\* The storage page is opened or left.
LEMMA TabStep ==
    ASSUME LateIInv, OpenStorageTab \/ LeaveStorageTab
    PROVE  LateKept
  <1>0. "storage" \in Queries \ {"clock", "stats"} /\ None \in Named
    BY QueryNames, NoneNamed
  <1>1. CASE LeaveStorageTab
    BY <1>1, StayStep DEF LeaveStorageTab
  <1>2. CASE OpenStorageTab
    <2>1. UNCHANGED <<gen, world>> /\ CanAsk(State, {"storage"})
      BY <1>2 DEF OpenStorageTab, Asks
    <2>2. CASE Set(State)
      <3>1. UNCHANGED <<q, reqs, cache, jump>>
        BY <2>2 DEF Set, State
      <3> QED BY <2>1, <3>1, StayStep
    <2>3. CASE Set(AskedStorage(State, gen, world))
      <3>1. Set(Ask(State, "storage", None, gen, world))
        BY <2>3 DEF AskedStorage
      <3> QED BY <2>1, <3>1, <1>0, OneStep
    <2> QED BY <1>2, <2>2, <2>3 DEF OpenStorageTab
  <1> QED BY <1>1, <1>2

\* Another recipient.
LEMMA SetDestinationStep ==
    ASSUME LateIInv, NEW d \in Subjects, SetDestination(d)
    PROVE  LateKept
  <1>0. "dest" \in Queries \ {"clock", "stats"} /\ d \in Named
    BY QueryNames DEF Named
  <1>1. UNCHANGED <<gen, world>>
    BY DEF SetDestination
  <1>2. PICK g \in Nat : g = gen
    BY Constants
  <1>3. PICK w \in World : w = world
    BY Constants
  <1>4. PICK t : t = State
    OBVIOUS
  <1>5. Good(t, g, w) /\ Sound(t, g, w)
    BY <1>2, <1>3, <1>4, Constants
  <1>6. t \in LateForm /\ CacheGood(t.cache, w)
    BY <1>5 DEF Sound
  <1>7. PICK v : v = Idle(t, "dest")
    OBVIOUS
  <1>8. /\ v \in LateForm /\ v.reqs = t.reqs /\ v.cache = t.cache
        /\ ~v.q["dest"].loading /\ v.q["dest"].shown = NothingShown /\ v.q["dest"].seq = t.q["dest"].seq
        /\ \A j \in Queries \ {"dest"} : v.q[j] = t.q[j]
    BY <1>0, <1>6, <1>7, IdleFacts
  <1>9. PICK y \in QueryRec : y = v.q["dest"]
    BY <1>0, <1>8, LatePieces
  <1>10. PICK x : x = [y EXCEPT !.subject = d]
    OBVIOUS
  <1>11. x \in QueryRec /\ x.loading = y.loading /\ x.shown = y.shown /\ x.seq = y.seq
    BY <1>0, <1>10, Zenon DEF QueryRec
  <1>12. PICK u : u = Put(v, "dest", x)
    OBVIOUS
  <1>13. /\ u \in LateForm /\ u.reqs = v.reqs /\ u.cache = v.cache
         /\ u.q["dest"] = x /\ \A j \in Queries \ {"dest"} : u.q[j] = v.q[j]
    BY <1>0, <1>8, <1>11, <1>12, PutFacts
  <1>14. /\ ~u.q["dest"].loading /\ u.q["dest"].shown = NothingShown /\ u.q["dest"].seq = t.q["dest"].seq
         /\ \A j \in Queries \ {"dest"} : u.q[j] = t.q[j]
    BY <1>8, <1>9, <1>11, <1>13
  <1>15. u.q["dest"].seq >= t.q["dest"].seq /\ u.q["dest"].seq <= t.q["dest"].seq + 1
    BY <1>0, <1>6, <1>14, LatePieces
  <1>16. Shows(t, u, "dest", w) /\ CacheGood(u.cache, w) /\ u.reqs = t.reqs
    BY <1>6, <1>8, <1>13, <1>14 DEF Shows, Own
  <1>17. Moves(t, u, {"dest"}, g, w)
    BY <1>0, <1>5, <1>13, <1>14, <1>15, <1>16, MovesQuiet
  <1>18. Calm(t) /\ Bounded(t) /\ AllServed(t, {"dest"}, g)
    BY <1>5 DEF Good, AllServed
  <1>19. {"dest"} \in SUBSET (Queries \ {"clock", "stats"})
    BY <1>0
  <1>20. Result(t, u, g, w)
    BY <1>17, <1>18, <1>19, LoudResult
  <1>21. \A k \in Queries : u.q[k].seq = t.q[k].seq
    BY <1>14
  <1>22. Bounded(u)
    BY <1>18, <1>21 DEF Bounded
  <1>23. Good(u, g, w) /\ AllShow(t, u, w)
    BY <1>20, <1>22 DEF Good, Result
  <1>24. Set(u)
    BY <1>4, <1>7, <1>9, <1>10, <1>12 DEF SetDestination
  <1>25. State' = u
    BY <1>13, <1>24, SetState
  <1> QED BY <1>1, <1>2, <1>3, <1>4, <1>23, <1>25 DEF LateKept

\* An answer arrives.
LEMMA AnswerStep ==
    ASSUME LateIInv, NEW r \in reqs, NEW ok \in BOOLEAN, Answer(r, ok)
    PROVE  LateKept
  <1>1. UNCHANGED <<gen, world>>
    BY DEF Answer
  <1>2. PICK g \in Nat : g = gen
    BY Constants
  <1>3. PICK w \in World : w = world
    BY Constants
  <1>4. PICK t : t = State
    OBVIOUS
  <1>5. Good(t, g, w)
    BY <1>2, <1>3, <1>4, Constants
  <1>6. r \in t.reqs /\ Here(g, w) /\ Current(t)
    BY <1>2, <1>3, <1>4 DEF Here, Current, State
  <1>7. PICK u \in Outcomes(Arrived(State, r), r, ok) : (\A k \in Queries : u.q[k].seq <= MaxAsked) /\ Set(u)
    BY DEF Answer
  <1>8. PICK v : v = Arrived(t, r)
    OBVIOUS
  <1>9. u \in Outcomes(v, r, ok)
    BY <1>4, <1>7, <1>8
  <1>10. Result(v, u, g, w)
    BY <1>5, <1>6, <1>8, <1>9, OutcomeResult
  <1>11. v.q = t.q
    BY <1>5, <1>8, AnsweredForm DEF Good, Sound
  <1>12. Bounded(u)
    BY <1>7 DEF Bounded
  <1>13. Good(u, g, w) /\ AllShow(v, u, w)
    BY <1>10, <1>12 DEF Good, Result
  <1>14. AllShow(t, u, w)
    BY <1>11, <1>13 DEF AllShow, Shows
  <1>15. u \in LateForm
    BY <1>13 DEF Good, Sound
  <1>16. State' = u
    BY <1>7, <1>15, SetState
  <1> QED BY <1>1, <1>2, <1>3, <1>4, <1>13, <1>14, <1>16 DEF LateKept

\* From t to u the queries only lose what they had.
Lesser(t, u) ==
    /\ u \in LateForm /\ u.reqs = t.reqs
    /\ \A k \in Queries : /\ u.q[k].seq = t.q[k].seq
                          /\ u.q[k].loading => t.q[k].loading /\ u.q[k].subject = t.q[k].subject
                          /\ u.q[k].shown \in {t.q[k].shown, NothingShown}

\* Less, and less again.
LEMMA LesserThen ==
    ASSUME NEW t, NEW v, NEW u, Lesser(t, v), Lesser(v, u)
    PROVE  Lesser(t, u)
  <1>1. ASSUME NEW k \in Queries
        PROVE  /\ u.q[k].seq = t.q[k].seq
               /\ u.q[k].loading => t.q[k].loading /\ u.q[k].subject = t.q[k].subject
               /\ u.q[k].shown \in {t.q[k].shown, NothingShown}
    <2>1. /\ v.q[k].seq = t.q[k].seq
          /\ v.q[k].loading => t.q[k].loading /\ v.q[k].subject = t.q[k].subject
          /\ v.q[k].shown \in {t.q[k].shown, NothingShown}
      BY DEF Lesser
    <2>2. /\ u.q[k].seq = v.q[k].seq
          /\ u.q[k].loading => v.q[k].loading /\ u.q[k].subject = v.q[k].subject
          /\ u.q[k].shown \in {v.q[k].shown, NothingShown}
      BY DEF Lesser
    <2> QED BY <2>1, <2>2
  <1>2. u \in LateForm /\ u.reqs = t.reqs
    BY DEF Lesser
  <1> QED BY <1>1, <1>2 DEF Lesser

\* A query that is cleared, or switched off.
LEMMA LesserIdle ==
    ASSUME NEW t \in LateForm, NEW k \in Queries, NEW u, u = Idle(t, k) \/ u = Off(t, k)
    PROVE  Lesser(t, u) /\ ~u.q[k].loading /\ u.cache = t.cache
  <1>1. /\ u \in LateForm /\ u.reqs = t.reqs /\ u.cache = t.cache
        /\ ~u.q[k].loading /\ u.q[k].shown = NothingShown /\ u.q[k].seq = t.q[k].seq
        /\ \A j \in Queries \ {k} : u.q[j] = t.q[j]
    <2>1. CASE u = Idle(t, k)
      BY <2>1, IdleFacts
    <2>2. CASE u = Off(t, k)
      BY <2>2, OffFacts
    <2> QED BY <2>1, <2>2
  <1>2. ASSUME NEW j \in Queries
        PROVE  /\ u.q[j].seq = t.q[j].seq
               /\ u.q[j].loading => t.q[j].loading /\ u.q[j].subject = t.q[j].subject
               /\ u.q[j].shown \in {t.q[j].shown, NothingShown}
    BY <1>1
  <1> QED BY <1>1, <1>2 DEF Lesser

\* The trace cache is emptied.
LEMMA LesserForget ==
    ASSUME NEW t, NEW v, Lesser(t, v), NEW u, u = [v EXCEPT !.cache = Forgotten(@)]
    PROVE  Lesser(t, u) /\ u.q = v.q /\ u.cache = <<>>
  <1>1. v \in LateForm
    BY DEF Lesser
  <1>2. PICK c : c = <<>>
    OBVIOUS
  <1>3. c \in Seq(Shown)
    BY <1>2
  <1>a. Forgotten(v.cache) = c
    BY <1>2 DEF Forgotten
  <1>4. u = [v EXCEPT !.cache = c]
    BY <1>a, Zenon
  <1>5. u \in LateForm /\ u.cache = c /\ u.q = v.q /\ u.reqs = v.reqs
    BY <1>1, <1>3, <1>4, Zenon DEF LateForm
  <1> QED BY <1>2, <1>5 DEF Lesser

\* The empty cache is well formed, for every endpoint.
LEMMA CacheEmpty == \A w : CacheGood(<<>>, w)
  BY LateConstants DEF CacheGood

\* A new generation: every request under way is of an earlier one, and what
\* says it is loading is served as before, the recipient check excepted.
LEMMA GoodRenewed ==
    ASSUME NEW g \in Nat, NEW w, NEW x, NEW t, Good(t, g, w), NEW u, Lesser(t, u), ~u.q["dest"].loading, CacheGood(u.cache, x)
    PROVE  Good(u, g + 1, x) /\ AllShow(t, u, x)
  <1>1. t \in LateForm /\ u \in LateForm /\ u.reqs = t.reqs /\ ReqsGood(t, g, w)
    BY DEF Good, Sound, Lesser
  <1>2. ASSUME NEW r \in u.reqs PROVE r.seq <= u.q[r.query].seq /\ r.gen <= g + 1 /\ (r.gen = g + 1 => r.world = x)
    <2>1. r.query \in Queries /\ r.gen \in Nat /\ r.gen <= g /\ r.seq <= t.q[r.query].seq
      BY <1>1, <1>2, LatePieces DEF ReqsGood
    <2>2. u.q[r.query].seq = t.q[r.query].seq
      BY <2>1 DEF Lesser
    <2> QED BY <2>1, <2>2
  <1>3. Sound(u, g + 1, x)
    BY <1>1, <1>2 DEF Sound, ReqsGood
  <1>4. Bounded(u)
    BY DEF Good, Bounded, Lesser
  <1>5. Calm(u)
    BY QueryNames DEF Good, Calm, Lesser
  <1>6. AllShow(t, u, x)
    BY DEF AllShow, Shows, Own, Lesser
  <1>7. ASSUME NEW k \in (Queries \ {}) \ {"pool"} PROVE Served(u, k, g + 1)
    <2>1. CASE k = "dest"
      BY <2>1 DEF Served
    <2>2. CASE k # "dest"
      <3>1. Served(t, k, g)
        BY <1>7 DEF Good, AllServed
      <3>2. SUFFICES ASSUME u.q[k].loading PROVE Served(u, k, g + 1)
        BY DEF Served
      <3>3. t.q[k].loading /\ u.q[k].subject = t.q[k].subject /\ u.q[k].seq = t.q[k].seq
        BY <1>7, <3>2 DEF Lesser
      <3>4. PICK n \in t.reqs : n.query = k /\ n.seq = t.q[k].seq /\ n.subject = t.q[k].subject
        BY <3>1, <3>3 DEF Served
      <3> QED BY <1>1, <2>2, <3>3, <3>4 DEF Served
    <2> QED BY <2>1, <2>2
  <1>8. AllServed(u, {}, g + 1)
    BY <1>7 DEF AllServed
  <1> QED BY <1>3, <1>4, <1>5, <1>6, <1>8 DEF Good

\* A new subscription.
LEMMA ResubscribeStep ==
    ASSUME LateIInv, Resubscribe
    PROVE  LateKept
  <1>0. "dest" \in Queries
    BY QueryNames
  <1>2. PICK g \in Nat : g = gen
    BY Constants
  <1>3. PICK w \in World : w = world
    BY Constants
  <1>4. PICK t : t = State
    OBVIOUS
  <1>5. Good(t, g, w)
    BY <1>2, <1>3, <1>4, Constants
  <1>6. PICK u : u = Unstranded(t)
    OBVIOUS
  <1>7. t \in LateForm /\ CacheGood(t.cache, w)
    BY <1>5 DEF Good, Sound
  <1>8. Lesser(t, u) /\ ~u.q["dest"].loading /\ u.cache = t.cache
    <2>1. CASE t.q["dest"].loading
      <3>1. u = Idle(t, "dest")
        BY <1>6, <2>1 DEF Unstranded
      <3> QED BY <1>0, <1>7, <3>1, LesserIdle
    <2>2. CASE ~t.q["dest"].loading
      <3>1. u = t
        BY <1>6, <2>2 DEF Unstranded
      <3> QED BY <1>7, <2>2, <3>1 DEF Lesser
    <2> QED BY <2>1, <2>2
  <1>9. CacheGood(u.cache, w)
    BY <1>7, <1>8
  <1>10. Good(u, g + 1, w) /\ AllShow(t, u, w)
    BY <1>5, <1>8, <1>9, GoodRenewed
  <1>11. Set(u)
    BY <1>4, <1>6 DEF Resubscribe
  <1>12. u \in LateForm
    BY <1>8 DEF Lesser
  <1>13. State' = u
    BY <1>11, <1>12, SetState
  <1>14. gen' = g + 1 /\ world' = w
    BY <1>2, <1>3 DEF Resubscribe, NewGeneration
  <1> QED BY <1>4, <1>10, <1>13, <1>14 DEF LateKept

\* Another endpoint.
LEMMA SelectEndpointStep ==
    ASSUME LateIInv, NEW e \in Endpoints, SelectEndpoint(e)
    PROVE  LateKept
  <1>0. "dest" \in Queries
    BY QueryNames
  <1>2. PICK g \in Nat : g = gen
    BY Constants
  <1>3. PICK w \in World : w = world
    BY Constants
  <1>4. PICK t : t = State
    OBVIOUS
  <1>5. Good(t, g, w)
    BY <1>2, <1>3, <1>4, Constants
  <1>6. PICK v : v = Idle(t, "dest")
    OBVIOUS
  <1>7. t \in LateForm
    BY <1>5 DEF Good, Sound
  <1>8. Lesser(t, v) /\ ~v.q["dest"].loading
    BY <1>0, <1>6, <1>7, LesserIdle
  <1>9. PICK u : u = [v EXCEPT !.cache = Forgotten(@)]
    OBVIOUS
  <1>10. Lesser(t, u) /\ u.q = v.q /\ u.cache = <<>>
    BY <1>8, <1>9, LesserForget
  <1>11. PICK x : x = world'
    OBVIOUS
  <1>12. CacheGood(u.cache, x) /\ ~u.q["dest"].loading
    BY <1>8, <1>10, CacheEmpty
  <1>13. Good(u, g + 1, x) /\ AllShow(t, u, x)
    BY <1>5, <1>10, <1>12, GoodRenewed
  <1>14. Set(u)
    BY <1>4, <1>6, <1>9 DEF SelectEndpoint
  <1>15. u \in LateForm
    BY <1>10 DEF Lesser
  <1>16. State' = u
    BY <1>14, <1>15, SetState
  <1>17. gen' = g + 1
    BY <1>2 DEF SelectEndpoint, NewGeneration
  <1> QED BY <1>4, <1>11, <1>13, <1>16, <1>17 DEF LateKept

\* Another wallet.
LEMMA OtherWalletStep ==
    ASSUME LateIInv, NEW e \in Endpoints, NEW i \in Identities, OtherWallet(e, i)
    PROVE  LateKept
  <1>0. "dest" \in Queries
    BY QueryNames
  <1>2. PICK g \in Nat : g = gen
    BY Constants
  <1>3. PICK w \in World : w = world
    BY Constants
  <1>4. PICK t : t = State
    OBVIOUS
  <1>5. Good(t, g, w)
    BY <1>2, <1>3, <1>4, Constants
  <1>6. t \in LateForm /\ t.q = q /\ t.reqs = reqs /\ t.jump = jump
    BY <1>4, <1>5 DEF Good, Sound, State
  <1>7. PICK u : u = State'
    OBVIOUS
  <1>8. /\ u.q = [k \in Queries |-> [t.q[k] EXCEPT !.loading = FALSE, !.subject = None, !.shown = NothingShown]]
        /\ u.reqs = t.reqs /\ u.cache = <<>> /\ u.jump = t.jump
        /\ u = [q |-> u.q, reqs |-> u.reqs, cache |-> u.cache, jump |-> u.jump]
    BY <1>6, <1>7 DEF OtherWallet, Set, State, Forgotten
  <1>9. ASSUME NEW k \in Queries
        PROVE  /\ u.q[k] \in QueryRec /\ u.q[k].seq = t.q[k].seq /\ ~u.q[k].loading /\ u.q[k].shown = NothingShown
    <2>1. PICK y \in QueryRec : y = t.q[k]
      BY <1>6, LatePieces
    <2>2. u.q[k] = [y EXCEPT !.loading = FALSE, !.subject = None, !.shown = NothingShown]
      BY <1>8, <2>1
    <2>3. u.q[k] \in QueryRec /\ u.q[k].seq = y.seq /\ ~u.q[k].loading /\ u.q[k].shown = NothingShown
      BY <2>2, Zenon DEF QueryRec, Named
    <2> QED BY <2>1, <2>3
  <1>10. PICK f : f = u.q
    OBVIOUS
  <1>11. f \in [Queries -> QueryRec]
    BY <1>8, <1>9, <1>10
  <1>12. u.reqs \in SUBSET ReqRec /\ u.cache \in Seq(Shown) /\ u.jump \in Named /\ u.q \in [Queries -> QueryRec]
    <2>1. t.reqs \in SUBSET ReqRec /\ t.jump \in Named
      BY <1>6, LatePieces
    <2>2. <<>> \in Seq(Shown)
      OBVIOUS
    <2>3. u.reqs = t.reqs /\ u.cache = <<>> /\ u.jump = t.jump
      BY <1>8
    <2> QED BY <1>10, <1>11, <2>1, <2>2, <2>3
  <1>13. u \in LateForm
    BY <1>8, <1>12, Zenon DEF LateForm
  <1>14. Lesser(t, u)
    BY <1>8, <1>9, <1>13 DEF Lesser
  <1>15. PICK x : x = world'
    OBVIOUS
  <1>16. CacheGood(u.cache, x) /\ ~u.q["dest"].loading
    BY <1>0, <1>8, <1>9, CacheEmpty
  <1>17. Good(u, g + 1, x) /\ AllShow(t, u, x)
    BY <1>5, <1>14, <1>16, GoodRenewed
  <1>18. gen' = g + 1
    BY <1>2 DEF OtherWallet, NewGeneration
  <1> QED BY <1>4, <1>7, <1>15, <1>17, <1>18 DEF LateKept

\* Another phrase, and its records if their page is open.
LEMMA ActivateSeedStep ==
    ASSUME LateIInv, NEW i \in Identities, ActivateSeed(i)
    PROVE  LateKept
  <1>0. "dest" \in Queries /\ "storage" \in Queries /\ "chat" \in Queries /\ "dest" # "storage" /\ "dest" # "chat"
    BY QueryNames
  <1>2. PICK g \in Nat : g = gen
    BY Constants
  <1>3. PICK w \in World : w = world
    BY Constants
  <1>4. PICK t : t = State
    OBVIOUS
  <1>5. Good(t, g, w) /\ CanAsk(t, {"storage"})
    BY <1>2, <1>3, <1>4, Constants DEF ActivateSeed
  <1>6. t \in LateForm
    BY <1>5 DEF Good, Sound
  <1>7. PICK a : a = Idle(t, "dest")
    OBVIOUS
  <1>8. PICK b : b = Off(a, "storage")
    OBVIOUS
  <1>9. PICK c : c = Off(b, "chat")
    OBVIOUS
  <1>10. Lesser(t, a) /\ ~a.q["dest"].loading /\ a \in LateForm
    BY <1>0, <1>6, <1>7, LesserIdle DEF Lesser
  <1>11. Lesser(a, b) /\ b \in LateForm
    BY <1>0, <1>8, <1>10, LesserIdle DEF Lesser
  <1>12. Lesser(b, c)
    BY <1>0, <1>9, <1>11, LesserIdle
  <1>13. Lesser(a, c)
    BY <1>11, <1>12, LesserThen
  <1>14. Lesser(t, c) /\ ~c.q["dest"].loading
    <2>1. Lesser(t, c)
      BY <1>10, <1>13, LesserThen
    <2>2. ~c.q["dest"].loading
      BY <1>0, <1>10, <1>13 DEF Lesser
    <2> QED BY <2>1, <2>2
  <1>15. PICK v : v = [c EXCEPT !.cache = Forgotten(@)]
    OBVIOUS
  <1>16. Lesser(t, v) /\ v.q = c.q /\ v.cache = <<>>
    BY <1>14, <1>15, LesserForget
  <1>17. PICK x : x = world'
    OBVIOUS
  <1>18. CacheGood(v.cache, x) /\ ~v.q["dest"].loading
    BY <1>14, <1>16, CacheEmpty
  <1>19. Good(v, g + 1, x) /\ AllShow(t, v, x)
    BY <1>5, <1>16, <1>18, GoodRenewed
  <1>20. gen' = g + 1
    BY <1>2 DEF ActivateSeed, NewGeneration
  <1>21. v \in LateForm
    BY <1>16 DEF Lesser
  <1>22. CASE Set(v)
    <2>1. State' = v
      BY <1>21, <1>22, SetState
    <2> QED BY <1>4, <1>17, <1>19, <1>20, <2>1 DEF LateKept
  <1>23. CASE Set(AskedStorage(v, gen', world'))
    <2>1. PICK n \in Nat : n = g + 1
      OBVIOUS
    <2>2. PICK u : u = Ask(v, "storage", None, n, x)
      OBVIOUS
    <2>3. Set(u)
      BY <1>17, <1>20, <1>23, <2>1, <2>2 DEF AskedStorage
    <2>4. x \in World
      BY <1>3, <1>17 DEF ActivateSeed, World
    <2>5. Good(v, n, x)
      BY <1>19, <2>1
    <2>6. Sound(v, n, x)
      BY <2>5 DEF Good
    <2>7. Moves(v, u, {"storage"}, n, x)
      BY <1>0, <2>2, <2>4, <2>6, NoneNamed, MovesAsk
    <2>8. v.q["storage"].seq = t.q["storage"].seq
      BY <1>0, <1>16 DEF Lesser
    <2>9. CanAsk(v, {"storage"})
      BY <1>5, <2>8 DEF CanAsk
    <2>10. {"storage"} \in SUBSET Queries /\ {"clock", "stats"} \cap {"storage"} = {}
      BY <1>0
    <2>11. Good(u, n, x) /\ AllShow(v, u, x)
      BY <2>4, <2>5, <2>7, <2>9, <2>10, GoodByMove
    <2>12. u.q["storage"].shown = v.q["storage"].shown /\ \A j \in Queries \ {"storage"} : u.q[j] = v.q[j]
      BY <1>0, <1>21, <2>2, <2>4, NoneNamed, AskFacts
    <2>13. \A k \in Queries : u.q[k].shown = v.q[k].shown
      BY <2>12
    <2>14. \A k \in Queries : u.q[k].shown \in {t.q[k].shown, NothingShown}
      BY <1>16, <2>13 DEF Lesser
    <2>15. AllShow(t, u, x)
      BY <2>14 DEF AllShow, Shows, Own
    <2>16. u \in LateForm
      BY <2>11 DEF Good, Sound
    <2>17. State' = u
      BY <2>3, <2>16, SetState
    <2> QED BY <1>4, <1>17, <1>20, <2>1, <2>11, <2>15, <2>17 DEF LateKept
  <1> QED BY <1>4, <1>7, <1>8, <1>9, <1>15, <1>22, <1>23 DEF ActivateSeed

\* Every step of the pages.
LEMMA LateStep ==
    ASSUME LateIInv, LateNext
    PROVE  LateKept
  <1>1. CASE Resubscribe
    BY <1>1, ResubscribeStep
  <1>2. CASE \E e \in Endpoints : SelectEndpoint(e)
    BY <1>2, SelectEndpointStep
  <1>3. CASE \E i \in Identities : ActivateSeed(i)
    BY <1>3, ActivateSeedStep
  <1>4. CASE \E i \in Identities, e \in Endpoints : OtherWallet(e, i)
    BY <1>4, OtherWalletStep
  <1>5. CASE \E k \in Queries : Refresh(k)
    BY <1>5, RefreshStep
  <1>6. CASE \E a \in Subjects : InspectAccount(a)
    BY <1>6, InspectStep
  <1>7. CASE \E a, h \in Subjects : OpenInExplorer(a, h)
    BY <1>7, InspectStep
  <1>8. CASE \E a \in Subjects : TraceTransaction(a) \/ OpenChat(a)
    BY <1>8, AskingStep
  <1>11. CASE CloseTrace \/ CloseChat \/ RefreshPool \/ RefreshStorage \/ CheckDestination
    BY <1>11, AskingStep
  <1>12. CASE \E a \in Subjects : SetDestination(a)
    BY <1>12, SetDestinationStep
  <1>13. CASE OpenStorageTab \/ LeaveStorageTab
    BY <1>13, TabStep
  <1>14. CASE \E r \in reqs, ok \in BOOLEAN : Answer(r, ok)
    BY <1>14, AnswerStep
  <1> QED BY <1>1, <1>2, <1>3, <1>4, <1>5, <1>6, <1>7, <1>8, <1>11, <1>12, <1>13, <1>14 DEF LateNext

\* The invariant holds initially.
LEMMA LateInitial ==
    ASSUME LateInit
    PROVE  LateIInv
  <1>1. PICK t : t = State
    OBVIOUS
  <1>2. PICK z : z = [seq |-> 0, subject |-> None, loading |-> FALSE, shown |-> NothingShown]
    OBVIOUS
  <1>3. z \in QueryRec /\ z.seq = 0 /\ ~z.loading
    BY <1>2, Zenon DEF QueryRec, Named
  <1>4. t.q = [k \in Queries |-> z] /\ t.reqs = {} /\ t.cache = <<>> /\ t.jump = None
    BY <1>1, <1>2 DEF LateInit, State
  <1>5. t.q \in [Queries -> QueryRec] /\ t.reqs \in SUBSET ReqRec /\ t.cache \in Seq(Shown) /\ t.jump \in Named
    BY <1>3, <1>4, NoneNamed
  <1>6. t = [q |-> t.q, reqs |-> t.reqs, cache |-> t.cache, jump |-> t.jump]
    BY <1>1 DEF State
  <1>7. t \in LateForm
    BY <1>5, <1>6, Zenon DEF LateForm
  <1>8. \A k \in Queries : t.q[k].seq = 0 /\ ~t.q[k].loading
    BY <1>3, <1>4
  <1>9. \A g, w : Good(t, g, w)
    BY <1>4, <1>7, <1>8, CacheEmpty, QueryNames, LateConstants
       DEF Good, Sound, ReqsGood, AllServed, Served, Calm, Bounded
  <1>10. Good(State, gen, world)
    BY <1>1, <1>9
  <1>11. active \in Groups /\ world \in World /\ gen = 0 /\ tab = FALSE
    BY DEF LateInit
  <1>12. gen \in 0..MaxGen
    BY <1>11, LateConstants
  <1> QED BY <1>10, <1>11, <1>12 DEF LateIInv

\* Every step keeps it, and shows nothing stale.
LEMMA LateHeld ==
    ASSUME LateIInv, [LateNext]_lateVars
    PROVE  LateIInv' /\ NothingStaleIsShown
  <1>1. CASE LateNext
    <2>1. LateKept
      BY <1>1, LateStep
    <2>2. active' \in Groups /\ tab' \in BOOLEAN
      BY <1>1 DEF LateIInv, LateNext, Resubscribe, SelectEndpoint, ActivateSeed, OtherWallet, Refresh, InspectAccount,
                  OpenInExplorer, TraceTransaction, CloseTrace, RefreshPool, OpenStorageTab, LeaveStorageTab, RefreshStorage,
                  OpenChat, CloseChat, SetDestination, CheckDestination, Answer, Asks
    <2>a. \/ world' = world
          \/ \E e \in Endpoints : world' = <<e, world[2]>>
          \/ \E i \in Identities : world' = <<world[1], i>>
          \/ \E e \in Endpoints, i \in Identities : world' = <<e, i>>
      BY <1>1 DEF LateNext, Resubscribe, SelectEndpoint, ActivateSeed, OtherWallet, Refresh, InspectAccount,
                  OpenInExplorer, TraceTransaction, CloseTrace, RefreshPool, OpenStorageTab, LeaveStorageTab, RefreshStorage,
                  OpenChat, CloseChat, SetDestination, CheckDestination, Answer, Asks
    <2>3. world' \in World
      <3>1. world \in Endpoints \X Identities
        BY DEF LateIInv, World
      <3>2. world[1] \in Endpoints /\ world[2] \in Identities
        BY <3>1
      <3> QED BY <2>a, <3>1, <3>2 DEF World
    <2>4. gen' = gen \/ NewGeneration
      BY <1>1 DEF LateNext, Resubscribe, SelectEndpoint, ActivateSeed, OtherWallet, Refresh, InspectAccount,
                  OpenInExplorer, TraceTransaction, CloseTrace, RefreshPool, OpenStorageTab, LeaveStorageTab, RefreshStorage,
                  OpenChat, CloseChat, SetDestination, CheckDestination, Answer, Asks
    <2>5. gen' \in 0..MaxGen
      BY <2>4, LateConstants DEF LateIInv, NewGeneration
    <2>6. LateIInv'
      BY <2>1, <2>2, <2>3, <2>5 DEF LateIInv, LateKept
    <2>7. NothingStaleIsShown
      <3>1. State.q = q /\ State'.q = q'
        BY DEF State
      <3>2. \A k \in Queries : q'[k].shown = q[k].shown \/ Own(q'[k], k, world')
        BY <2>1, <3>1 DEF LateKept, AllShow, Shows
      <3> QED BY <3>2 DEF NothingStaleIsShown, Own
    <2> QED BY <2>6, <2>7
  <1>2. CASE UNCHANGED lateVars
    <2>1. LateIInv'
      BY <1>2 DEF LateIInv, lateVars, State
    <2>2. NothingStaleIsShown
      BY <1>2 DEF lateVars, NothingStaleIsShown
    <2> QED BY <2>1, <2>2
  <1> QED BY <1>1, <1>2

\* It implies what the run checks.
LEMMA LateConcludes ==
    ASSUME LateIInv
    PROVE  PagesAreServed
  <1>1. PICK t : t = State
    OBVIOUS
  <1>2. t.q = q /\ t.reqs = reqs /\ t.cache = cache /\ t.jump = jump
    BY <1>1 DEF State
  <1>3. t \in LateForm /\ ReqsGood(t, gen, world) /\ CacheGood(t.cache, world) /\ AllServed(t, {}, gen) /\ Bounded(t)
    BY <1>1 DEF LateIInv, Good, Sound
  <1>4. gen \in 0..MaxGen /\ MaxAsked \in Nat /\ MaxGen \in Nat
    BY LateConstants DEF LateIInv
  <1>5. ASSUME NEW k \in Queries PROVE q[k] \in Query
    <2>1. PICK y \in QueryRec : y = t.q[k]
      BY <1>3, LatePieces
    <2>2. y.seq \in 0..MaxAsked
      BY <1>3, <1>4, <2>1, LatePieces DEF Bounded
    <2>3. y = [seq |-> y.seq, subject |-> y.subject, loading |-> y.loading, shown |-> y.shown]
          /\ y.subject \in Subjects \cup {None} /\ y.loading \in BOOLEAN /\ y.shown \in Shown \cup {NothingShown}
      BY Zenon DEF QueryRec, Named
    <2>4. y \in Query
      BY <2>2, <2>3, Zenon DEF Query
    <2> QED BY <1>2, <2>1, <2>4
  <1>6. ASSUME NEW r \in reqs PROVE r \in Request
    <2>1. r \in ReqRec /\ r.query \in Queries /\ r.seq \in Nat /\ r.gen \in Nat
      BY <1>2, <1>3, LatePieces
    <2>2. r.seq <= t.q[r.query].seq /\ r.gen <= gen /\ t.q[r.query].seq \in Nat /\ t.q[r.query].seq <= MaxAsked
      BY <1>2, <1>3, <2>1, LatePieces DEF ReqsGood, Bounded
    <2>3. r.seq \in 0..MaxAsked /\ r.gen \in 0..MaxGen
      BY <1>4, <2>1, <2>2
    <2>4. r = [query |-> r.query, gen |-> r.gen, seq |-> r.seq, subject |-> r.subject, world |-> r.world]
          /\ r.subject \in Subjects \cup {None} /\ r.world \in World
      BY <2>1, Zenon DEF ReqRec, Named
    <2> QED BY <2>1, <2>3, <2>4, Zenon DEF Request
  <1>7. q \in [Queries -> Query]
    <2>1. q \in [Queries -> QueryRec]
      BY <1>2, <1>3, LatePieces
    <2> QED BY <2>1, <1>5
  <1>8. cache \in Seq(Shown) /\ jump \in Subjects \cup {None}
    BY <1>2, <1>3, LatePieces DEF Named
  <1>9. /\ Len(cache) <= TraceMemory
        /\ \A i, j \in 1..Len(cache) : cache[i].subject = cache[j].subject => i = j
    BY <1>2, <1>3 DEF CacheGood
  <1>10. active \in Groups /\ world \in World /\ gen \in 0..MaxGen /\ tab \in BOOLEAN
    BY DEF LateIInv
  <1>11. LateTypeOK
    BY <1>6, <1>7, <1>8, <1>9, <1>10 DEF LateTypeOK
  <1>12. LoadingIsServed
    BY <1>2, <1>3 DEF LoadingIsServed, AllServed, Served
  <1> QED BY <1>11, <1>12 DEF PagesAreServed

\* No page says that it is loading without a request under way whose answer will
\* be taken or asked again, through any sequence of questions, late answers, new
\* subscriptions, endpoints, phrases and wallets (the swap pool excepted).
THEOREM PagesAreServedAlways == LateSpec => []PagesAreServed
  <1>1. LateInit => LateIInv
    BY LateInitial
  <1>2. LateIInv /\ [LateNext]_lateVars => LateIInv'
    BY LateHeld
  <1>3. LateIInv => PagesAreServed
    BY LateConcludes
  <1> QED BY <1>1, <1>2, <1>3, PTL DEF LateSpec

\* Nothing is put on screen that was asked of another endpoint, for another
\* wallet or about something else, whether it comes with a late answer or from
\* the trace cache (apply_event, cached_trace, forget_traces).
THEOREM NothingStaleAlways == LateSpec => NothingStale
  <1>1. LateInit => LateIInv
    BY LateInitial
  <1>2. LateIInv /\ [LateNext]_lateVars => LateIInv'
    BY LateHeld
  <1>3. LateIInv /\ [LateNext]_lateVars => [NothingStaleIsShown]_lateVars
    BY LateHeld
  <1> QED BY <1>1, <1>2, <1>3, PTL DEF LateSpec, NothingStale

\* No page waits for an answer that will not be taken, and none shows one that
\* is not its own (apply_event, cached_trace, forget_traces).
THEOREM PagesAreSoundAlways == LateSpec => PagesAreSound
  BY PagesAreServedAlways, NothingStaleAlways, PTL DEF PagesAreSound

-----------------------------------------------------------------------------
(* VaultContainer: sequences put together, and where their parts are.      *)

\* A set of numbers has a least one.  (From the well-foundedness of <.)
LEMMA LeastNat ==
    ASSUME NEW T, T \subseteq Nat, T # {}
    PROVE  \E x \in T : \A y \in T : x <= y
<1> DEFINE R == {ss \in Nat \X Nat : ss[1] < ss[2]}
<1>1. IsWellFoundedOn(R, Nat)
  BY NatLessThanWellFounded DEF OpToRel
<1> HIDE DEF R
<1>2. PICK x \in T : \A y \in T : ~(<<y, x>> \in R)
  BY <1>1, WFMin
<1>3. \A y \in T : y < x => <<y, x>> \in R
  BY <1>2 DEF R
<1>4. x \in Nat
  BY <1>2
<1>5. \A y \in T : x <= y
  <2> SUFFICES ASSUME NEW y \in T PROVE x <= y
    OBVIOUS
  <2>1. y \in Nat /\ ~(y < x)
    BY <1>2, <1>3
  <2> QED
    BY <1>4, <2>1
<1> QED
  BY <1>2, <1>5

\* The recursion of FlattenSeq has a solution.
LEMMA FlattenExists ==
    ASSUME NEW S, NEW qs \in Seq(Seq(S))
    PROVE  \E t : t = [i \in 1..Len(qs) |-> IF i = 1 THEN qs[i] ELSE t[i - 1] \o qs[i]]
  <1> DEFINE N == Len(qs)
             Solves(t, k) == \A i \in 1..k : t[i] = IF i = 1 THEN qs[i] ELSE t[i - 1] \o qs[i]
             P(k) == \E t \in [1..k -> Seq(S)] : Solves(t, k)
             Bad == {k \in 0..N : ~P(k)}
  <1>0. N \in Nat /\ \A i \in 1..N : qs[i] \in Seq(S)
    OBVIOUS
  <1>1. P(0)
    <2> DEFINE z == [i \in 1..0 |-> << >>]
    <2>1. z \in [1..0 -> Seq(S)] /\ 1..0 = {}
      OBVIOUS
    <2> QED
      BY <2>1
  <1>2. ASSUME NEW k \in 1..N, P(k - 1) PROVE P(k)
    <2>1. PICK t \in [1..(k - 1) -> Seq(S)] : Solves(t, k - 1)
      BY <1>2
    <2> DEFINE e == IF k = 1 THEN qs[k] ELSE t[k - 1] \o qs[k]
               u == [i \in 1..k |-> IF i = k THEN e ELSE t[i]]
    <2>2. e \in Seq(S)
      <3>1. CASE k = 1
        BY <1>0, <3>1
      <3>2. CASE k # 1
        <4>1. t[k - 1] \in Seq(S) /\ qs[k] \in Seq(S)
          BY <1>0, <1>2, <3>2
        <4>2. t[k - 1] \o qs[k] \in Seq(S)
          BY <4>1, ConcatProperties
        <4> QED
          BY <3>2, <4>2
      <3> QED
        BY <3>1, <3>2
    <2>3. u \in [1..k -> Seq(S)]
      <3>1. \A i \in 1..k : i # k => i \in 1..(k - 1)
        BY <1>0, <1>2
      <3> HIDE DEF e
      <3> QED
        BY <2>2, <3>1
    <2>4. Solves(u, k)
      <3> SUFFICES ASSUME NEW i \in 1..k
                   PROVE  u[i] = IF i = 1 THEN qs[i] ELSE u[i - 1] \o qs[i]
        OBVIOUS
      <3>1. CASE i = k
        <4>1. k # 1 => u[k - 1] = t[k - 1]
          BY <1>0, <1>2
        <4> QED
          BY <3>1, <4>1
      <3>2. CASE i # k
        <4>1. i \in 1..(k - 1) /\ u[i] = t[i]
          BY <1>0, <1>2, <3>2
        <4>2. i # 1 => u[i - 1] = t[i - 1]
          BY <1>0, <1>2, <4>1
        <4>3. t[i] = IF i = 1 THEN qs[i] ELSE t[i - 1] \o qs[i]
          BY <2>1, <4>1
        <4> QED
          BY <4>1, <4>2, <4>3
      <3> QED
        BY <3>1, <3>2
    <2> QED
      BY <2>3, <2>4
  <1> HIDE DEF P
  <1>3. Bad = {}
    <2> SUFFICES ASSUME Bad # {} PROVE FALSE
      OBVIOUS
    <2>1. Bad \subseteq Nat
      BY <1>0
    <2> HIDE DEF Bad
    <2>2. PICK k \in Bad : \A j \in Bad : k <= j
      BY <2>1, LeastNat
    <2> USE DEF Bad
    <2>3. k \in 1..N
      BY <1>0, <1>1, <2>2
    <2>4. P(k - 1)
      BY <1>0, <2>2, <2>3
    <2> QED
      BY <1>2, <2>2, <2>3, <2>4
  <1>4. PICK t \in [1..N -> Seq(S)] : Solves(t, N)
    <2>1. P(N)
      BY <1>0, <1>3
    <2> QED
      BY <2>1 DEF P
  <1>5. t = [i \in 1..N |-> IF i = 1 THEN qs[i] ELSE t[i - 1] \o qs[i]]
    <2> DEFINE e(i) == IF i = 1 THEN qs[i] ELSE t[i - 1] \o qs[i]
    <2>1. t \in [1..N -> Seq(S)] /\ \A i \in 1..N : t[i] = e(i)
      BY <1>4
    <2> HIDE DEF e
    <2>2. t = [i \in 1..N |-> e(i)]
      BY <2>1
    <2> QED
      BY <2>2 DEF e
  <1> QED
    BY <1>5

\* FlattenSeq puts the parts one after the other, at the places ends says.
LEMMA FlattenFacts ==
    ASSUME NEW S, NEW qs \in Seq(Seq(S)), NEW ends \in [0..Len(qs) -> Nat], ends[0] = 0,
           \A i \in 1..Len(qs) : ends[i] = ends[i - 1] + Len(qs[i])
    PROVE  /\ FlattenSeq(qs) \in Seq(S) /\ Len(FlattenSeq(qs)) = ends[Len(qs)]
           /\ \A i \in 1..Len(qs) : \A j \in 1..Len(qs[i]) :
                 FlattenSeq(qs)[ends[i - 1] + j] = qs[i][j]
  <1> DEFINE N == Len(qs)
             f == CHOOSE t : t = [i \in 1..N |-> IF i = 1 THEN qs[i] ELSE t[i - 1] \o qs[i]]
             Fine(k) == /\ f[k] \in Seq(S) /\ Len(f[k]) = ends[k]
                        /\ \A i \in 1..k : \A j \in 1..Len(qs[i]) :
                              ends[i - 1] + j <= ends[k] /\ f[k][ends[i - 1] + j] = qs[i][j]
             Bad == {k \in 1..N : ~Fine(k)}
  <1>0. /\ N \in Nat /\ \A i \in 1..N : qs[i] \in Seq(S) /\ Len(qs[i]) \in Nat
        /\ \A i \in 0..N : ends[i] \in Nat
    <2>1. N \in Nat /\ \A i \in 1..N : qs[i] \in Seq(S)
      OBVIOUS
    <2>2. \A sv \in Seq(S) : Len(sv) \in Nat
      OBVIOUS
    <2> QED
      BY <2>1, <2>2
  <1>1. \A i \in 1..N : f[i] = IF i = 1 THEN qs[i] ELSE f[i - 1] \o qs[i]
    <2> DEFINE e(t, i) == IF i = 1 THEN qs[i] ELSE t[i - 1] \o qs[i]
    <2>1. f = [i \in 1..N |-> e(f, i)]
      BY FlattenExists
    <2> HIDE DEF e, f
    <2>2. \A i \in 1..N : f[i] = e(f, i)
      BY <2>1
    <2> QED
      BY <2>2 DEF e
  <1> HIDE DEF f
  <1>2. N # 0 => f[1] = qs[1] /\ ends[1] = Len(qs[1])
    BY <1>0, <1>1
  <1>3. N # 0 => Fine(1)
    <2> SUFFICES ASSUME N # 0 PROVE Fine(1)
      OBVIOUS
    <2>1. 1 \in 1..N /\ qs[1] \in Seq(S) /\ Len(qs[1]) \in Nat
      BY <1>0
    <2>2. \A i \in 1..1 : i = 1
      OBVIOUS
    <2>3. \A j \in 1..Len(qs[1]) : ends[1 - 1] + j <= ends[1] /\ f[1][ends[1 - 1] + j] = qs[1][j]
      BY <1>2, <2>1
    <2> QED
      BY <1>2, <2>1, <2>2, <2>3
  <1>4. ASSUME NEW k \in 2..N, Fine(k - 1) PROVE Fine(k)
    <2>1. /\ f[k] = f[k - 1] \o qs[k] /\ ends[k] = ends[k - 1] + Len(qs[k])
          /\ qs[k] \in Seq(S) /\ f[k - 1] \in Seq(S) /\ Len(f[k - 1]) = ends[k - 1]
          /\ ends[k - 1] \in Nat /\ Len(qs[k]) \in Nat
      <3>1. k \in 1..N /\ k # 1 /\ k - 1 \in 0..N
        BY <1>0, <1>4
      <3>2. f[k] = f[k - 1] \o qs[k]
        BY <1>1, <3>1, Zenon
      <3> QED
        BY <1>0, <1>4, <3>1, <3>2
    <2>2. /\ f[k] \in Seq(S) /\ Len(f[k]) = ends[k]
          /\ \A n \in 1..ends[k] : f[k][n] = IF n <= ends[k - 1] THEN f[k - 1][n]
                                            ELSE qs[k][n - ends[k - 1]]
      <3> DEFINE a == f[k - 1]
                 b == qs[k]
      <3>1. a \in Seq(S) /\ b \in Seq(S) /\ f[k] = a \o b
        BY <2>1
      <3> HIDE DEF a, b
      <3>2. /\ a \o b \in Seq(S) /\ Len(a \o b) = Len(a) + Len(b)
            /\ \A n \in 1..(Len(a) + Len(b)) :
                  (a \o b)[n] = IF n <= Len(a) THEN a[n] ELSE b[n - Len(a)]
        BY <3>1, ConcatProperties
      <3>3. Len(a) = ends[k - 1] /\ Len(b) = Len(qs[k]) /\ Len(a) + Len(b) = ends[k]
        BY <2>1 DEF a, b
      <3> QED
        BY <3>1, <3>2, <3>3 DEF a, b
    <2> DEFINE l == Len(qs[k])
               low == ends[k - 1]
               high == ends[k]
    <2>a. high = low + l /\ low \in Nat /\ l \in Nat
      BY <2>1
    <2>3. ASSUME NEW i \in 1..k, NEW j \in 1..Len(qs[i])
          PROVE  ends[i - 1] + j <= ends[k] /\ f[k][ends[i - 1] + j] = qs[i][j]
      <3>0. i \in 1..N /\ i - 1 \in 0..N
        <4> HIDE DEF N
        <4> QED
          BY <1>0, <1>4, <2>3
      <3>1. i \in 1..N /\ Len(qs[i]) \in Nat /\ ends[i - 1] \in Nat
        BY <1>0, <3>0, Zenon
      <3>2. CASE i = k
        <4>0. j \in 1..l
          BY <3>2
        <4>1. ends[k - 1] + j \in 1..ends[k] /\ ~(ends[k - 1] + j <= ends[k - 1])
              /\ (ends[k - 1] + j) - ends[k - 1] = j
          <5> HIDE DEF l, low, high
          <5>1. low + j \in 1..high /\ ~(low + j <= low) /\ (low + j) - low = j
            BY <2>a, <4>0
          <5> QED
            BY <5>1 DEF low, high
        <4>2. f[k][ends[k - 1] + j] = qs[k][(ends[k - 1] + j) - ends[k - 1]]
          BY <2>2, <4>1
        <4>3. ends[k - 1] + j <= ends[k]
          BY <4>1
        <4> QED
          BY <3>2, <4>1, <4>2, <4>3
      <3>3. CASE i # k
        <4>1. i \in 1..(k - 1)
          BY <1>4, <3>3
        <4>2. ends[i - 1] + j <= ends[k - 1] /\ f[k - 1][ends[i - 1] + j] = qs[i][j]
          BY <1>4, <4>1
        <4>3. ends[i - 1] + j \in 1..ends[k]
          <5> DEFINE e == ends[i - 1]
                     m == Len(qs[i])
          <5>1. e \in Nat /\ m \in Nat /\ j \in 1..m /\ e + j <= low
            BY <3>1, <4>2
          <5> HIDE DEF l, low, high, e, m
          <5>2. e + j \in 1..high
            BY <2>a, <5>1
          <5> QED
            BY <5>2 DEF e, high
        <4>4. f[k][ends[i - 1] + j] = f[k - 1][ends[i - 1] + j]
          BY <2>2, <4>2, <4>3
        <4>5. ends[i - 1] + j <= ends[k]
          BY <4>3
        <4> QED
          BY <4>2, <4>4, <4>5
      <3> QED
        BY <3>2, <3>3
    <2> QED
      BY <2>2, <2>3
  <1> HIDE DEF Fine
  <1>5. Bad = {}
    <2> SUFFICES ASSUME Bad # {} PROVE FALSE
      OBVIOUS
    <2>1. Bad \subseteq Nat
      BY <1>0
    <2> HIDE DEF Bad
    <2>2. PICK k \in Bad : \A j \in Bad : k <= j
      BY <2>1, LeastNat
    <2> USE DEF Bad
    <2>3. k \in 2..N
      BY <1>0, <1>3, <2>2
    <2>4. Fine(k - 1)
      BY <1>0, <2>2, <2>3
    <2> QED
      BY <1>4, <2>2, <2>3, <2>4
  <1>6. CASE N = 0
    <2>1. FlattenSeq(qs) = qs /\ qs = << >>
      BY <1>6 DEF FlattenSeq
    <2> QED
      BY <1>6, <2>1
  <1>7. CASE N # 0
    <2>1. FlattenSeq(qs) = f[N]
      BY <1>7, Zenon DEF FlattenSeq, f
    <2>2. N \in 1..N
      <3> HIDE DEF N
      <3> QED
        BY <1>0, <1>7
    <2>3. Fine(N)
      <3> HIDE DEF N
      <3> QED
        BY <1>5, <2>2
    <2> QED
      BY <2>1, <2>3 DEF Fine
  <1> QED
    BY <1>6, <1>7

\* The offsets of a directory: each section begins where the one before ends.
LEMMA OffsetFacts ==
    ASSUME NEW m \in Seq(Purposes \X Nat)
    PROVE  /\ Len(m) \in Nat /\ Offset(m, 0) = 0
           /\ \A i \in 0..Len(m) : Offset(m, i) \in Nat /\ Offset(m, i) <= Total(m)
           /\ \A i \in 1..Len(m) : m[i][2] \in Nat /\ Offset(m, i) = Offset(m, i - 1) + m[i][2]
  <1> DEFINE N == Len(m)
             Solves(t, k) == t[0] = 0 /\ \A i \in 1..k : t[i] = t[i - 1] + m[i][2]
             P(k) == \E t \in [0..k -> Nat] : Solves(t, k)
             Bad == {k \in 0..N : ~P(k)}
  <1>0. N \in Nat /\ \A i \in 1..N : m[i][2] \in Nat
    OBVIOUS
  <1>1. P(0)
    <2> DEFINE z == [i \in 0..0 |-> 0]
    <2>1. z \in [0..0 -> Nat] /\ z[0] = 0 /\ 1..0 = {}
      OBVIOUS
    <2> QED
      BY <2>1
  <1>2. ASSUME NEW k \in 1..N, P(k - 1) PROVE P(k)
    <2>1. PICK t \in [0..(k - 1) -> Nat] : Solves(t, k - 1)
      BY <1>2
    <2> DEFINE e == m[k][2]
               u == [i \in 0..k |-> IF i = k THEN t[k - 1] + e ELSE t[i]]
    <2>2. e \in Nat /\ t[k - 1] \in Nat /\ \A i \in 0..k : i # k => t[i] \in Nat
      BY <1>0, <1>2
    <2>3. u \in [0..k -> Nat]
      <3> HIDE DEF e
      <3> QED
        BY <2>2
    <2>4. u[0] = 0
      BY <1>2, <2>1
    <2>5. \A i \in 1..k : u[i] = u[i - 1] + m[i][2]
      <3> SUFFICES ASSUME NEW i \in 1..k PROVE u[i] = u[i - 1] + m[i][2]
        OBVIOUS
      <3>1. u[i - 1] = t[i - 1]
        BY <1>0, <1>2
      <3>2. CASE i = k
        BY <3>1, <3>2
      <3>3. CASE i # k
        <4>1. i \in 1..(k - 1) /\ u[i] = t[i]
          BY <1>0, <1>2, <3>3
        <4> QED
          BY <2>1, <3>1, <4>1
      <3> QED
        BY <3>2, <3>3
    <2> QED
      BY <2>3, <2>4, <2>5
  <1> HIDE DEF P
  <1>3. P(N)
    <2> SUFFICES ASSUME Bad # {} PROVE FALSE
      BY <1>0
    <2>1. Bad \subseteq Nat
      BY <1>0
    <2> HIDE DEF Bad
    <2>2. PICK k \in Bad : \A j \in Bad : k <= j
      BY <2>1, LeastNat
    <2> USE DEF Bad
    <2>3. k \in 1..N
      BY <1>0, <1>1, <2>2
    <2>4. P(k - 1)
      BY <1>0, <2>2, <2>3
    <2> QED
      BY <1>2, <2>2, <2>3, <2>4
  <1>4. PICK t \in [0..N -> Nat] : Solves(t, N)
    BY <1>3 DEF P
  <1> DEFINE e(g, i) == IF i = 0 THEN 0 ELSE g[i - 1] + m[i][2]
             end == CHOOSE g : g = [i \in 0..N |-> e(g, i)]
  <1>5. end = [i \in 0..N |-> e(end, i)]
    <2>1. \A i \in 0..N : t[i] = e(t, i)
      BY <1>0, <1>4
    <2> HIDE DEF e
    <2>2. t = [i \in 0..N |-> e(t, i)]
      BY <2>1
    <2> QED
      BY <2>2
  <1>6. \A i \in 0..N : Offset(m, i) = end[i]
    BY Zenon DEF Offset
  <1> HIDE DEF end
  <1>7. end[0] = 0 /\ \A i \in 1..N : end[i] = end[i - 1] + m[i][2]
    <2>1. \A i \in 0..N : end[i] = e(end, i)
      <3> HIDE DEF e
      <3> QED
        BY <1>5
    <2>2. 0 \in 0..N /\ \A i \in 1..N : i \in 0..N /\ i # 0
      BY <1>0
    <2> QED
      BY <2>1, <2>2
  <1> DEFINE Amiss == {k \in 0..N : end[k] # t[k]}
             Above(k) == \A i \in 0..k : t[i] <= t[k]
             Low == {k \in 0..N : ~Above(k)}
  <1>8. \A k \in 0..N : end[k] = t[k]
    <2> SUFFICES ASSUME Amiss # {} PROVE FALSE
      OBVIOUS
    <2>1. Amiss \subseteq Nat
      BY <1>0
    <2> HIDE DEF Amiss
    <2>2. PICK k \in Amiss : \A j \in Amiss : k <= j
      BY <2>1, LeastNat
    <2> USE DEF Amiss
    <2>3. k \in 1..N
      BY <1>0, <1>4, <1>7, <2>2
    <2>4. end[k - 1] = t[k - 1]
      BY <1>0, <2>2, <2>3
    <2> QED
      BY <1>4, <1>7, <2>2, <2>3, <2>4
  <1>9. ASSUME NEW k \in 1..N, Above(k - 1) PROVE Above(k)
    <2>1. t[k] = t[k - 1] + m[k][2] /\ m[k][2] \in Nat /\ t[k - 1] \in Nat /\ t[k] \in Nat
      <3>1. k \in 0..N /\ k - 1 \in 0..N
        BY <1>0, <1>9
      <3>2. t[k] = t[k - 1] + m[k][2]
        BY <1>4, <1>9
      <3> QED
        BY <1>0, <1>4, <1>9, <3>1, <3>2
    <2>2. t[k - 1] <= t[k]
      BY <2>1
    <2> SUFFICES ASSUME NEW i \in 0..k PROVE t[i] <= t[k]
      OBVIOUS
    <2>3. CASE i = k
      BY <2>1, <2>3
    <2>4. CASE i # k
      <3>1. i \in 0..(k - 1) /\ t[i] \in Nat
        BY <1>0, <1>9, <2>4
      <3>2. t[i] <= t[k - 1]
        BY <1>9, <3>1
      <3> QED
        BY <2>1, <2>2, <3>1, <3>2
    <2> QED
      BY <2>3, <2>4
  <1>10. Above(0)
    BY <1>4
  <1> HIDE DEF Above
  <1>11. Above(N)
    <2> SUFFICES ASSUME Low # {} PROVE FALSE
      BY <1>0
    <2>1. Low \subseteq Nat
      BY <1>0
    <2> HIDE DEF Low
    <2>2. PICK k \in Low : \A j \in Low : k <= j
      BY <2>1, LeastNat
    <2> USE DEF Low
    <2>3. k \in 1..N
      BY <1>0, <1>10, <2>2
    <2>4. Above(k - 1)
      BY <1>0, <2>2, <2>3
    <2> QED
      BY <1>9, <2>2, <2>3, <2>4
  <1>12. \A i \in 0..N : t[i] \in Nat /\ t[i] <= t[N] /\ Offset(m, i) = t[i]
    BY <1>0, <1>6, <1>8, <1>11 DEF Above
  <1>13. Total(m) = t[N]
    BY <1>0, <1>12 DEF Total
  <1>14. ASSUME NEW i \in 1..N PROVE Offset(m, i) = Offset(m, i - 1) + m[i][2]
    <2>1. i \in 0..N /\ i - 1 \in 0..N
      BY <1>0, <1>14
    <2>2. t[i] = t[i - 1] + m[i][2]
      BY <1>4, <1>14
    <2> QED
      BY <1>12, <2>1, <2>2
  <1>15. 0 \in 0..N /\ t[0] = 0
    BY <1>0, <1>4
  <1> QED
    BY <1>0, <1>12, <1>13, <1>14, <1>15

-----------------------------------------------------------------------------
(* VaultContainer: the parts of the inductive invariant.                   *)

\* The j-th cell that seal_container made of section i of the container c.
CellOf(c, i, j) ==
    [dek |-> c.prefix, purpose |-> c.manifest[i][1], aad |-> SectionAad(c, c.manifest[i][1]),
     save |-> c.saveId, cell |-> j, of |-> c.manifest[i][2]]

\* The cells of the containers qs.
CellsOf(qs) ==
    UNION {UNION {{CellOf(qs[n], i, j) : j \in 1..qs[n].manifest[i][2]}
                     : i \in 1..Len(qs[n].manifest)} : n \in 1..Len(qs)}

FilesOf(S) ==
    [prefix : Nat, wrap : Nat, name : Name \cup {BadName}, saveId : Nat, counter : Nat,
     manifest : Seq(Purposes \X Nat), body : Seq(S)]

\* What seal_container writes: the cells of each section, where the directory
\* says that they are.
Whole(c, n) ==
    /\ c.saveId = n /\ Cardinal(SectionIds(c)) /\ ExtentsOk(c)
    /\ \A i \in 1..Len(c.manifest) :
          /\ c.manifest[i][2] >= 1
          /\ \A j \in 1..c.manifest[i][2] :
                c.body[Offset(c.manifest, i - 1) + j] = CellOf(c, i, j)

\* No file, however damaged, has a cell that was not sealed.
ContainerTypes ==
    /\ vaults \in Seq([pw : Password, name : Name])
    /\ sealed \in Seq(FilesOf(CellsOf(sealed)))
    /\ \A n \in 1..Len(sealed) : Whole(sealed[n], n)
    /\ file \in FilesOf(CellsOf(sealed)) \cup {NoFile}

\* A keyslot that is kept was opened with the password of this unlock.
KeptSlots ==
    /\ file = NoFile => cached = {} /\ opened = NoResult
    /\ tried = NoTry => cached = {}
    /\ \A sv \in cached : vaults[sv[1]].pw = tried

ContainerInv == ContainerTypes /\ KeptSlots /\ OpensWhatWasSealed

-----------------------------------------------------------------------------
(* VaultContainer: sections and what opens.                                *)

\* Each cell is one of a section of a container.
LEMMA CellFrom ==
    ASSUME NEW qs, NEW x \in CellsOf(qs)
    PROVE  \E n \in 1..Len(qs) : \E i \in 1..Len(qs[n].manifest) :
              \E j \in 1..qs[n].manifest[i][2] : x = CellOf(qs[n], i, j)
  BY DEF CellsOf

\* Each cell of a section of a container is one of its cells.
LEMMA CellIn ==
    ASSUME NEW qs, NEW n \in 1..Len(qs), NEW i \in 1..Len(qs[n].manifest),
           NEW j \in 1..qs[n].manifest[i][2]
    PROVE  CellOf(qs[n], i, j) \in CellsOf(qs)
  BY DEF CellsOf

\* The cells of the next state are those of the containers sealed there.
LEMMA CellsNext == CellsOf(sealed)' = CellsOf(sealed')
  BY DEF CellsOf, CellOf, SectionAad

\* A section of a file that has the length its directory says.
LEMMA BodyFacts ==
    ASSUME NEW S, NEW f \in FilesOf(S), ExtentsOk(f), NEW i \in 1..Len(f.manifest)
    PROVE  /\ BodyOf(f, i) \in Seq(S) /\ Len(BodyOf(f, i)) = f.manifest[i][2]
           /\ f.manifest[i][2] \in Nat
           /\ \A j \in 1..f.manifest[i][2] :
                 BodyOf(f, i)[j] = f.body[Offset(f.manifest, i - 1) + j]
  <1> DEFINE m == f.manifest
             b == f.body
             low == Offset(m, i - 1)
             high == Offset(m, i)
             l == m[i][2]
  <1>1. m \in Seq(Purposes \X Nat) /\ b \in Seq(S)
    BY DEF FilesOf
  <1>2. Len(m) \in Nat /\ i - 1 \in 0..Len(m) /\ i \in 0..Len(m) /\ i \in 1..Len(m)
    BY <1>1
  <1> HIDE DEF m
  <1>3. low \in Nat /\ high \in Nat /\ l \in Nat /\ high = low + l /\ high <= Total(m)
    BY <1>1, <1>2, OffsetFacts
  <1>4. high <= Len(b) /\ Len(b) \in Nat
    BY <1>1, <1>3 DEF ExtentsOk, m
  <1> HIDE DEF b, low, high, l
  <1>5. \A n \in (low + 1)..high : b[n] \in S
    <2>1. \A n \in 1..Len(b) : b[n] \in S
      BY <1>1
    <2> QED
      BY <1>3, <1>4, <2>1
  <1>6. /\ SubSeq(b, low + 1, high) \in Seq(S)
        /\ Len(SubSeq(b, low + 1, high)) = IF low + 1 <= high THEN high - (low + 1) + 1 ELSE 0
        /\ \A j \in 1..(high - (low + 1) + 1) :
              SubSeq(b, low + 1, high)[j] = b[(low + 1) + j - 1]
    <2>1. low + 1 \in Int /\ high \in Int
      BY <1>3
    <2> QED
      BY <1>5, <2>1, SubSeqProperties
  <1>7. /\ high - (low + 1) + 1 = l /\ (IF low + 1 <= high THEN high - (low + 1) + 1 ELSE 0) = l
        /\ \A j \in 1..l : (low + 1) + j - 1 = low + j
    BY <1>3
  <1>8. BodyOf(f, i) = SubSeq(b, low + 1, high)
    BY DEF BodyOf, b, low, high, m
  <1>9. \A j \in 1..l : SubSeq(b, low + 1, high)[j] = b[low + j]
    BY <1>6, <1>7
  <1> QED
    BY <1>3, <1>6, <1>7, <1>8, <1>9 DEF b, low, l, m

\* Where check_cardinality passes, a purpose has one section at most, wallet
\* and journal have one, and SectionAt finds it.
LEMMA SectionFacts ==
    ASSUME NEW S, NEW f \in FilesOf(S), Cardinal(SectionIds(f))
    PROVE  /\ \A i, k \in 1..Len(f.manifest) : f.manifest[i][1] = f.manifest[k][1] => i = k
           /\ \A p : Has(f, p) => /\ SectionAt(f, p) \in 1..Len(f.manifest)
                                  /\ f.manifest[SectionAt(f, p)][1] = p
           /\ Has(f, "wallet") /\ Has(f, "journal")
           /\ \A i \in 1..Len(f.manifest) : Has(f, f.manifest[i][1])
  <1> DEFINE m == f.manifest
             D == 1..Len(m)
             At(p) == {i \in D : m[i][1] = p}
  <1>1. m \in Seq(Purposes \X Nat) /\ Len(m) \in Nat /\ DOMAIN m = D
    BY DEF FilesOf
  <1>2. SectionIds(f) = [i \in D |-> m[i][1]] /\ DOMAIN SectionIds(f) = D
    BY <1>1 DEF SectionIds
  <1>3. \A i \in D : m[i][1] \in Purposes
    BY <1>1
  <1>4. \A p : Has(f, p) <=> \E i \in D : m[i][1] = p
    <2>1. ToSet(SectionIds(f)) = {m[i][1] : i \in D}
      BY <1>2 DEF ToSet
    <2> QED
      BY <2>1, Zenon DEF Has
  <1> HIDE DEF m
  <1>5. \A p : {i \in DOMAIN SectionIds(f) : SectionIds(f)[i] = p} = At(p)
    BY <1>2
  <1>6. /\ Cardinality(At("wallet")) = 1 /\ Cardinality(At("journal")) = 1
        /\ Cardinality(At("activity")) <= 1
    BY <1>5 DEF Cardinal
  <1>7. \A p : IsFiniteSet(At(p))
    <2>1. IsFiniteSet(D)
      BY <1>1, FS_Interval
    <2>2. \A p : At(p) \subseteq D
      OBVIOUS
    <2> HIDE DEF D, At
    <2> QED
      BY <2>1, <2>2, FS_Subset
  <1>8. ASSUME NEW p \in Purposes, NEW i \in At(p), NEW k \in At(p) PROVE i = k
    <2>1. IsFiniteSet(At(p)) /\ Cardinality(At(p)) \in Nat /\ Cardinality(At(p)) <= 1
      <3> HIDE DEF At
      <3>1. p = "wallet" \/ p = "journal" \/ p = "activity"
        BY <1>8 DEF Purposes
      <3>2. IsFiniteSet(At(p)) /\ Cardinality(At(p)) \in Nat
        BY <1>7, FS_CardinalityType
      <3>3. Cardinality(At(p)) = 1 \/ Cardinality(At(p)) <= 1
        BY <1>6, <3>1
      <3> QED
        BY <3>2, <3>3
    <2> HIDE DEF At
    <2>2. Cardinality(At(p)) # 0
      BY <1>8, <2>1, FS_EmptySet
    <2>3. Cardinality(At(p)) = 1
      BY <2>1, <2>2
    <2>4. \E x : At(p) = {x}
      BY <2>1, <2>3, FS_Singleton
    <2> QED
      BY <1>8, <2>4
  <1>9. ASSUME NEW p, Cardinality(At(p)) = 1 PROVE \E i \in D : m[i][1] = p
    <2> HIDE DEF At
    <2>1. At(p) # {}
      BY <1>9, FS_EmptySet
    <2> USE DEF At
    <2> QED
      BY <2>1
  <1>10. ASSUME NEW p, Has(f, p) PROVE SectionAt(f, p) \in D /\ m[SectionAt(f, p)][1] = p
    <2>1. \E i \in D : SectionIds(f)[i] = p
      BY <1>2, <1>4, <1>10
    <2>2. SectionAt(f, p) \in D /\ SectionIds(f)[SectionAt(f, p)] = p
      BY <1>1, <2>1 DEF SectionAt, m
    <2> QED
      BY <1>2, <2>2
  <1>11. ASSUME NEW i \in D, NEW k \in D, m[i][1] = m[k][1] PROVE i = k
    BY <1>3, <1>8, <1>11
  <1>12. Has(f, "wallet") /\ Has(f, "journal")
    BY <1>4, <1>6, <1>9
  <1> QED
    BY <1>4, <1>10, <1>11, <1>12 DEF m

\* The header, which the associated data of every section holds, is the same.
SameHeader(f, c) ==
    /\ f.prefix = c.prefix /\ f.wrap = c.wrap /\ f.name = c.name /\ f.saveId = c.saveId
    /\ f.counter = c.counter /\ f.manifest = c.manifest

\* What a section of a sealed container holds.
LEMMA SealedPayload ==
    ASSUME NEW S, NEW c \in FilesOf(S), NEW n, Whole(c, n), NEW p, Has(c, p)
    PROVE  /\ Payload(c, p) = <<n, p, c.manifest[SectionAt(c, p)][2]>>
  <1> DEFINE i == SectionAt(c, p)
             l == c.manifest[i][2]
             b == BodyOf(c, i)
  <1>1. Cardinal(SectionIds(c)) /\ ExtentsOk(c) /\ c.saveId = n
    BY DEF Whole
  <1>2. i \in 1..Len(c.manifest) /\ c.manifest[i][1] = p
    BY <1>1, SectionFacts
  <1> HIDE DEF i
  <1>3. Len(b) = l /\ l \in Nat /\ b[1] = c.body[Offset(c.manifest, i - 1) + 1] /\ l >= 1
    <2>1. l \in Nat /\ Len(b) = l /\ \A j \in 1..l : b[j] = c.body[Offset(c.manifest, i - 1) + j]
      BY <1>1, <1>2, BodyFacts
    <2>2. l >= 1
      BY <1>2 DEF Whole
    <2> HIDE DEF b, l
    <2>3. 1 \in 1..l
      BY <2>1, <2>2
    <2> QED
      BY <2>1, <2>2, <2>3
  <1>4. b[1].save = n
    <2>1. c.body[Offset(c.manifest, i - 1) + 1] = CellOf(c, i, 1)
      <3>1. 1 \in 1..l
        BY <1>3
      <3> QED
        BY <1>2, <3>1 DEF Whole
    <2>2. CellOf(c, i, 1).save = c.saveId
      BY DEF CellOf
    <2> HIDE DEF b
    <2> QED
      BY <1>1, <1>3, <2>1, <2>2
  <1> HIDE DEF b, l
  <1>5. Payload(c, p) = <<b[1].save, p, Len(b)>>
    BY DEF Payload, b, i
  <1> QED
    BY <1>3, <1>4, <1>5 DEF l, i

\* What opens one section of a file was sealed in the save the file names,
\* under the header the file has.
LEMMA OpenedSection ==
    ASSUME ContainerTypes, NEW f \in FilesOf(CellsOf(sealed)), NEW dek, NEW p, Has(f, p),
           ExtentsOk(f), Cardinal(SectionIds(f)), OpensBody(dek, f, SectionAt(f, p))
    PROVE  /\ f.saveId \in 1..Len(sealed) /\ SameHeader(f, sealed[f.saveId])
           /\ Has(sealed[f.saveId], p) /\ Payload(f, p) = Payload(sealed[f.saveId], p)
  <1> DEFINE C == CellsOf(sealed)
             i == SectionAt(f, p)
             b == BodyOf(f, i)
  <1>1. i \in 1..Len(f.manifest) /\ f.manifest[i][1] = p
    BY SectionFacts
  <1>2. SectionIds(f)[i] = p
    <2>1. f.manifest \in Seq(Purposes \X Nat)
      BY DEF FilesOf
    <2>2. DOMAIN f.manifest = 1..Len(f.manifest)
      BY <2>1
    <2> HIDE DEF i
    <2> QED
      BY <1>1, <2>2 DEF SectionIds
  <1> HIDE DEF i
  <1>3. b \in Seq(C) /\ Len(b) \in Nat
    <2>1. b \in Seq(C)
      BY <1>1, BodyFacts
    <2> HIDE DEF b, C
    <2> QED
      BY <2>1
  <1>4. /\ b # << >> /\ Len(b) = b[1].of
        /\ \A j \in DOMAIN b :
             b[j] = [dek |-> dek, purpose |-> p, aad |-> SectionAad(f, p),
                     save |-> b[1].save, cell |-> j, of |-> b[1].of]
    BY <1>2 DEF OpensBody, i, b
  <1>5. Payload(f, p) = <<b[1].save, p, Len(b)>>
    BY DEF Payload, b, i
  <1> HIDE DEF b
  <1>6. b[1] \in C /\ 1 \in DOMAIN b
    <2> HIDE DEF C
    <2>1. Len(b) # 0 /\ DOMAIN b = 1..Len(b)
      BY <1>3, <1>4
    <2> QED
      BY <1>3, <2>1
  <1>7. b[1].purpose = p /\ b[1].aad = SectionAad(f, p)
    BY <1>4, <1>6
  <1>8a. PICK n \in 1..Len(sealed) : \E k \in 1..Len(sealed[n].manifest) :
            \E j \in 1..sealed[n].manifest[k][2] : b[1] = CellOf(sealed[n], k, j)
    <2> DEFINE x == b[1]
    <2>1. x \in CellsOf(sealed)
      BY <1>6
    <2> HIDE DEF x
    <2>2. \E n \in 1..Len(sealed) : \E k \in 1..Len(sealed[n].manifest) :
             \E j \in 1..sealed[n].manifest[k][2] : x = CellOf(sealed[n], k, j)
      BY <2>1, CellFrom
    <2> QED
      BY <2>2 DEF x
  <1>8. PICK k \in 1..Len(sealed[n].manifest) : \E j : b[1] = CellOf(sealed[n], k, j)
    BY <1>8a
  <1> DEFINE c == sealed[n]
  <1>9. c \in FilesOf(C) /\ Whole(c, n)
    BY DEF ContainerTypes
  <1> HIDE DEF c, C
  <1>10. /\ b[1].purpose = c.manifest[k][1] /\ b[1].save = c.saveId /\ b[1].of = c.manifest[k][2]
         /\ b[1].aad = SectionAad(c, c.manifest[k][1])
    BY <1>8 DEF CellOf, c
  <1>11. SectionAad(f, p) = SectionAad(c, p) /\ c.manifest[k][1] = p
    BY <1>7, <1>10
  <1>12. SameHeader(f, c)
    BY <1>11 DEF SectionAad, SameHeader
  <1>13. f.saveId = n /\ c.saveId = n
    BY <1>9, <1>12 DEF Whole, SameHeader
  <1>14. Has(c, p) /\ k = SectionAt(c, p)
    <2>1. Cardinal(SectionIds(c)) /\ k \in 1..Len(c.manifest)
      BY <1>9 DEF Whole, c
    <2>2. Has(c, p)
      BY <1>9, <1>11, <2>1, SectionFacts
    <2>3. SectionAt(c, p) \in 1..Len(c.manifest) /\ c.manifest[SectionAt(c, p)][1] = p
      BY <1>9, <2>1, <2>2, SectionFacts
    <2> QED
      BY <1>9, <1>11, <2>1, <2>2, <2>3, SectionFacts
  <1>15. Payload(c, p) = <<n, p, c.manifest[k][2]>>
    BY <1>9, <1>14, SealedPayload
  <1>16. Payload(f, p) = Payload(c, p)
    BY <1>4, <1>5, <1>10, <1>13, <1>15
  <1> QED
    BY <1>12, <1>13, <1>14, <1>16 DEF c

\* The result r holds what the container c was sealed with.
Returns(r, c) ==
    /\ r.wallet = Payload(c, "wallet") /\ r.journal = Payload(c, "journal")
    /\ r.name = c.name /\ r.counter = c.counter
    /\ r.activity \in IF Has(c, "activity")
                        THEN {Payload(c, "activity"), "corrupt"} ELSE {"absent"}

\* What open_container_with returns was sealed.
LEMMA OpenWithSound ==
    ASSUME ContainerTypes, NEW f \in FilesOf(CellsOf(sealed)), NEW slot, OpenWith(f, slot).ok
    PROVE  /\ slot = <<f.prefix, f.wrap>> /\ IsContainerByHeader(f)
           /\ \E sv \in DOMAIN sealed : /\ sealed[sv].prefix = f.prefix
                                      /\ Returns(OpenWith(f, slot), sealed[sv])
  <1> DEFINE act == IF ~Has(f, "activity") THEN "absent"
                    ELSE IF OpensBody(slot[1], f, SectionAt(f, "activity"))
                           THEN Payload(f, "activity") ELSE "corrupt"
             res == [ok |-> TRUE, wallet |-> Payload(f, "wallet"),
                     journal |-> Payload(f, "journal"), activity |-> act,
                     name |-> f.name, counter |-> f.counter]
  <1>1. /\ HeaderOk(f) /\ <<f.prefix, f.wrap>> = slot
        /\ ExtentsOk(f) /\ Cardinal(SectionIds(f))
        /\ \A p \in {"wallet", "journal"} : OpensBody(slot[1], f, SectionAt(f, p))
        /\ OpenWith(f, slot) = res
    <2> USE DEF OpenWith
    <2>1. HeaderOk(f)
      OBVIOUS
    <2>2. <<f.prefix, f.wrap>> = slot
      BY <2>1
    <2>3. ExtentsOk(f) /\ Cardinal(SectionIds(f))
      BY <2>1, <2>2
    <2>4. \A p \in {"wallet", "journal"} : OpensBody(slot[1], f, SectionAt(f, p))
      BY <2>1, <2>2, <2>3
    <2> QED
      BY <2>1, <2>2, <2>3, <2>4
  <1>2. Has(f, "wallet") /\ Has(f, "journal")
    BY <1>1, SectionFacts
  <1>3. IsContainerByHeader(f)
    BY <1>1 DEF IsContainerByHeader, ExtentsOk
  <1> DEFINE n == f.saveId
             c == sealed[n]
  <1>4. /\ n \in 1..Len(sealed) /\ SameHeader(f, c)
        /\ Payload(f, "wallet") = Payload(c, "wallet")
        /\ Payload(f, "journal") = Payload(c, "journal")
    BY <1>1, <1>2, OpenedSection
  <1>5. Has(c, "activity") <=> Has(f, "activity")
    BY <1>4 DEF SameHeader, Has, SectionIds
  <1>6. act \in IF Has(c, "activity") THEN {Payload(c, "activity"), "corrupt"} ELSE {"absent"}
    <2>1. CASE Has(f, "activity") /\ OpensBody(slot[1], f, SectionAt(f, "activity"))
      <3>1. Payload(f, "activity") = Payload(c, "activity")
        BY <1>1, <2>1, OpenedSection
      <3> QED
        BY <1>5, <2>1, <3>1
    <2>2. CASE ~(Has(f, "activity") /\ OpensBody(slot[1], f, SectionAt(f, "activity")))
      BY <1>5, <2>2
    <2> QED
      BY <2>1, <2>2
  <1> HIDE DEF act
  <1>7. n \in DOMAIN sealed
    BY <1>4 DEF ContainerTypes
  <1>8. /\ OpenWith(f, slot).wallet = Payload(f, "wallet")
        /\ OpenWith(f, slot).journal = Payload(f, "journal")
        /\ OpenWith(f, slot).name = f.name /\ OpenWith(f, slot).counter = f.counter
        /\ OpenWith(f, slot).activity = act
    BY <1>1
  <1>9. c.prefix = f.prefix /\ c.name = f.name /\ c.counter = f.counter
    BY <1>4 DEF SameHeader
  <1>10. Returns(OpenWith(f, slot), c)
    BY <1>4, <1>6, <1>8, <1>9 DEF Returns
  <1> QED
    BY <1>1, <1>3, <1>7, <1>9, <1>10

-----------------------------------------------------------------------------
(* VaultContainer: every step keeps the invariant.                         *)

\* A sequence of sequences over S flattens to a sequence over S.
LEMMA FlattenType ==
    ASSUME NEW S, NEW qs \in Seq(Seq(S))
    PROVE  FlattenSeq(qs) \in Seq(S)
  <1> DEFINE N == Len(qs)
             m == [i \in 1..N |-> <<"wallet", Len(qs[i])>>]
             ends == [i \in 0..N |-> Offset(m, i)]
  <1>1. N \in Nat /\ \A i \in 1..N : qs[i] \in Seq(S)
    OBVIOUS
  <1>2. \A sv \in Seq(S) : Len(sv) \in Nat
    OBVIOUS
  <1>3. \A i \in 1..N : <<"wallet", Len(qs[i])>> \in Purposes \X Nat
    BY <1>1, <1>2 DEF Purposes
  <1>4. m \in Seq(Purposes \X Nat) /\ Len(m) = N /\ \A i \in 1..N : m[i][2] = Len(qs[i])
    BY <1>1, <1>3
  <1> HIDE DEF m
  <1>5. /\ Offset(m, 0) = 0 /\ \A i \in 0..N : Offset(m, i) \in Nat
        /\ \A i \in 1..N : Offset(m, i) = Offset(m, i - 1) + m[i][2]
    BY <1>4, OffsetFacts
  <1>6. ends \in [0..N -> Nat] /\ ends[0] = 0
    BY <1>1, <1>5
  <1>7. \A i \in 1..N : ends[i] = ends[i - 1] + Len(qs[i])
    <2>1. \A i \in 1..N : i \in 0..N /\ i - 1 \in 0..N
      BY <1>1
    <2> QED
      BY <1>4, <1>5, <2>1
  <1> HIDE DEF ends
  <1> QED
    BY <1>6, <1>7, FlattenFacts

\* A file is not the absence of one.
LEMMA FilesAreFiles ==
    ASSUME NEW S, NEW f \in FilesOf(S)
    PROVE  f # NoFile
  <1>1. "prefix" \in DOMAIN f /\ "prefix" \notin DOMAIN NoFile
    BY DEF FilesOf, NoFile
  <1> QED
    BY <1>1

\* What seal_container writes.
LEMMA SealedFacts ==
    ASSUME ContainerTypes, NEW k \in DOMAIN vaults, NEW counter \in 1..MaxCounter,
           NEW sections \in SectionLists, Cardinal([i \in DOMAIN sections |-> sections[i][1]])
    PROVE  LET c == SealedBy(k, counter, sections)
               C == CellsOf(Append(sealed, c))
           IN  c \in FilesOf(C) /\ Whole(c, Len(sealed) + 1) /\ CellsOf(sealed) \subseteq C
  <1> DEFINE N == Len(sections)
             M == [i \in DOMAIN sections |-> <<sections[i][1], FrameLen(sections[i][2])>>]
             head == [prefix |-> k, wrap |-> k, name |-> vaults[k].name,
                      saveId |-> Len(sealed) + 1, counter |-> counter,
                      manifest |-> M, body |-> << >>]
             qs == [i \in DOMAIN sections |-> SealBody(k, head, head.manifest[i])]
             c == SealedBy(k, counter, sections)
             C == CellsOf(Append(sealed, c))
             L == Len(sealed)
  <1>1. /\ sections \in Seq(Purposes \X Nat) /\ N \in Nat /\ DOMAIN sections = 1..N
        /\ \A i \in 1..N : sections[i][1] \in Purposes /\ sections[i][2] \in Nat
    BY ContainerAssumptions
  <1>2. /\ M \in Seq(Purposes \X Nat) /\ Len(M) = N /\ DOMAIN M = 1..N
        /\ \A i \in 1..N : M[i][1] = sections[i][1] /\ M[i][2] \in Nat /\ M[i][2] >= 1
    <2>1. \A i \in 1..N : <<sections[i][1], FrameLen(sections[i][2])>> \in Purposes \X Nat
      BY <1>1 DEF FrameLen
    <2>2. M = [i \in 1..N |-> <<sections[i][1], FrameLen(sections[i][2])>>]
      BY <1>1
    <2>3. M \in Seq(Purposes \X Nat) /\ Len(M) = N /\ DOMAIN M = 1..N
      <3> HIDE DEF M
      <3> QED
        BY <1>1, <2>1, <2>2
    <2>4. \A i \in 1..N : M[i][1] = sections[i][1] /\ M[i][2] = sections[i][2] + 1
      BY <1>1 DEF FrameLen
    <2> HIDE DEF M
    <2> QED
      BY <1>1, <2>3, <2>4
  <1>3. c = [head EXCEPT !.body = FlattenSeq(qs)]
    BY DEF SealedBy
  <1> HIDE DEF M, qs, c
  <1>4. /\ c.prefix = k /\ c.wrap = k /\ c.name = vaults[k].name /\ c.saveId = L + 1
        /\ c.counter = counter /\ c.manifest = M /\ c.body = FlattenSeq(qs)
        /\ c = [prefix |-> c.prefix, wrap |-> c.wrap, name |-> c.name, saveId |-> c.saveId,
                counter |-> c.counter, manifest |-> c.manifest, body |-> c.body]
    BY <1>3
  <1>5. DOMAIN qs = 1..N /\ \A i \in 1..N : qs[i] = [j \in 1..M[i][2] |-> CellOf(c, i, j)]
    <2>1. DOMAIN qs = 1..N /\ \A i \in 1..N : qs[i] = SealBody(k, head, M[i])
      BY <1>1 DEF qs
    <2>2. ASSUME NEW i \in 1..N PROVE SectionAad(head, M[i][1]) = SectionAad(c, M[i][1])
      BY <1>4 DEF SectionAad
    <2>3. ASSUME NEW i \in 1..N
          PROVE  SealBody(k, head, M[i]) = [j \in 1..M[i][2] |-> CellOf(c, i, j)]
      BY <1>4, <2>2 DEF SealBody, CellOf
    <2> QED
      BY <2>1, <2>3
  <1>6. /\ L \in Nat /\ Len(Append(sealed, c)) = L + 1 /\ Append(sealed, c)[L + 1] = c
        /\ \A n \in 1..L : Append(sealed, c)[n] = sealed[n]
    <2>1. sealed \in Seq(FilesOf(CellsOf(sealed)))
      BY DEF ContainerTypes
    <2> DEFINE F == FilesOf(CellsOf(sealed))
    <2> HIDE DEF F
    <2>2. sealed \in Seq(F)
      BY <2>1 DEF F
    <2> QED
      BY <2>2
  <1>7. CellsOf(sealed) \subseteq C
    <2>1. ASSUME NEW x \in CellsOf(sealed) PROVE x \in C
      <3>1. PICK n \in 1..L : \E i \in 1..Len(sealed[n].manifest) :
                \E j \in 1..sealed[n].manifest[i][2] : x = CellOf(sealed[n], i, j)
        BY <2>1, CellFrom
      <3>2. n \in 1..Len(Append(sealed, c)) /\ Append(sealed, c)[n] = sealed[n]
        BY <1>6
      <3> DEFINE a == Append(sealed, c)
      <3> HIDE DEF a
      <3>3. PICK i \in 1..Len(a[n].manifest) :
                \E j \in 1..a[n].manifest[i][2] : x = CellOf(a[n], i, j)
        BY <3>1, <3>2 DEF a
      <3>4. x \in CellsOf(a)
        BY <3>2, <3>3, CellIn DEF a
      <3> QED
        BY <3>4 DEF a
    <2> QED
      BY <2>1
  <1>8. \A i \in 1..N : \A j \in 1..M[i][2] : CellOf(c, i, j) \in C
    <2>1. L + 1 \in 1..(L + 1)
      BY <1>6
    <2>2. c.manifest = M /\ Len(M) = N
      BY <1>2, <1>4
    <2> QED
      BY <1>6, <2>1, <2>2, CellIn
  <1> HIDE DEF C
  <1>9. qs \in Seq(Seq(C)) /\ Len(qs) = N /\ \A i \in 1..N : Len(qs[i]) = M[i][2]
    <2>1. \A i \in 1..N : qs[i] \in Seq(C) /\ Len(qs[i]) = M[i][2]
      <3> SUFFICES ASSUME NEW i \in 1..N PROVE qs[i] \in Seq(C) /\ Len(qs[i]) = M[i][2]
        OBVIOUS
      <3> DEFINE l == M[i][2]
                 g(j) == CellOf(c, i, j)
      <3>1. qs[i] = [j \in 1..l |-> g(j)] /\ l \in Nat /\ \A j \in 1..l : g(j) \in C
        BY <1>2, <1>5, <1>8
      <3> HIDE DEF l, g
      <3>2. qs[i] \in Seq(C) /\ Len(qs[i]) = l
        BY <3>1
      <3> QED
        BY <3>2 DEF l
    <2>2. qs = [i \in 1..N |-> qs[i]]
      BY <1>5 DEF qs
    <2>3. qs \in [1..N -> Seq(C)]
      BY <2>1, <2>2
    <2> QED
      BY <1>1, <2>1, <2>3
  <1> DEFINE ends == [i \in 0..N |-> Offset(M, i)]
  <1>10. /\ ends \in [0..N -> Nat] /\ ends[0] = 0
         /\ \A i \in 1..N : ends[i] = ends[i - 1] + Len(qs[i])
         /\ ends[N] = Total(M)
    <2>1. /\ Offset(M, 0) = 0 /\ \A i \in 0..N : Offset(M, i) \in Nat
          /\ \A i \in 1..N : Offset(M, i) = Offset(M, i - 1) + M[i][2]
      BY <1>2, OffsetFacts
    <2>2. \A i \in 1..N : i \in 0..N /\ i - 1 \in 0..N
      BY <1>1
    <2>3. ends \in [0..N -> Nat] /\ ends[0] = 0 /\ N \in 0..N
      BY <1>1, <2>1
    <2>4. \A i \in 1..N : ends[i] = ends[i - 1] + Len(qs[i])
      BY <1>9, <2>1, <2>2
    <2>5. ends[N] = Total(M)
      BY <1>2, <2>3 DEF Total
    <2> QED
      BY <2>3, <2>4, <2>5
  <1>11. /\ FlattenSeq(qs) \in Seq(C) /\ Len(FlattenSeq(qs)) = Total(M)
         /\ \A i \in 1..N : \A j \in 1..M[i][2] : FlattenSeq(qs)[ends[i - 1] + j] = qs[i][j]
    <2> HIDE DEF ends
    <2>0. /\ qs \in Seq(Seq(C)) /\ ends \in [0..Len(qs) -> Nat] /\ ends[0] = 0
          /\ \A i \in 1..Len(qs) : ends[i] = ends[i - 1] + Len(qs[i])
      BY <1>9, <1>10, Zenon
    <2>1. /\ FlattenSeq(qs) \in Seq(C) /\ Len(FlattenSeq(qs)) = ends[Len(qs)]
          /\ \A i \in 1..Len(qs) : \A j \in 1..Len(qs[i]) : FlattenSeq(qs)[ends[i - 1] + j] = qs[i][j]
      BY <2>0, FlattenFacts, ZenonT(40)
    <2> QED
      BY <1>9, <1>10, <2>1
  <1>12. c \in FilesOf(C)
    <2>1. k \in Nat /\ vaults[k].name \in Name /\ counter \in Nat /\ L + 1 \in Nat
      <3>1. vaults \in Seq([pw : Password, name : Name])
        BY DEF ContainerTypes
      <3> DEFINE V == [pw : Password, name : Name]
      <3>2. k \in Nat /\ vaults[k] \in V
        <4> HIDE DEF V
        <4>1. vaults \in Seq(V)
          BY <3>1 DEF V
        <4>2. DOMAIN vaults = 1..Len(vaults) /\ Len(vaults) \in Nat
          BY <4>1
        <4> QED
          BY <4>1, <4>2
      <3>3. counter \in Nat
        <4>1. MaxCounter \in Nat
          BY ContainerAssumptions
        <4> QED
          BY <4>1
      <3> QED
        BY <1>6, <3>2, <3>3
    <2>2. /\ c.prefix \in Nat /\ c.wrap \in Nat /\ c.name \in Name \cup {BadName}
          /\ c.saveId \in Nat /\ c.counter \in Nat
          /\ c.manifest \in Seq(Purposes \X Nat) /\ c.body \in Seq(C)
      BY <1>2, <1>4, <1>11, <2>1
    <2> QED
      BY <1>4, <2>2 DEF FilesOf
  <1>13. Whole(c, L + 1)
    <2>1. SectionIds(c) = [i \in DOMAIN sections |-> sections[i][1]]
      BY <1>1, <1>2, <1>4 DEF SectionIds
    <2>2. ExtentsOk(c)
      BY <1>4, <1>11 DEF ExtentsOk
    <2>3. ASSUME NEW i \in 1..N, NEW j \in 1..M[i][2]
          PROVE  c.body[Offset(M, i - 1) + j] = CellOf(c, i, j)
      <3>1. ends[i - 1] = Offset(M, i - 1)
        BY <1>1
      <3>2. qs[i][j] = CellOf(c, i, j)
        BY <1>5
      <3> HIDE DEF ends
      <3> QED
        BY <1>4, <1>11, <3>1, <3>2
    <2> QED
      BY <1>2, <1>4, <2>1, <2>2, <2>3 DEF Whole
  <1> QED
    BY <1>7, <1>12, <1>13 DEF c, C

\* The file is another one, or a damaged one, made of cells that were sealed.
LEMMA NewFile ==
    ASSUME ContainerInv, file' \in FilesOf(CellsOf(sealed)), opened' = NoResult,
           UNCHANGED <<vaults, sealed, cached, tried>>
    PROVE  ContainerInv'
  <1>1. file' # NoFile
    BY FilesAreFiles
  <1>2. ContainerTypes'
    <2> DEFINE C == CellsOf(sealed)
    <2>1. C' = C
      BY CellsNext DEF C
    <2> HIDE DEF C
    <2>2. vaults' \in Seq([pw : Password, name : Name]) /\ sealed' \in Seq(FilesOf(C'))
          /\ file' \in FilesOf(C') \cup {NoFile}
      BY <2>1 DEF ContainerInv, ContainerTypes, C
    <2>3. \A n \in 1..Len(sealed') : Whole(sealed'[n], n)
      BY DEF ContainerInv, ContainerTypes
    <2> QED
      BY <2>2, <2>3 DEF ContainerTypes, C
  <1>3. KeptSlots'
    BY <1>1 DEF ContainerInv, KeptSlots
  <1>4. OpensWhatWasSealed'
    BY DEF OpensWhatWasSealed, NoResult
  <1> QED
    BY <1>2, <1>3, <1>4 DEF ContainerInv

\* The same of one that Damaged leaves.
LEMMA DamagedKeeps ==
    ASSUME ContainerInv, NEW f \in FilesOf(CellsOf(sealed)), Damaged(f)
    PROVE  ContainerInv'
  BY NewFile DEF Damaged

\* A new vault changes no file.
LEMMA CreateKeeps ==
    ASSUME ContainerInv, NEW pw \in Password, NEW name \in Name \cup {BadName}, Create(pw, name)
    PROVE  ContainerInv'
  <1>1. /\ file = NoFile /\ name \in Name /\ vaults' = Append(vaults, [pw |-> pw, name |-> name])
        /\ UNCHANGED <<sealed, file, damage, cached, tried, opened>>
    BY DEF Create
  <1>2. cached = {} /\ opened = NoResult
    BY <1>1 DEF ContainerInv, KeptSlots
  <1>3. ContainerTypes'
    <2> DEFINE C == CellsOf(sealed)
               V == [pw : Password, name : Name]
    <2>1. C' = C
      BY <1>1, CellsNext DEF C
    <2>2. [pw |-> pw, name |-> name] \in V
      BY <1>1
    <2> HIDE DEF C, V
    <2>3. vaults \in Seq(V)
      BY DEF ContainerInv, ContainerTypes, V
    <2>4. vaults' \in Seq(V)
      BY <1>1, <2>2, <2>3, AppendProperties
    <2>5. sealed' \in Seq(FilesOf(C')) /\ file' \in FilesOf(C') \cup {NoFile}
      BY <1>1, <2>1 DEF ContainerInv, ContainerTypes, C
    <2>6. \A n \in 1..Len(sealed') : Whole(sealed'[n], n)
      BY <1>1 DEF ContainerInv, ContainerTypes
    <2> QED
      BY <2>4, <2>5, <2>6 DEF ContainerTypes, C, V
  <1>4. KeptSlots'
    BY <1>1, <1>2 DEF KeptSlots
  <1>5. OpensWhatWasSealed'
    BY <1>1, <1>2 DEF OpensWhatWasSealed, NoResult
  <1> QED
    BY <1>3, <1>4, <1>5 DEF ContainerInv

\* A save adds its cells to those that were sealed.
LEMMA SealKeeps ==
    ASSUME ContainerInv, NEW k \in DOMAIN vaults, NEW counter \in 1..MaxCounter,
           NEW sections \in SectionLists, Seal(k, counter, sections)
    PROVE  ContainerInv'
  <1> DEFINE c == SealedBy(k, counter, sections)
             C == CellsOf(Append(sealed, c))
             F == FilesOf(C)
             L == Len(sealed)
  <1>1. /\ file = NoFile /\ Cardinal([i \in DOMAIN sections |-> sections[i][1]])
        /\ sealed' = Append(sealed, c)
        /\ UNCHANGED <<vaults, file, damage, cached, tried, opened>>
    BY DEF Seal
  <1>2. cached = {} /\ opened = NoResult
    BY <1>1 DEF ContainerInv, KeptSlots
  <1>3. c \in F /\ Whole(c, L + 1) /\ CellsOf(sealed) \subseteq C
    BY <1>1, SealedFacts DEF ContainerInv
  <1>4. FilesOf(CellsOf(sealed)) \subseteq F
    <2>1. Seq(CellsOf(sealed)) \subseteq Seq(C)
      BY <1>3, SeqMonotonic
    <2> HIDE DEF C
    <2> QED
      BY <2>1 DEF FilesOf
  <1>5. sealed \in Seq(F)
    <2>1. sealed \in Seq(FilesOf(CellsOf(sealed)))
      BY DEF ContainerInv, ContainerTypes
    <2> QED
      BY <1>4, <2>1, SeqMonotonic
  <1>6. CellsOf(sealed)' = C
    BY <1>1, CellsNext
  <1>7. sealed' \in Seq(F) /\ Len(sealed') = L + 1 /\ L \in Nat /\ sealed'[L + 1] = c
        /\ \A n \in 1..L : sealed'[n] = sealed[n]
    <2> HIDE DEF F, c
    <2> QED
      BY <1>1, <1>3, <1>5, AppendProperties
  <1>8. \A n \in 1..Len(sealed') : Whole(sealed'[n], n)
    <2> SUFFICES ASSUME NEW n \in 1..Len(sealed') PROVE Whole(sealed'[n], n)
      OBVIOUS
    <2> HIDE DEF F, c, C
    <2>1. CASE n = L + 1
      BY <1>3, <1>7, <2>1
    <2>2. CASE n \in 1..L
      BY <1>7, <2>2 DEF ContainerInv, ContainerTypes
    <2> QED
      BY <1>7, <2>1, <2>2
  <1>9. ContainerTypes'
    <2> HIDE DEF C, c
    <2>1. vaults' \in Seq([pw : Password, name : Name])
      BY <1>1 DEF ContainerInv, ContainerTypes
    <2> QED
      BY <1>1, <1>6, <1>7, <1>8, <2>1 DEF ContainerTypes
  <1>10. KeptSlots'
    BY <1>1, <1>2 DEF KeptSlots
  <1>11. OpensWhatWasSealed'
    BY <1>1, <1>2 DEF OpensWhatWasSealed, NoResult
  <1> QED
    BY <1>9, <1>10, <1>11 DEF ContainerInv

\* The next candidate is a sealed container.
LEMMA CandidateKeeps ==
    ASSUME ContainerInv, NEW sv \in DOMAIN sealed, Candidate(sv)
    PROVE  ContainerInv'
  <1> DEFINE F == FilesOf(CellsOf(sealed))
  <1>1. sealed \in Seq(F)
    BY DEF ContainerInv, ContainerTypes
  <1>2. sealed[sv] \in F
    <2> HIDE DEF F
    <2> QED
      BY <1>1
  <1> QED
    BY <1>2, NewFile DEF Candidate

\* A field of another container has the type of the one it replaces.
LEMMA SpliceKeeps ==
    ASSUME ContainerInv, file # NoFile, NEW sv \in DOMAIN sealed, Splice(sv)
    PROVE  ContainerInv'
  <1> DEFINE F == FilesOf(CellsOf(sealed))
             c == sealed[sv]
  <1>1. sealed \in Seq(F) /\ file \in F
    BY DEF ContainerInv, ContainerTypes
  <1>2. c \in F
    <2> HIDE DEF F
    <2> QED
      BY <1>1
  <1>3. PICK part \in {"prefix", "wrap", "name", "saveId", "counter", "manifest", "body"} :
          Damaged([file EXCEPT ![part] = c[part]])
    BY DEF Splice
  <1> HIDE DEF c
  <1>4. [file EXCEPT ![part] = c[part]] \in F
    <2> DEFINE C == CellsOf(sealed)
    <2> HIDE DEF C
    <2>1. file \in FilesOf(C) /\ c \in FilesOf(C)
      BY <1>1, <1>2 DEF C
    <2>2. [file EXCEPT ![part] = c[part]] \in FilesOf(C)
      <3>1. CASE part = "prefix"
        BY <2>1, <3>1 DEF FilesOf
      <3>2. CASE part = "wrap"
        BY <2>1, <3>2 DEF FilesOf
      <3>3. CASE part = "name"
        BY <2>1, <3>3 DEF FilesOf
      <3>4. CASE part = "saveId"
        BY <2>1, <3>4 DEF FilesOf
      <3>5. CASE part = "counter"
        BY <2>1, <3>5 DEF FilesOf
      <3>6. CASE part = "manifest"
        BY <2>1, <3>6 DEF FilesOf
      <3>7. CASE part = "body"
        BY <2>1, <3>7 DEF FilesOf
      <3> QED
        BY <3>1, <3>2, <3>3, <3>4, <3>5, <3>6, <3>7
    <2> QED
      BY <2>2 DEF C
  <1> QED
    BY <1>3, <1>4, DamagedKeeps

\* A file with other cells that were sealed is still made of those.
LEMMA OtherBody ==
    ASSUME NEW S, NEW f \in FilesOf(S), NEW b \in Seq(S)
    PROVE  [f EXCEPT !.body = b] \in FilesOf(S)
  BY DEF FilesOf

\* A section of another container brings cells that were sealed.
LEMMA SpliceSectionKeeps ==
    ASSUME ContainerInv, file # NoFile, NEW sv \in DOMAIN sealed, SpliceSection(sv)
    PROVE  ContainerInv'
  <1> DEFINE C == CellsOf(sealed)
             F == FilesOf(C)
             c == sealed[sv]
             N == Len(file.manifest)
  <1>1. sealed \in Seq(F) /\ file \in F /\ ExtentsOk(file)
    BY DEF ContainerInv, ContainerTypes, SpliceSection
  <1>2. c \in F /\ sv \in 1..Len(sealed)
    <2> HIDE DEF F
    <2> QED
      BY <1>1
  <1>3. ExtentsOk(c)
    BY <1>2 DEF ContainerInv, ContainerTypes, Whole
  <1>4. /\ N \in Nat /\ DOMAIN file.manifest = 1..N
        /\ DOMAIN c.manifest = 1..Len(c.manifest)
    <2>1. file.manifest \in Seq(Purposes \X Nat) /\ c.manifest \in Seq(Purposes \X Nat)
      BY <1>1, <1>2 DEF FilesOf
    <2> HIDE DEF c
    <2> QED
      BY <2>1
  <1>5. PICK i \in 1..N, j \in 1..Len(c.manifest) :
          Damaged([file EXCEPT !.body =
             FlattenSeq([n \in 1..N |-> IF n = i THEN BodyOf(c, j) ELSE BodyOf(file, n)])])
    BY <1>4 DEF SpliceSection
  <1> HIDE DEF c, C
  <1> DEFINE part(n) == IF n = i THEN BodyOf(c, j) ELSE BodyOf(file, n)
             qs == [n \in 1..N |-> part(n)]
  <1>6. \A n \in 1..N : part(n) \in Seq(C)
    BY <1>1, <1>2, <1>3, BodyFacts
  <1> HIDE DEF part
  <1>7. qs \in Seq(Seq(C))
    BY <1>4, <1>6
  <1> HIDE DEF qs
  <1>8. FlattenSeq(qs) \in Seq(C)
    BY <1>7, FlattenType
  <1>9. [file EXCEPT !.body = FlattenSeq(qs)] \in F
    BY <1>1, <1>8, OtherBody
  <1>10. Damaged([file EXCEPT !.body = FlattenSeq(qs)])
    BY <1>5 DEF qs, part
  <1> QED
    BY <1>9, <1>10, DamagedKeeps DEF C

\* A file cut short, padded or with an invalid header has no new cells.
LEMMA MangleKeeps ==
    ASSUME ContainerInv, file # NoFile, Mangle
    PROVE  ContainerInv'
  <1> DEFINE C == CellsOf(sealed)
             b == file.body
  <1>1. file \in FilesOf(C)
    BY DEF ContainerInv, ContainerTypes
  <1> HIDE DEF C
  <1>2. b \in Seq(C) /\ Len(b) \in Nat /\ \A n \in 1..Len(b) : b[n] \in C
    BY <1>1 DEF FilesOf
  <1>3. ASSUME NEW n \in 0..Len(b), Damaged([file EXCEPT !.body = SubSeq(@, 1, n)])
        PROVE  ContainerInv'
    <2> HIDE DEF b
    <2>1. \A j \in 1..n : b[j] \in C
      BY <1>2, <1>3
    <2>2. SubSeq(b, 1, n) \in Seq(C)
      <3>1. 1 \in Int /\ n \in Int
        BY <1>2, <1>3
      <3> QED
        BY <2>1, <3>1, SubSeqProperties
    <2>3. [file EXCEPT !.body = SubSeq(b, 1, n)] \in FilesOf(C)
      BY <1>1, <2>2, OtherBody
    <2>4. Damaged([file EXCEPT !.body = SubSeq(b, 1, n)])
      BY <1>3 DEF b
    <2> QED
      BY <2>3, <2>4, DamagedKeeps DEF C
  <1>4. ASSUME b # << >>, Damaged([file EXCEPT !.body = Append(@, @[1])])
        PROVE  ContainerInv'
    <2> HIDE DEF b
    <2>1. b[1] \in C
      BY <1>2, <1>4
    <2>2. Append(b, b[1]) \in Seq(C)
      BY <1>2, <2>1, AppendProperties
    <2>3. [file EXCEPT !.body = Append(b, b[1])] \in FilesOf(C)
      BY <1>1, <2>2, OtherBody
    <2>4. Damaged([file EXCEPT !.body = Append(b, b[1])])
      BY <1>4 DEF b
    <2> QED
      BY <2>3, <2>4, DamagedKeeps DEF C
  <1>5. [file EXCEPT !.prefix = Garbage] \in FilesOf(C)
    BY <1>1 DEF FilesOf, Garbage
  <1>6. [file EXCEPT !.name = BadName] \in FilesOf(C)
    BY <1>1 DEF FilesOf
  <1>7. CASE Damaged([file EXCEPT !.prefix = Garbage])
    BY <1>5, <1>7, DamagedKeeps DEF C
  <1>8. CASE Damaged([file EXCEPT !.name = BadName])
    BY <1>6, <1>8, DamagedKeeps DEF C
  <1> QED
    BY <1>3, <1>4, <1>7, <1>8 DEF Mangle

\* Opening changes no file.
LEMMA TypesStay ==
    ASSUME ContainerTypes, UNCHANGED <<vaults, sealed, file>>
    PROVE  ContainerTypes'
  <1> DEFINE C == CellsOf(sealed)
  <1>1. C' = C
    BY CellsNext DEF C
  <1> HIDE DEF C
  <1>2. vaults' \in Seq([pw : Password, name : Name]) /\ sealed' \in Seq(FilesOf(C'))
        /\ file' \in FilesOf(C') \cup {NoFile}
    BY <1>1 DEF ContainerTypes, C
  <1>3. \A n \in 1..Len(sealed') : Whole(sealed'[n], n)
    BY DEF ContainerTypes
  <1> QED
    BY <1>2, <1>3 DEF ContainerTypes, C

\* What an unlock makes of a candidate was sealed under the password it tries.
LEMMA OpenKeeps ==
    ASSUME ContainerInv, NEW pw \in Password, OpenFile(pw)
    PROVE  ContainerInv'
  <1> DEFINE r == OpenCandidateReusing(file, pw)
  <1>1. /\ file # NoFile /\ opened = NoResult /\ tried \in {NoTry, pw}
        /\ opened' = r.r /\ cached' = r.slots /\ tried' = pw
        /\ UNCHANGED <<vaults, sealed, file, damage>>
    BY DEF OpenFile
  <1>2. file \in FilesOf(CellsOf(sealed)) /\ ContainerTypes
    BY <1>1 DEF ContainerInv, ContainerTypes
  <1>3. \A sv \in cached : vaults[sv[1]].pw = pw
    BY <1>1 DEF ContainerInv, KeptSlots
  <1>4. pw # NoTry
    BY ContainerAssumptions
  <1>5. ContainerTypes'
    BY <1>1, <1>2, TypesStay
  <1>6. \A sv \in r.slots : vaults[sv[1]].pw = pw
    <2>1. r.slots \in {cached, cached \cup {<<file.prefix, file.wrap>>}}
      BY DEF OpenCandidateReusing
    <2>2. CASE r.slots = cached
      BY <1>3, <2>2
    <2>3. CASE r.slots # cached
      <3>1. OpensKeyslot(file, pw)
        BY <2>3 DEF OpenCandidateReusing
      <3>2. vaults[file.prefix].pw = pw /\ r.slots = cached \cup {<<file.prefix, file.wrap>>}
        BY <2>1, <2>3, <3>1 DEF OpensKeyslot
      <3> HIDE DEF r
      <3> QED
        BY <1>3, <3>2
    <2> QED
      BY <2>2, <2>3
  <1>7. ASSUME r.r.ok
        PROVE  \E slot : OpenWith(file, slot) = r.r /\ vaults[slot[1]].pw = pw
    <2>1. CASE CachedSlots(file) # {}
      <3> DEFINE slot == CHOOSE sv \in CachedSlots(file) : TRUE
      <3>1. slot \in CachedSlots(file) /\ r.r = OpenWith(file, slot)
        BY <2>1 DEF OpenCandidateReusing
      <3> HIDE DEF slot, r
      <3>2. slot \in cached
        BY <3>1 DEF CachedSlots
      <3> QED
        BY <1>3, <3>1, <3>2
    <2>2. CASE CachedSlots(file) = {}
      <3>1. OpensKeyslot(file, pw)
        BY <1>7, <2>2 DEF OpenCandidateReusing, NoResult
      <3>2. r.r = OpenWith(file, <<file.prefix, file.wrap>>)
        BY <2>2, <3>1 DEF OpenCandidateReusing
      <3>3. vaults[<<file.prefix, file.wrap>>[1]].pw = pw
        BY <3>1 DEF OpensKeyslot
      <3> HIDE DEF r
      <3> QED
        BY <3>2, <3>3
    <2> QED
      BY <2>1, <2>2
  <1> HIDE DEF r
  <1>8. KeptSlots'
    BY <1>1, <1>4, <1>6 DEF KeptSlots
  <1>9. OpensWhatWasSealed'
    <2> SUFFICES ASSUME r.r.ok PROVE OpensWhatWasSealed'
      BY <1>1 DEF OpensWhatWasSealed
    <2>1. PICK slot : OpenWith(file, slot) = r.r /\ vaults[slot[1]].pw = pw
      BY <1>7
    <2>2. /\ slot = <<file.prefix, file.wrap>> /\ IsContainerByHeader(file)
          /\ \E sv \in DOMAIN sealed : /\ sealed[sv].prefix = file.prefix
                                     /\ Returns(OpenWith(file, slot), sealed[sv])
      BY <1>2, <2>1, OpenWithSound
    <2>3. PICK sv \in DOMAIN sealed : sealed[sv].prefix = file.prefix /\ Returns(r.r, sealed[sv])
      BY <2>1, <2>2
    <2>4. opened' = r.r /\ tried' = pw /\ UNCHANGED <<vaults, sealed, file>>
      BY <1>1
    <2>5. vaults'[sealed'[sv].prefix].pw = tried' /\ sv \in DOMAIN sealed'
      BY <2>1, <2>2, <2>3, <2>4
    <2>6. Returns(opened', sealed'[sv]) /\ IsContainerByHeader(file')
      BY <2>2, <2>3, <2>4
    <2> QED
      BY <2>5, <2>6 DEF OpensWhatWasSealed, Returns
  <1> QED
    BY <1>5, <1>8, <1>9 DEF ContainerInv

\* The invariant of the container holds at the start.
LEMMA ContainerInitOK == ContainerInit => ContainerInv
  <1> SUFFICES ASSUME ContainerInit PROVE ContainerInv
    OBVIOUS
  <1>1. /\ vaults = << >> /\ sealed = << >> /\ file = NoFile /\ cached = {} /\ opened = NoResult
    BY DEF ContainerInit
  <1>2. ContainerTypes
    <2> DEFINE F == FilesOf(CellsOf(sealed))
               V == [pw : Password, name : Name]
    <2> HIDE DEF F, V
    <2>1. vaults \in Seq(V) /\ sealed \in Seq(F) /\ 1..Len(sealed) = {}
      BY <1>1
    <2> QED
      BY <1>1, <2>1 DEF ContainerTypes, F, V
  <1> QED
    BY <1>1, <1>2 DEF ContainerInv, KeptSlots, OpensWhatWasSealed, NoResult

\* Every step keeps the invariant of the container.
LEMMA ContainerNextOK == ContainerInv /\ [ContainerNext]_containerVars => ContainerInv'
  <1> SUFFICES ASSUME ContainerInv, [ContainerNext]_containerVars PROVE ContainerInv'
    OBVIOUS
  <1>1. CASE \E pw \in Password, name \in Name \cup {BadName} : Create(pw, name)
    BY <1>1, CreateKeeps
  <1>2. CASE \E k \in DOMAIN vaults, c \in 1..MaxCounter, l \in SectionLists : Seal(k, c, l)
    BY <1>2, SealKeeps
  <1>3. CASE \E sv \in DOMAIN sealed : Candidate(sv)
    BY <1>3, CandidateKeeps
  <1>4. CASE file # NoFile /\ \E sv \in DOMAIN sealed : Splice(sv) \/ SpliceSection(sv)
    BY <1>4, SpliceKeeps, SpliceSectionKeeps
  <1>5. CASE file # NoFile /\ Mangle
    BY <1>5, MangleKeeps
  <1>6. CASE \E pw \in Password : OpenFile(pw)
    BY <1>6, OpenKeeps
  <1>7. CASE UNCHANGED containerVars
    <2>1. UNCHANGED <<vaults, sealed, file, cached, tried, opened>>
      BY <1>7 DEF containerVars
    <2>2. ContainerTypes'
      BY <2>1, TypesStay DEF ContainerInv
    <2>3. KeptSlots'
      BY <2>1 DEF ContainerInv, KeptSlots
    <2>4. OpensWhatWasSealed'
      BY <2>1 DEF ContainerInv, OpensWhatWasSealed
    <2> QED
      BY <2>2, <2>3, <2>4 DEF ContainerInv
  <1> QED
    BY <1>1, <1>2, <1>3, <1>4, <1>5, <1>6, <1>7 DEF ContainerNext

(* Whatever is done to the files, open_container_with and the unlock that  *)
(* tries one candidate after another return only what one save sealed      *)
(* under the password given, and the listing counts the file as a wallet:  *)
(* for any passwords, section lists, number of vaults and saves, and any   *)
(* amount of damage.                                                       *)
THEOREM ContainerOpensSealed == ContainerSpec => []OpensWhatWasSealed
  <1>1. ContainerInv => OpensWhatWasSealed
    BY DEF ContainerInv
  <1> QED
    BY <1>1, ContainerInitOK, ContainerNextOK, PTL DEF ContainerSpec
=============================================================================
