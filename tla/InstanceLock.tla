---------------------------- MODULE InstanceLock ----------------------------
(***************************************************************************)
(* One wallet process per folder: the lock file that is created, locked,   *)
(* checked and stamped at startup, the probe of the folder that follows,   *)
(* and the shutdown that saves, unlinks the lock file and closes it, while *)
(* other processes start, stop or die at any point.                        *)
(* cc-wallet-storage: paths.rs; cc-wallet-app: controller/mod.rs           *)
(* (from_startup_cwd, shutdown, Drop), save.rs.                            *)
(*                                                                         *)
(* External: the file system (a path names an inode, an advisory lock      *)
(* belongs to an open file and goes with it).  Only wallet processes touch *)
(* the lock file, and no process runs twice.                               *)
(***************************************************************************)
EXTENDS Naturals

CONSTANTS
    Proc,       \* processes started in the folder
    MaxInode,   \* bound: lock files created
    MaxWrites   \* bound: saves of a process

ASSUME Bounds == MaxInode \in Nat /\ MaxWrites \in Nat

Nobody == "-"
ASSUME NobodyIsNoProcess == Nobody \notin Proc

Inode == 1..MaxInode

VARIABLES
    path,      \* the inode named LOCK_FILE, 0 if there is none
    last,      \* inodes used so far
    lock,      \* the process that has each inode locked
    record,    \* the owner record in each inode
    pc,        \* where each process is
    ino,       \* the inode of its open lock file, 0 if closed
    app,       \* its controller: whether it runs, has unsaved changes, a healthy writer
    wrote,     \* saves of each process
    residue,   \* probe files in the folder, by the process that made them
    excused    \* processes whose probe reported a failed cleanup

vars == <<path, last, lock, record, pc, ino, app, wrote, residue, excused>>

Probing == {"acquired", "created", "renamed", "unlinked"}
\* acquire_single_instance_lock has returned Acquired, the lock is not released.
Holding == Probing \cup {"running", "releasing"}
\* The lock file was seen to be the one this process has locked.
Validated == Holding \cup {"checked", "truncated", "written", "rechecked"}
Locked == Validated \cup {"locked", "removed"}
Pcs == Locked \cup {"start", "opened", "closing", "ended"}

NoApp == [runs |-> FALSE, dirty |-> FALSE, healthy |-> FALSE]
Apps == [runs : BOOLEAN, dirty : BOOLEAN, healthy : BOOLEAN]

\* Types.
TypeOK ==
    /\ path \in 0..MaxInode /\ last \in 0..MaxInode
    /\ lock \in [Inode -> Proc \cup {Nobody}] /\ record \in [Inode -> Proc \cup {Nobody}]
    /\ pc \in [Proc -> Pcs] /\ ino \in [Proc -> 0..MaxInode]
    /\ app \in [Proc -> Apps] /\ wrote \in [Proc -> 0..MaxWrites]
    /\ residue \subseteq Proc \X {"written", "renamed"} /\ excused \subseteq Proc

Init ==
    /\ path = 0 /\ last = 0
    /\ lock = [i \in Inode |-> Nobody] /\ record = [i \in Inode |-> Nobody]
    /\ pc = [p \in Proc |-> "start"] /\ ino = [p \in Proc |-> 0]
    /\ app = [p \in Proc |-> NoApp] /\ wrote = [p \in Proc |-> 0]
    /\ residue = {} /\ excused = {}

GoTo(p, there) == pc' = [pc EXCEPT ![p] = there]

\* A file that is closed is no longer locked.
Closed(p) ==
    /\ ino' = [ino EXCEPT ![p] = 0]
    /\ lock' = [i \in Inode |-> IF lock[i] = p THEN Nobody ELSE lock[i]]

-----------------------------------------------------------------------------
(* acquire_single_instance_lock                                            *)

\* open with create: the file that is there, or a new one.
Open(p) ==
    /\ pc[p] = "start"
    /\ \/ /\ path # 0 /\ ino' = [ino EXCEPT ![p] = path] /\ UNCHANGED <<path, last>>
       \/ /\ path = 0 /\ last < MaxInode
          /\ last' = last + 1 /\ path' = last + 1 /\ ino' = [ino EXCEPT ![p] = last + 1]
    /\ GoTo(p, "opened")
    /\ UNCHANGED <<lock, record, app, wrote, residue, excused>>

\* try_lock
TryLock(p) ==
    /\ pc[p] = "opened" /\ lock[ino[p]] = Nobody
    /\ lock' = [lock EXCEPT ![ino[p]] = p] /\ GoTo(p, "locked")
    /\ UNCHANGED <<path, last, record, ino, app, wrote, residue, excused>>

AlreadyRunning(p) ==
    /\ pc[p] = "opened" /\ lock[ino[p]] # Nobody
    /\ ino' = [ino EXCEPT ![p] = 0] /\ GoTo(p, "ended")
    /\ UNCHANGED <<path, last, lock, record, app, wrote, residue, excused>>

\* safe_lock_identity: the path still names the file that was opened.
SafeLockIdentity(p) == path = ino[p]

Check(p) ==
    /\ pc[p] = "locked" /\ SafeLockIdentity(p)
    /\ GoTo(p, "checked")
    /\ UNCHANGED <<path, last, lock, record, ino, app, wrote, residue, excused>>

Truncate(p) ==
    /\ pc[p] = "checked"
    /\ record' = [record EXCEPT ![ino[p]] = Nobody] /\ GoTo(p, "truncated")
    /\ UNCHANGED <<path, last, lock, ino, app, wrote, residue, excused>>

WriteRecord(p) ==
    /\ pc[p] = "truncated"
    /\ record' = [record EXCEPT ![ino[p]] = p] /\ GoTo(p, "written")
    /\ UNCHANGED <<path, last, lock, ino, app, wrote, residue, excused>>

Recheck(p) ==
    /\ pc[p] = "written" /\ SafeLockIdentity(p)
    /\ GoTo(p, "rechecked")
    /\ UNCHANGED <<path, last, lock, record, ino, app, wrote, residue, excused>>

Acquired(p) ==
    /\ pc[p] = "rechecked" /\ GoTo(p, "acquired")
    /\ UNCHANGED <<path, last, lock, record, ino, app, wrote, residue, excused>>

-----------------------------------------------------------------------------
(* probe_storage_root, at_root                                             *)

\* Created, written, synced and read back.
ProbeCreate(p) ==
    /\ pc[p] = "acquired" /\ SafeLockIdentity(p)
    /\ residue' = residue \cup {<<p, "written">>} /\ GoTo(p, "created")
    /\ UNCHANGED <<path, last, lock, record, ino, app, wrote, excused>>

ProbeRename(p) ==
    /\ pc[p] = "created"
    /\ residue' = (residue \ {<<p, "written">>}) \cup {<<p, "renamed">>} /\ GoTo(p, "renamed")
    /\ UNCHANGED <<path, last, lock, record, ino, app, wrote, excused>>

ProbeUnlink(p) ==
    /\ pc[p] = "renamed"
    /\ residue' = residue \ {<<p, "renamed">>} /\ GoTo(p, "unlinked")
    /\ UNCHANGED <<path, last, lock, record, ino, app, wrote, excused>>

\* The probe passes and the controller starts.
Runs(p) ==
    /\ pc[p] = "unlinked" /\ SafeLockIdentity(p)
    /\ app' = [app EXCEPT ![p] = [runs |-> TRUE, dirty |-> FALSE, healthy |-> TRUE]]
    /\ GoTo(p, "running")
    /\ UNCHANGED <<path, last, lock, record, ino, wrote, residue, excused>>

\* A plausible bug: the cleanup knows the name the probe file had first.
MutCleansFirstOnly(p) == residue \ {<<p, "written">>}

\* ProbeCleanup::cleanup looks for both names.
Cleaned(p) == residue \ {<<p, "written">>, <<p, "renamed">>}

\* A step of the probe fails and its files are removed, or that fails too and is
\* reported.  The lock is released, by its Drop.
ProbeFails(p) ==
    /\ pc[p] \in Probing /\ GoTo(p, "releasing")
    /\ \/ residue' = Cleaned(p) /\ UNCHANGED excused
       \/ UNCHANGED residue /\ excused' = excused \cup {p}
    /\ UNCHANGED <<path, last, lock, record, ino, app, wrote>>

-----------------------------------------------------------------------------
(* The running wallet                                                      *)

Edit(p) ==
    /\ pc[p] = "running" /\ app' = [app EXCEPT ![p].dirty = TRUE]
    /\ UNCHANGED <<path, last, lock, record, pc, ino, wrote, residue, excused>>

\* A plausible bug: a failed write leaves the writer in use.
MutNotPoisoned(a) == [a EXCEPT !.dirty = TRUE]

\* persistence_failed poisons the writer: nothing is written after a failure.
PersistenceFailed(a) == [a EXCEPT !.dirty = TRUE, !.healthy = FALSE]

\* flush_save_blocking: it saves what there is to save, or fails.
FlushSave(p) ==
    \/ /\ app[p].dirty /\ app[p].healthy /\ wrote[p] < MaxWrites
       /\ wrote' = [wrote EXCEPT ![p] = @ + 1]
       /\ app' = [app EXCEPT ![p].dirty = FALSE]
    \/ /\ app[p].dirty /\ app' = [app EXCEPT ![p] = PersistenceFailed(@)] /\ UNCHANGED wrote
    \/ /\ ~app[p].dirty /\ UNCHANGED <<app, wrote>>

Save(p) ==
    /\ pc[p] = "running" /\ FlushSave(p)
    /\ UNCHANGED <<path, last, lock, record, pc, ino, residue, excused>>

\* shutdown: the result of its save is not looked at.
Shutdown(p) ==
    /\ pc[p] = "running" /\ FlushSave(p) /\ GoTo(p, "releasing")
    /\ UNCHANGED <<path, last, lock, record, ino, residue, excused>>

-----------------------------------------------------------------------------
(* release_inner                                                           *)

\* The path is this file and carries this process's record.
OwnsPath(p) == path = ino[p] /\ record[path] = p

Unlink(p) ==
    /\ pc[p] = "releasing" /\ path # 0 /\ OwnsPath(p)
    /\ path' = 0 /\ GoTo(p, "removed")
    /\ UNCHANGED <<last, lock, record, ino, app, wrote, residue, excused>>

\* A check or a sync fails before the unlink: the window stays open, a process
\* that is only starting ends.
ReleaseFails(p) ==
    /\ pc[p] = "releasing" /\ app[p].runs
    /\ GoTo(p, "running")
    /\ UNCHANGED <<path, last, lock, record, ino, app, wrote, residue, excused>>

Close(p) ==
    /\ pc[p] = "removed"
    /\ Closed(p) /\ GoTo(p, IF app[p].runs THEN "closing" ELSE "ended")
    /\ UNCHANGED <<path, last, record, app, wrote, residue, excused>>

\* The end of run and the controller's Drop save once more.
Drop(p) ==
    /\ pc[p] = "closing" /\ FlushSave(p) /\ GoTo(p, "ended")
    /\ UNCHANGED <<path, last, lock, record, ino, residue, excused>>

\* A check refuses the file, an operation fails, the process is killed.
Ends(p) ==
    /\ pc[p] \in Pcs \ {"ended"}
    /\ Closed(p) /\ GoTo(p, "ended")
    /\ excused' = IF pc[p] \in Probing THEN excused \cup {p} ELSE excused
    /\ UNCHANGED <<path, last, record, app, wrote, residue>>

Next ==
    \E p \in Proc :
        \/ Open(p) \/ TryLock(p) \/ AlreadyRunning(p) \/ Check(p) \/ Truncate(p)
        \/ WriteRecord(p) \/ Recheck(p) \/ Acquired(p)
        \/ ProbeCreate(p) \/ ProbeRename(p) \/ ProbeUnlink(p) \/ Runs(p) \/ ProbeFails(p)
        \/ Edit(p) \/ Save(p) \/ Shutdown(p)
        \/ Unlink(p) \/ ReleaseFails(p) \/ Close(p) \/ Drop(p) \/ Ends(p)

Spec == Init /\ [][Next]_vars

-----------------------------------------------------------------------------
\* At most one process holds the folder, although a lock file that is about to
\* be unlinked can be opened, and locked once its owner has gone.
MutualExclusion == \A p, q \in Proc : pc[p] \in Holding /\ pc[q] \in Holding => p = q

\* The wallet's files are written only under the lock.  shutdown saves, gives
\* the lock up whatever came of it, and the controller's Drop saves again: by
\* then there is nothing to save, or a writer that refuses.
WritesHoldLock == [][\A p \in Proc : wrote'[p] # wrote[p] => pc[p] \in Holding]_vars

\* A probe leaves no file behind unless it reported that, or the process died
\* during it.
ProbeLeavesNothing ==
    \A p \in Proc : pc[p] \in {"running", "releasing", "removed", "ended"} =>
        p \in excused \/ \A n \in {"written", "renamed"} : <<p, n>> \notin residue

\* The folder belongs to one process, which has not left probe files in it:
\* acquire_single_instance_lock, release_inner and probe_storage_root.
FolderIsOwned == TypeOK /\ MutualExclusion /\ ProbeLeavesNothing

\* Both: the folder has one owner, and nobody else writes to it
\* (acquire_single_instance_lock, DesktopController::shutdown and Drop).
FolderIsSound == []FolderIsOwned /\ WritesHoldLock
=============================================================================
