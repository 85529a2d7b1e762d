----------------------------- MODULE VaultStore -----------------------------
(***************************************************************************)
(* The wallet file and the threads that write it: VaultStore/VaultWriter   *)
(* (cc-wallet-storage/vault_store.rs), the atomic file replacement under   *)
(* them (atomic.rs), and the controller's save pipeline that drives them   *)
(* (cc-wallet-app/controller/save.rs, the key messages of mod.rs).         *)
(*                                                                         *)
(* A wallet directory holds the main file, temporaries and quarantine      *)
(* orphans.  A container is its key generation (a keyslot made from one    *)
(* password), its save counter and the version of the payload sealed in    *)
(* it.  dir is what a running process sees; views are the directories a    *)
(* power loss may leave: every directory state since the last successful   *)
(* directory sync.  The save thread and the unlock threads interleave with *)
(* the UI thread, which blocks in flush_save_blocking.                     *)
(***************************************************************************)
EXTENDS Naturals, FiniteSets, FiniteSetsExt

CONSTANTS
    Passwords,   \* what a user may type
    Unlockers,   \* unlock threads that may run at once (model values)
    MaxVer,      \* bound: payload versions ever made
    MaxGen,      \* bound: keyslots ever made
    MaxFaults    \* bound: kills, power losses and I/O errors

ASSUME PasswordsAssumption == Passwords # {} /\ "-" \notin Passwords
ASSUME BoundsAssumption == MaxVer \in Nat /\ MaxGen \in Nat /\ MaxFaults \in Nat

VARIABLES
    dir,      \* the visible directory: main (at most one), temps, orphans
    views,    \* the directories a power loss may leave behind
    app,      \* the controller's session and its writer
    save,     \* the save thread's write
    unl,      \* the unlock threads
    await,    \* the key operation whose generation is current, or "none"
    acked,    \* newest payload version a save has reported as saved
    lastVer, lastGen,  \* versions and keyslots made so far
    retired,  \* keyslots the app has reported as replaced and shredded
    damaged,  \* the container whose corrupt history was to be preserved
    faults    \* kills, power losses and I/O errors so far

vars == <<dir, views, app, save, unl, await, acked, lastVer, lastGen,
          retired, damaged, faults>>

-----------------------------------------------------------------------------
(* Containers and directories.                                             *)

File == [gen : 1..MaxGen, pw : Passwords, ctr : 1..(MaxVer + MaxGen), ver : 1..MaxVer]
\* A file whose contents are not a whole container: a temporary that never
\* reached the disk, or an artifact partly overwritten by destroy.
Torn == [gen |-> 0, pw |-> "-", ctr |-> 0, ver |-> 0]
NoFile == [gen |-> 0, pw |-> "-", ctr |-> 0, ver |-> 0]
Artifacts == SUBSET (File \cup {Torn})
Dir == [main : Artifacts, temps : Artifacts, orphans : Artifacts]
EmptyDir == [main |-> {}, temps |-> {}, orphans |-> {}]
Slot == [gen : 0..MaxGen, pw : Passwords \cup {"-"}]
NoSlot == [gen |-> 0, pw |-> "-"]

Containers(d) == (d.main \cup d.temps \cup d.orphans) \ {Torn}
\* list_wallets: a main file counts as it is, a survivor only with a whole header.
Listed(d) == d.main # {} \/ Containers(d) # {}
\* VaultWriter::fresh: a new wallet takes a name that nothing is left of.
Fresh(d) == d = EmptyDir
Newest(S) == {f \in S : \A g \in S : g.ctr <= f.ctr}

\* unlock's choice: the container it opens with pw, or {} when it refuses.
\* A main file that pw does not open is final; a main file that opens keeps
\* only candidates of its own keyslot; without one the candidates must share
\* a keyslot; the newest counter wins unless two contents share it.
Selected(d, pw) ==
    LET opened == {f \in Containers(d) : f.pw = pw}
        kept   == {f \in opened : \A m \in d.main : f.gen = m.gen}
        mixed  == \E f, g \in Containers(d) : f.gen # g.gen
    IN  IF \/ ~ (d.main \subseteq opened)
           \/ d.main = {} /\ mixed
           \/ Cardinality(Newest(kept)) # 1
        THEN {}
        ELSE Newest(kept)

-----------------------------------------------------------------------------
(* The session and its save pipeline, as functions of the app record.      *)

LockedApp ==
    [phase |-> "locked", vault |-> NoSlot, prev |-> NoSlot, health |-> "Ready",
     dirty |-> FALSE, mem |-> 0, quar |-> {}, task |-> "idle", wctr |-> 0,
     wfile |-> {}, healthy |-> FALSE, blocked |-> "no", flushing |-> FALSE,
     claim |-> "none"]

\* persistence_failed: poison the writer, and stay Failed until the lock.
PersistenceFailed(a) ==
    [a EXCEPT !.healthy = FALSE, !.health = "Failed", !.dirty = TRUE]

\* mark_dirty: nothing is scheduled any more once persistence has failed.
MarkDirty(a) == [a EXCEPT !.dirty = @ \/ a.health # "Failed"]

\* drain_save_task on a task that has finished, or with none started.  A
\* join failure (the thread lost) is reported as a failed write.
Drained(a) ==
    CASE a.task = "idle"   -> a
      [] a.task = "ok"     -> [a EXCEPT !.task = "idle", !.health = "Ready"]
      [] a.task = "failed" -> [PersistenceFailed(a) EXCEPT !.task = "idle"]

DrainedAck(a) == IF a.task = "ok" THEN Max({acked, save.file.ver}) ELSE acked

\* quarantine_selected with install_orphan_copy: the orphan named by the
\* counter is installed once; a different one is never replaced.
CanQuarantine(f) == dir.main = {f} /\ \A o \in dir.orphans : o.ctr = f.ctr => o = f
WithOrphan(f) == [dir EXCEPT !.orphans = @ \cup {f}]

\* An outcome of an operation: the app record, the directory, its views, and
\* whether an I/O error was met.
Kept(a) == [app |-> a, dir |-> dir, views |-> views, bad |-> 0]
Happens(r) ==
    /\ dir' = r.dir /\ views' = r.views
    /\ faults + r.bad <= MaxFaults /\ faults' = faults + r.bad

\* A plausible bug: the save does not wait for the quarantine copy.
MutQuarantineSkipped(a) ==
    {[app |-> [a EXCEPT !.quar = {}, !.health = IF a.quar = {} THEN @ ELSE "Ready"],
      dir |-> dir, views |-> views, bad |-> 0]}
\* ensure_activity_quarantined: the damaged history is copied aside before
\* anything may be saved.  An I/O error may come before or after the link.
EnsureQuarantined(a) ==
    LET f == CHOOSE g \in a.quar : TRUE
        refused(n) == [app |-> PersistenceFailed(a), dir |-> dir, views |-> views, bad |-> n]
        linked == [app |-> PersistenceFailed(a), dir |-> WithOrphan(f),
                   views |-> views \cup {WithOrphan(f)}, bad |-> 1]
        done == [app |-> [a EXCEPT !.quar = {}, !.health = "Ready"],
                 dir |-> WithOrphan(f), views |-> {WithOrphan(f)}, bad |-> 0]
    IN  IF a.quar = {} THEN {Kept(a)}
        ELSE IF CanQuarantine(f) THEN {refused(1), linked, done}
        ELSE {refused(0)}

NoSave == [stage |-> "idle", file |-> NoFile]
\* current_payloads sealed under the session's vault at the next counter.
Sealed(a) == [gen |-> a.vault.gen, pw |-> a.vault.pw, ctr |-> a.wctr + 1, ver |-> a.mem]
StartedSave(a) == [stage |-> "prepare", file |-> Sealed(a)]

\* Drain, quarantine, then hand the payload to the writer; `started` is the
\* app record of a pipeline that got that far.
Flushed(a, started) ==
    LET d == Drained(a) IN
    \E r \in (IF d.health = "Failed" \/ ~d.dirty THEN {Kept(d)} ELSE EnsureQuarantined(d)) :
        /\ Happens(r)
        /\ acked' = DrainedAck(a)
        /\ LET go == r.app.health # "Failed" /\ r.app.dirty IN
           /\ app' = IF go THEN [r.app EXCEPT !.task = "running", !.dirty = started.dirty,
                                              !.health = started.health,
                                              !.flushing = started.flushing]
                     ELSE r.app
           /\ save' = IF go THEN StartedSave(r.app) ELSE NoSave

-----------------------------------------------------------------------------
(* The UI thread.                                                          *)

Unlocked == app.phase = "unlocked" /\ app.blocked = "no"
KeyBusy == await # "none"

\* CreateWallet: exists() and writer_for_new() want an empty slate; the first
\* container is saved in the background (persist_new_container).
Create ==
    /\ app.phase = "locked" /\ app.blocked = "no" /\ ~KeyBusy
    /\ Fresh(dir)
    /\ lastVer < MaxVer /\ lastGen < MaxGen
    /\ \E pw \in Passwords :
        LET a == [LockedApp EXCEPT !.phase = "unlocked", !.mem = lastVer + 1,
                    !.vault = [gen |-> lastGen + 1, pw |-> pw], !.healthy = TRUE,
                    !.health = "WritePending", !.task = "running"]
        IN  app' = a /\ save' = StartedSave(a)
    /\ lastVer' = lastVer + 1 /\ lastGen' = lastGen + 1
    /\ UNCHANGED <<dir, views, unl, await, acked, retired, damaged, faults>>

\* Any change of the profile, the history or the address book.
Edit ==
    /\ Unlocked /\ lastVer < MaxVer
    /\ lastVer' = lastVer + 1
    /\ app' = MarkDirty([app EXCEPT !.mem = lastVer + 1])
    /\ UNCHANGED <<dir, views, save, unl, await, acked, lastGen, retired, damaged, faults>>

\* tick -> flush_save: drain a finished task and start the next background
\* write.  Nothing while a key operation is under way: it began by draining
\* the task, and none is started before it ends.
FlushSave ==
    /\ Unlocked /\ ~KeyBusy
    /\ app.task # "running"
    /\ app.task # "idle" \/ app.dirty
    /\ Flushed(app, [dirty |-> FALSE, health |-> "WritePending", flushing |-> FALSE])
    /\ UNCHANGED <<unl, await, lastVer, lastGen, retired, damaged>>

\* persist_journal_barrier after a journal append: refused at once when
\* persistence has failed, otherwise the UI thread blocks on the write.
Barrier ==
    /\ Unlocked /\ lastVer < MaxVer
    /\ lastVer' = lastVer + 1
    /\ LET a == [app EXCEPT !.mem = lastVer + 1] IN
       app' = IF app.health = "Failed" THEN a
              ELSE [a EXCEPT !.dirty = TRUE, !.blocked = "barrier"]
    /\ UNCHANGED <<dir, views, save, unl, await, acked, lastGen, retired, damaged, faults>>

\* request_lock, and the same with the DeleteWallet follow-up.
RequestLock ==
    /\ Unlocked
    /\ \E k \in {"lock", "delete"} : app' = [app EXCEPT !.blocked = k]
    /\ UNCHANGED <<dir, views, save, unl, await, acked, lastVer, lastGen, retired,
                   damaged, faults>>

\* ChangePassword, first half (spawn_change_password): drain the running
\* save and quarantine, then derive the new keyslot in the background.
StartRekey ==
    /\ Unlocked /\ ~KeyBusy /\ app.task # "running"
    /\ lastGen < MaxGen
    /\ LET d == Drained(app) IN
       \E r \in (IF d.health = "Failed" THEN {Kept(d)} ELSE EnsureQuarantined(d)) :
        /\ app' = r.app /\ Happens(r)
        /\ await' = IF r.app.health = "Failed" THEN "none" ELSE "rekey"
    /\ acked' = DrainedAck(app)
    /\ save' = NoSave
    /\ UNCHANGED <<unl, lastVer, lastGen, retired, damaged>>

\* ChangePassword, second half: the new vault takes over and the UI thread
\* blocks until the container is saved under it.
RekeyReady ==
    /\ Unlocked /\ await = "rekey" /\ lastGen < MaxGen
    /\ await' = "none"
    /\ lastGen' = lastGen + 1
    /\ \E pw \in Passwords :
        app' = [app EXCEPT !.prev = app.vault, !.vault = [gen |-> lastGen + 1, pw |-> pw],
                           !.dirty = TRUE, !.blocked = "rekey"]
    /\ UNCHANGED <<dir, views, save, unl, acked, lastVer, retired, damaged, faults>>

\* cancel_auth, BackToPicker, SelectWallet: invalidate_key_ops forgets the
\* operation; its thread, if it has one, runs on.
InvalidateKeyOps ==
    /\ app.blocked = "no"
    /\ await' = "none"
    /\ UNCHANGED <<dir, views, app, save, unl, acked, lastVer, lastGen, retired,
                   damaged, faults>>

\* flush_save_blocking up to its own write: wait for the running task.
FlushBlocked ==
    /\ app.blocked \in {"barrier", "lock", "delete", "rekey"}
    /\ ~app.flushing /\ app.task # "running"
    /\ LET d == Drained(app) IN d.dirty /\ d.health # "Failed"
    /\ Flushed(app, [dirty |-> TRUE, health |-> Drained(app).health, flushing |-> TRUE])
    /\ UNCHANGED <<unl, await, lastVer, lastGen, retired, damaged>>

\* A plausible bug: copies under the old keyslot are left.
MutShredNothing(d) == {}
\* shred_foreign_keyslot_residue's targets: containers of another keyslot.
Foreign(d) == {f \in Containers(d) : \A m \in d.main : f.gen # m.gen}
\* A plausible bug: an artifact is not unlinked.
MutNeverUnlinked(d, S) == d
\* destroy_artifact's end: the overwritten files are unlinked.
Without(d, S) == [main |-> d.main \ S, temps |-> d.temps \ S, orphans |-> d.orphans \ S]

\* A password change whose save failed puts the previous vault back.
RekeyUndone(a) == [a EXCEPT !.vault = a.prev, !.prev = NoSlot, !.claim = "notChanged"]

\* The rest of the handler that called flush_save_blocking, once its own
\* write has finished or there was nothing it could write.
FinishFlush ==
    LET d  == Drained(app)
        ok == d.health # "Failed"
        a  == [d EXCEPT !.dirty = @ /\ ~(app.flushing /\ ok), !.blocked = "no",
                        !.flushing = FALSE]
    IN
    /\ app.blocked \in {"barrier", "lock", "delete", "rekey"}
    /\ app.task # "running"
    /\ app.flushing \/ ~ok \/ ~d.dirty
    /\ save' = NoSave
    /\ acked' = IF app.blocked = "delete" THEN 0 ELSE DrainedAck(app)
    /\ CASE app.blocked = "barrier" ->
              /\ app' = a
              /\ UNCHANGED <<dir, views, await, retired, damaged, faults>>
         [] app.blocked = "lock" ->
              /\ app' = LockedApp /\ await' = "none"
              /\ UNCHANGED <<dir, views, retired, damaged, faults>>
         [] app.blocked = "delete" ->
              /\ app' = [LockedApp EXCEPT !.blocked = "destroy"]
              /\ damaged' = {} /\ await' = "none"
              /\ UNCHANGED <<dir, views, retired, faults>>
         [] app.blocked = "rekey" /\ ok ->
              \E S \in SUBSET Foreign(dir), clean \in BOOLEAN :
                 LET all == clean /\ S = Foreign(dir) IN
                 /\ Happens([dir |-> Without(dir, S), bad |-> IF all THEN 0 ELSE 1,
                             views |-> IF S = {} THEN views
                                       ELSE IF all THEN {Without(dir, S)}
                                       ELSE views \cup {Without(dir, S)}])
                 /\ app' = [a EXCEPT !.prev = NoSlot,
                                     !.claim = IF all THEN "changed" ELSE "residue"]
                 /\ retired' = IF all THEN retired \cup (1..(a.vault.gen - 1)) ELSE retired
                 /\ UNCHANGED <<await, damaged>>
         [] app.blocked = "rekey" /\ ~ok ->
              /\ app' = RekeyUndone(a)
              /\ UNCHANGED <<dir, views, await, retired, damaged, faults>>
    /\ UNCHANGED <<unl, lastVer, lastGen>>

\* destroy_artifact's zero-overwrite of f, in every directory that names it.
Zeroed(d, f) ==
    LET z(S) == IF f \in S THEN (S \ {f}) \cup {Torn} ELSE S
    IN  [main |-> z(d.main), temps |-> z(d.temps), orphans |-> z(d.orphans)]

\* A plausible bug: delete stops at the first kind of artifact.
MutOrphansForgotten(d) == IF d.main # {} THEN d.main ELSE d.temps
\* destroy_candidates, by path: main sorts first, then its residue.
DestroyCandidates(d) == IF d.main # {} THEN d.main ELSE d.temps \cup d.orphans

\* destroy, one artifact at a time: each is overwritten,
\* unlinked and the directory synced, and the first failure ends the loop.
DestroyOne ==
    /\ app.blocked = "destroy"
    /\ LET next == DestroyCandidates(dir)
           zeroed(f) == {Zeroed(v, f) : v \in views}
       IN \/ /\ next = {}
             /\ app' = [app EXCEPT !.blocked = "no", !.claim = "deleted"]
             /\ UNCHANGED <<dir, views, faults>>
          \/ \E f \in next :
             /\ dir' = Without(dir, {f}) /\ views' = {dir'}
             /\ UNCHANGED <<app, faults>>
          \/ \E f \in next :
             /\ \/ dir' = dir /\ views' = views
                \/ dir' = Zeroed(dir, f) /\ views' = zeroed(f)
                \/ dir' = Without(dir, {f}) /\ views' = zeroed(f) \cup {dir'}
             /\ app' = [app EXCEPT !.blocked = "no"]
             /\ faults < MaxFaults /\ faults' = faults + 1
    /\ UNCHANGED <<save, unl, await, acked, lastVer, lastGen, retired, damaged>>

-----------------------------------------------------------------------------
(* write_atomic: a synced temporary, a rename over main, a directory sync. *)
(* keep: the temporary being promoted is itself among the temporaries.     *)

SetDir(d) == dir' = d /\ views' = views \cup {d}
TempWritten(f) == SetDir([dir EXCEPT !.temps = @ \cup {f}])
MainReplaced(f, keep) ==
    SetDir([dir EXCEPT !.main = {f}, !.temps = IF keep THEN @ ELSE @ \ {f}])
DirSynced == views' = {dir} /\ UNCHANGED dir
\* The NamedTempFile is dropped: its unlink may itself fail, silently.
TempDropped(f, keep) ==
    \/ UNCHANGED <<dir, views>>
    \/ ~keep /\ SetDir([dir EXCEPT !.temps = @ \ {f}])

UnchangedBySave == UNCHANGED <<unl, await, acked, lastVer, lastGen, retired, damaged>>

\* VaultWriter::prepare, on the save thread: only over the main file this
\* writer committed, or over nothing for a fresh wallet.
Prepared ==
    /\ app.healthy
    /\ IF app.wfile = {} THEN dir = EmptyDir ELSE dir.main = app.wfile

PrepareSave ==
    /\ save.stage = "prepare"
    /\ IF Prepared
       THEN save' = [save EXCEPT !.stage = "start"] /\ UNCHANGED app
       ELSE save' = NoSave /\ app' = [app EXCEPT !.task = "failed"]
    /\ UNCHANGED <<dir, views, faults>> /\ UnchangedBySave

WriteSaveTemp ==
    /\ save.stage = "start"
    /\ save' = [save EXCEPT !.stage = "written"]
    /\ TempWritten(save.file)
    /\ UNCHANGED <<app, faults>> /\ UnchangedBySave

Committed(a) == [a EXCEPT !.task = "ok", !.wctr = save.file.ctr, !.wfile = {save.file}]
\* A plausible bug: a failed write is taken for a saved one.
MutErrorTakenForReceipt(a) == [a EXCEPT !.task = "ok"]
\* VaultWriter::consume of an error: the writer is unhealthy for good.
Poisoned(a) == [a EXCEPT !.task = "failed", !.healthy = FALSE]

\* persist; for a fresh wallet persist_noclobber, which refuses a main file
\* that has appeared meanwhile.
RenameSave ==
    /\ save.stage = "written"
    /\ IF app.wfile = {} /\ dir.main # {}
       THEN /\ TempDropped(save.file, FALSE)
            /\ save' = NoSave /\ app' = Poisoned(app)
       ELSE /\ MainReplaced(save.file, FALSE)
            /\ save' = [save EXCEPT !.stage = "renamed"] /\ UNCHANGED app
    /\ UNCHANGED faults /\ UnchangedBySave

\* The directory sync and the readback of the installed bytes, then consume.
SyncSave ==
    /\ save.stage = "renamed"
    /\ DirSynced
    /\ app' = IF dir.main = {save.file} THEN Committed(app) ELSE Poisoned(app)
    /\ save' = [save EXCEPT !.stage = "idle"]
    /\ UNCHANGED faults /\ UnchangedBySave

FailSave ==
    /\ save.stage \in {"start", "written", "renamed"}
    /\ IF save.stage = "written" THEN TempDropped(save.file, FALSE)
       ELSE UNCHANGED <<dir, views>>
    /\ app' = Poisoned(app)
    /\ save' = NoSave
    /\ faults < MaxFaults /\ faults' = faults + 1
    /\ UnchangedBySave

-----------------------------------------------------------------------------
(* Unlock threads: VaultStore::unlock, then the key message.               *)

IdleUnlock == [stage |-> "idle", pw |-> "-", act |-> "unlock", file |-> NoFile, keep |-> FALSE]
SetUnl(u, r) == unl' = [unl EXCEPT ![u] = r]
UnchangedByUnlock == UNCHANGED <<save, acked, lastVer, lastGen, retired, damaged>>

\* Unlock, or the picker's delete, which first proves the password.
SpawnUnlock(u) ==
    /\ app.phase = "locked" /\ app.blocked = "no" /\ ~KeyBusy
    /\ unl[u].stage = "idle" /\ Listed(dir)
    /\ await' = u
    /\ \E pw \in Passwords, act \in {"unlock", "delete"} :
        SetUnl(u, [IdleUnlock EXCEPT !.stage = "read", !.pw = pw, !.act = act])
    /\ UNCHANGED <<dir, views, app, faults>> /\ UnchangedByUnlock

ReadCandidates(u) ==
    /\ unl[u].stage = "read"
    /\ LET s == Selected(dir, unl[u].pw) IN
       \/ s = {} /\ SetUnl(u, [unl[u] EXCEPT !.stage = "refused"])
       \/ \E f \in s : SetUnl(u, [unl[u] EXCEPT
              !.stage = IF dir.main = {f} THEN "own" ELSE "start",
              !.file = f, !.keep = dir.main # {f} /\ f \in dir.temps])
    /\ UNCHANGED <<dir, views, app, await, faults>> /\ UnchangedByUnlock

\* Promotion of a winner that is not the main file: write_atomic over main.
Promote(u) ==
    LET f == unl[u].file  keep == unl[u].keep  to(st) == SetUnl(u, [unl[u] EXCEPT !.stage = st])
    IN
    /\ \/ /\ \/ unl[u].stage = "start" /\ TempWritten(f) /\ to("written")
             \/ unl[u].stage = "written" /\ MainReplaced(f, keep) /\ to("renamed")
             \/ unl[u].stage = "renamed" /\ DirSynced /\ to("own")
          /\ UNCHANGED faults
       \/ /\ \/ unl[u].stage = "written" /\ TempDropped(f, keep)
             \/ unl[u].stage \in {"start", "renamed"} /\ UNCHANGED <<dir, views>>
          /\ to("refused")
          /\ faults < MaxFaults /\ faults' = faults + 1
    /\ UNCHANGED <<app, await>> /\ UnchangedByUnlock

\* VaultWriter::authenticated re-reads main; a promoted .tmp is then removed,
\* without caring whether that worked.
OwnWriter(u) ==
    LET f == unl[u].file IN
    /\ unl[u].stage = "own"
    /\ IF dir.main = {f}
       THEN /\ SetUnl(u, [unl[u] EXCEPT !.stage = "opened"])
            /\ IF unl[u].keep
               THEN \/ SetDir([dir EXCEPT !.temps = @ \ {f}]) /\ UNCHANGED faults
                    \/ Happens([Kept(app) EXCEPT !.bad = 1])
               ELSE UNCHANGED <<dir, views, faults>>
       ELSE /\ SetUnl(u, [unl[u] EXCEPT !.stage = "refused"])
            /\ UNCHANGED <<dir, views, faults>>
    /\ UNCHANGED <<app, await>> /\ UnchangedByUnlock

\* enter_app on the container f: the session's view of it.
Entered(f, corrupt) ==
    [LockedApp EXCEPT !.phase = "unlocked", !.vault = [gen |-> f.gen, pw |-> f.pw],
        !.mem = f.ver, !.wctr = f.ctr, !.wfile = {f}, !.healthy = TRUE,
        !.quar = IF corrupt THEN {f} ELSE {},
        !.health = IF corrupt THEN "QuarantineRequired" ELSE "Ready"]

\* apply_key_msg: a message of another generation is dropped.
DeliverUnlock(u) ==
    LET m == unl[u] IN
    /\ m.stage \in {"refused", "opened"}
    /\ app.blocked = "no"
    /\ SetUnl(u, IdleUnlock)
    /\ await' = IF await = u THEN "none" ELSE await
    /\ \/ /\ await # u \/ m.stage = "refused"
          /\ UNCHANGED <<dir, views, app, acked, damaged, faults>>
       \/ /\ await = u /\ m.stage = "opened" /\ m.act = "delete"
          /\ app' = [LockedApp EXCEPT !.blocked = "destroy"]
          /\ acked' = 0 /\ damaged' = {}
          /\ UNCHANGED <<dir, views, faults>>
       \/ /\ await = u /\ m.stage = "opened" /\ m.act = "unlock"
          /\ \E corrupt \in BOOLEAN :
              /\ m.file \in damaged => corrupt
              /\ damaged' = IF corrupt THEN damaged \cup {m.file} ELSE damaged
              /\ \E r \in EnsureQuarantined(Entered(m.file, corrupt)) :
                    app' = r.app /\ Happens(r)
          /\ UNCHANGED acked
    /\ UNCHANGED <<save, lastVer, lastGen, retired>>

-----------------------------------------------------------------------------
(* The process dies, alone or with the machine.                            *)

Writing == save.stage = "start" \/ \E u \in Unlockers : unl[u].stage = "start"
WithTorn(d) == {d} \cup (IF Writing THEN {[d EXCEPT !.temps = @ \cup {Torn}]} ELSE {})

Crash ==
    /\ faults < MaxFaults
    /\ faults' = faults + 1
    /\ \/ dir' \in WithTorn(dir) /\ views' = views \cup {dir'}
       \/ dir' \in UNION {WithTorn(v) : v \in views} /\ views' = {dir'}
    /\ app' = LockedApp /\ save' = NoSave
    /\ unl' = [u \in Unlockers |-> IdleUnlock]
    /\ await' = "none"
    /\ damaged' = damaged \cap Containers(dir')
    /\ UNCHANGED <<acked, lastVer, lastGen, retired>>

-----------------------------------------------------------------------------
Init ==
    /\ dir = EmptyDir /\ views = {EmptyDir}
    /\ app = LockedApp /\ save = NoSave
    /\ unl = [u \in Unlockers |-> IdleUnlock]
    /\ await = "none"
    /\ acked = 0 /\ lastVer = 0 /\ lastGen = 0
    /\ retired = {} /\ damaged = {} /\ faults = 0

SaveThread == PrepareSave \/ WriteSaveTemp \/ RenameSave \/ SyncSave \/ FailSave
BlockedUI == FlushBlocked \/ FinishFlush \/ DestroyOne

Next ==
    \/ Create \/ Edit \/ FlushSave \/ Barrier \/ RequestLock
    \/ StartRekey \/ RekeyReady \/ InvalidateKeyOps
    \/ FlushBlocked \/ FinishFlush \/ DestroyOne
    \/ PrepareSave \/ WriteSaveTemp \/ RenameSave \/ SyncSave \/ FailSave
    \/ \E u \in Unlockers : \/ SpawnUnlock(u) \/ ReadCandidates(u) \/ Promote(u)
                            \/ OwnWriter(u) \/ DeliverUnlock(u)
    \/ Crash

Spec == Init /\ [][Next]_vars

\* The save thread and the UI thread that waits for it keep running; nothing
\* is assumed of the user, of the unlock threads or of the disk's success.
FairSpec == Spec /\ WF_vars(SaveThread) /\ WF_vars(BlockedUI)

-----------------------------------------------------------------------------
(* Properties.                                                             *)

\* The state is well formed: at most one main file, a writer only in a
\* session, and a save thread exactly while the task runs.
TypeOK ==
    /\ dir \in Dir /\ views \subseteq Dir /\ dir \in views
    /\ \A v \in views : Cardinality(v.main) <= 1
    /\ app.phase \in {"locked", "unlocked"}
    /\ app.vault \in Slot /\ app.prev \in Slot
    /\ app.health \in {"Ready", "WritePending", "QuarantineRequired", "Failed"}
    /\ app.dirty \in BOOLEAN /\ app.healthy \in BOOLEAN /\ app.flushing \in BOOLEAN
    /\ app.mem \in 0..MaxVer /\ app.quar \subseteq File
    /\ app.task \in {"idle", "running", "ok", "failed"}
    /\ app.wctr \in 0..(MaxVer + MaxGen) /\ app.wfile \subseteq File
    /\ app.blocked \in {"no", "barrier", "lock", "delete", "rekey", "destroy"}
    /\ app.claim \in {"none", "changed", "residue", "notChanged", "deleted"}
    /\ save.file \in File \cup {NoFile}
    /\ (app.task = "running") = (save.stage # "idle")
    /\ await \in Unlockers \cup {"none", "rekey"}
    /\ acked \in 0..MaxVer /\ lastVer \in 0..MaxVer /\ lastGen \in 0..MaxGen
    /\ damaged \subseteq File /\ retired \subseteq 1..MaxGen

\* A save that was reported as done is never lost: whatever directory a kill
\* or a power loss leaves, the password of its main file opens it without
\* ambiguity, on a payload at least as new as the acknowledged one.
AckedSurvives ==
    acked > 0 => \A v \in views :
        /\ v.main # {}
        /\ \A m \in v.main : \E w \in Selected(v, m.pw) : w.ver >= acked

\* "Wallet password changed" means that no copy under an earlier keyslot is
\* left, nor can a power loss bring one back.  With the types.
RetiredSlotsGone == TypeOK /\ \A v \in views : \A f \in Containers(v) : f.gen \notin retired

\* A session never saves over a container whose history it could not read
\* before a copy of it is aside that even a power loss leaves in place.
DamagedHistoryKept ==
    [][ (save.stage = "written" /\ save'.stage = "renamed") =>
        \A f \in dir.main \cap damaged : \A v \in views : f \in v.orphans ]_vars

\* "Wallet deleted" means that no wallet artifact is left in the directory,
\* and none is put back by a thread that was still at work on it.
DeletedMeansGone == app.claim = "deleted" => dir = EmptyDir

\* "Password NOT changed ... your previous password is still active": the
\* session's previous password opens what is on disk.
PreviousPasswordActive ==
    app.claim = "notChanged" /\ dir.main # {} => Selected(dir, app.vault.pw) # {}

\* The UI thread never stays blocked on a save, whatever the disk does.
BlockedEnds == (app.blocked # "no") ~> (app.blocked = "no")

=============================================================================
