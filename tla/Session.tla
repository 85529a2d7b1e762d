------------------------------ MODULE Session ------------------------------
(***************************************************************************)
(* The controller's session: its phases, the password operations that run  *)
(* on blocking threads and answer later (KeyMsg), the authorization dialog *)
(* and what a verified password is allowed to do, the auto-sign window,    *)
(* and the lock, which may have to wait for a fee-emulation worker and     *)
(* then performs a follow-up (switch, pick, delete).                       *)
(* cc-wallet-app: controller/mod.rs, controller/seed_auth.rs, command.rs.  *)
(*                                                                         *)
(* A key operation carries key_generation; the model keeps whether that    *)
(* generation is still the controller's (fresh).  The journal and the      *)
(* duplicate-risk review are SendController's, seeds and the clipboard     *)
(* SeedCustody's, the write itself VaultStore's.                           *)
(***************************************************************************)
EXTENDS Naturals, FiniteSets

CONSTANTS
    Wallets,     \* wallet files that may exist (storage ids)
    ChainOps,    \* of {"Swap", "Storage"}: the other signing purposes
    Reveals,     \* of {"RevealSeed", "RevealRecords"}
    Settings,    \* security settings a user may ask for
    MaxAuth,     \* bound: authorizations made (auth_generation)
    MaxOps       \* bound: key operations outstanding at once

NoWallet == "-"
NoSetting == "-"

ASSUME SessionAssumptions ==
    /\ ChainOps \subseteq {"Swap", "Storage"}
    /\ Reveals \subseteq {"RevealSeed", "RevealRecords"}
    /\ MaxAuth \in Nat /\ MaxOps \in Nat
    \* a storage id is never the sign for no wallet
    /\ NoWallet \notin Wallets

NoTicket == [wallet |-> NoWallet, gen |-> 0]
Signing == {"Send"} \cup ChainOps
Purposes == Signing \cup Reveals \cup {"ChangePassword", "DeleteWallet", "ChangeSecuritySetting"}
NoTeardown == [then |-> "-", to |-> NoWallet]
Nothing == [kind |-> "-", wallet |-> NoWallet, asked |-> "-", ticket |-> NoTicket, by |-> "-"]

VARIABLES
    app,      \* the controller
    files,    \* wallet files on disk
    jobs,     \* a fee-emulation worker is running
    last      \* history: the guarded effect of the last step, and what was
              \* confirmed for it

vars == <<app, files, jobs, last>>

\* A step without a guarded effect.
Quiet(v) == UNCHANGED v /\ last' = Nothing

Ticket == [wallet : Wallets \cup {NoWallet}, gen : 0..MaxAuth]
KeyOp == [action : Purposes \cup {"Unlock", "Create", "NewPassword", "PickerDelete"},
          of : Wallets, ticket : Ticket, setting : Settings \cup {NoSetting},
          fresh : BOOLEAN]

TypeOK ==
    /\ app \in [phase : {"Selecting", "Onboarding", "Locked", "Unlocked"},
                store : Wallets \cup {NoWallet}, vault : Wallets \cup {NoWallet},
                ops : SUBSET KeyOp, keyBusy : BOOLEAN,
                auth : [open : BOOLEAN, mode : {"Enter", "Confirm", "Create"}, purpose : Purposes],
                pending : [Signing -> Ticket], gen : 0..MaxAuth,
                setting : Settings \cup {NoSetting}, target : Wallets \cup {NoWallet},
                autosign : BOOLEAN, shown : SUBSET Reveals, sealed : BOOLEAN,
                teardown : [then : {"-", "None", "Picker", "SwitchTo", "Delete"},
                            to : Wallets \cup {NoWallet}]]
    /\ files \subseteq Wallets /\ jobs \in BOOLEAN
    /\ last.kind \in Purposes \cup {"-", "PickerDelete"}
    \* only a signature can be confirmed without a password
    /\ app.auth.mode = "Confirm" => app.auth.purpose \in Signing

-----------------------------------------------------------------------------
(* The controller's helpers, as functions of its record.                   *)

ClosedAuth == [open |-> FALSE, mode |-> "Enter", purpose |-> "Send"]

\* at_root: nothing unlocked, nothing asked, key operations allowed.
Started ==
    [phase |-> "Selecting", store |-> NoWallet, vault |-> NoWallet,
     ops |-> {}, keyBusy |-> FALSE, auth |-> ClosedAuth,
     pending |-> [p \in Signing |-> NoTicket], gen |-> 0, setting |-> NoSetting,
     target |-> NoWallet, autosign |-> FALSE, shown |-> {},
     sealed |-> FALSE, teardown |-> NoTeardown]

\* A plausible bug: a cancelled key operation leaves the app busy.
MutStaysBusy(a) ==
    [a EXCEPT !.pending["Send"] = NoTicket, !.ops = {[o EXCEPT !.fresh = FALSE] : o \in @}]
\* invalidate_key_ops: what is still running may no longer answer, and a
\* transfer waiting for its password is dropped.  A waiting swap, storage
\* request, setting or picker deletion is left where it is.
InvalidateKeyOps(a) ==
    [a EXCEPT !.keyBusy = FALSE, !.pending["Send"] = NoTicket,
              !.ops = {[o EXCEPT !.fresh = FALSE] : o \in @}]

\* spawn_unlock_store, spawn_verify_password, spawn_create and
\* spawn_change_password: a thread that will report under this generation.
Spawned(a, action, of, ticket, setting) ==
    [a EXCEPT !.keyBusy = TRUE,
              !.ops = @ \cup {[action |-> action, of |-> of, ticket |-> ticket,
                               setting |-> setting, fresh |-> TRUE]}]

\* open_auth and open_signing_auth: whatever dialog was open is replaced.
OpenAuth(a, purpose) ==
    [a EXCEPT !.auth = [open |-> TRUE, purpose |-> purpose,
                        mode |-> IF purpose \in Signing /\ a.autosign THEN "Confirm" ELSE "Enter"]]

\* probe_phase: back to the picker, or to onboarding without any wallet.
ProbePhase(a, disk) ==
    [InvalidateKeyOps(a) EXCEPT !.shown = {},
        !.phase = IF disk = {} THEN "Onboarding" ELSE "Selecting"]

\* select_wallet.
SelectedWallet(a, w) == [InvalidateKeyOps(a) EXCEPT !.store = w, !.phase = "Locked"]

\* finish_lock: the vault is dropped and the whole user state replaced by a
\* fresh one; what lives beside that state survives (pending_swap,
\* pending_storage, pending_security_setting, pending_picker_delete).
FinishLock(a) ==
    [InvalidateKeyOps(a) EXCEPT
        !.phase = "Locked", !.vault = NoWallet, !.auth = ClosedAuth,
        !.autosign = FALSE, !.shown = {},
        !.teardown = NoTeardown]

\* run_lock_follow_up.  destroy may fail, and then the wallet stays locked.
FollowUp(a, t, disk) ==
    CASE t.then = "None"     -> [app |-> a, files |-> disk]
      [] t.then = "Picker"   -> [app |-> ProbePhase(a, disk), files |-> disk]
      [] t.then = "SwitchTo" ->
            [app |-> IF t.to \in disk THEN SelectedWallet(a, t.to)
                     ELSE ProbePhase(a, disk),
             files |-> disk]
      [] t.then = "Delete"   ->
            [app |-> ProbePhase(a, disk \ {a.store}), files |-> disk \ {a.store}]

DestroyFails(a, t) == t.then = "Delete" /\ app' = FinishLock(a) /\ files' = files

\* The end of a lock: flush (VaultStore), drop the vault, follow up.
Locks(a, t) ==
    \/ LET r == FollowUp(FinishLock(a), t, files) IN app' = r.app /\ files' = r.files
    \/ DestroyFails(a, t)

\* request_lock: seal the key operations, then lock at once or wait for the
\* emulation worker.  A second request while one waits does nothing.
RequestLock(a, t) ==
    IF a.teardown # NoTeardown THEN app' = a /\ UNCHANGED files
    ELSE IF jobs
         THEN app' = [a EXCEPT !.sealed = TRUE, !.teardown = t] /\ UNCHANGED files
         ELSE Locks([a EXCEPT !.sealed = TRUE], t)

-----------------------------------------------------------------------------
(* What a confirmation does.                                               *)

Confirmed(kind, a, ticket, asked, by) ==
    [kind |-> kind, wallet |-> a.vault, asked |-> asked, ticket |-> ticket, by |-> by]

\* send_authorized_transaction, dispatch_authorized_swap and
\* dispatch_authorized_storage take the authorization that is pending.
Dispatched(a, p, remember) ==
    [a EXCEPT !.pending[p] = NoTicket, !.auth.open = FALSE,
              !.autosign = @ \/ remember]

\* do_delete_wallet: refused when the running save fails (drain_save_task),
\* otherwise the lock that deletes.
DoDelete(a, drained) ==
    IF drained THEN RequestLock(a, [then |-> "Delete", to |-> NoWallet])
    ELSE app' = a /\ UNCHANGED files

\* apply_security_setting.
Applied(a) == [a EXCEPT !.setting = NoSetting, !.auth.open = FALSE]

StillAuthorized(a, op) ==
    IF op.action = "Send" THEN a.pending["Send"] = op.ticket
    ELSE a.pending[op.action].gen = op.ticket.gen

\* run_reauth_action, on a verified password.
Reauthorized(a, op) ==
    CASE op.action \in Signing ->
            IF StillAuthorized(a, op)
            THEN /\ \E remember \in BOOLEAN : app' = Dispatched(a, op.action, remember)
                 /\ last' = Confirmed(op.action, a, a.pending[op.action], op, "password")
                 /\ UNCHANGED files
            ELSE /\ app' = (IF op.action = "Send" THEN [a EXCEPT !.pending["Send"] = NoTicket] ELSE a)
                 /\ UNCHANGED files /\ last' = Nothing
      [] op.action \in Reveals ->
            /\ app' = [a EXCEPT !.auth.open = FALSE, !.shown = @ \cup {op.action}]
            /\ last' = Confirmed(op.action, a, NoTicket, op, "password")
            /\ UNCHANGED files
      [] op.action = "DeleteWallet" ->
            /\ \E drained \in BOOLEAN : DoDelete([a EXCEPT !.auth.open = FALSE], drained)
            /\ last' = Confirmed(op.action, a, NoTicket, op, "password")
      [] op.action = "ChangePassword" ->
            /\ app' = [a EXCEPT !.auth.mode = "Create"]
            /\ UNCHANGED files /\ last' = Nothing
      [] op.action = "ChangeSecuritySetting" ->
            /\ app' = Applied(a)
            /\ last' = Confirmed(op.action, a, NoTicket, op, "password")
            /\ UNCHANGED files

-----------------------------------------------------------------------------
(* Commands outside an unlocked wallet.                                    *)

Outside == app.phase # "Unlocked" /\ app.teardown = NoTeardown
CanSpawn == Cardinality(app.ops) < MaxOps

\* Init and BackToPicker.
BackToPicker == Outside /\ app' = ProbePhase(app, files) /\ Quiet(<<files, jobs>>)

SelectWallet(w) ==
    /\ Outside /\ w \in files
    /\ app' = SelectedWallet(app, w)
    /\ Quiet(<<files, jobs>>)

NewWalletRequest ==
    /\ Outside
    /\ app' = [InvalidateKeyOps(app) EXCEPT !.phase = "Onboarding", !.shown = {}]
    /\ Quiet(<<files, jobs>>)

\* create_wallet with a usable name: refused when the file exists.  The
\* store is retargeted before spawn_create looks at key_busy.
CreateWallet(w) ==
    /\ Outside /\ w \notin files /\ CanSpawn
    /\ app' = LET a == [app EXCEPT !.store = w] IN
              IF app.keyBusy THEN a ELSE Spawned(a, "Create", w, NoTicket, NoSetting)
    /\ Quiet(<<files, jobs>>)

\* unlock: nothing is asked of the file while another operation runs.
Unlock ==
    /\ Outside /\ ~app.keyBusy /\ app.store \in files /\ CanSpawn
    /\ app' = Spawned(app, "Unlock", app.store, NoTicket, NoSetting)
    /\ Quiet(<<files, jobs>>)

\* delete_wallet_from_picker.
DeleteFromPicker(w) ==
    /\ Outside /\ w \in files /\ ~app.keyBusy /\ CanSpawn
    /\ app' = [Spawned(app, "PickerDelete", w, NoTicket, NoSetting) EXCEPT !.target = w]
    /\ Quiet(<<files, jobs>>)

-----------------------------------------------------------------------------
(* Commands of an unlocked wallet.                                         *)

\* handle_command: nothing is accepted while a lock waits, and a revealed
\* seed is hidden by every command but reveal, hide and copy.
Accepts == app.phase = "Unlocked" /\ app.teardown = NoTeardown
Hidden(a) == [a EXCEPT !.shown = @ \ {"RevealSeed"}]

\* AppCommand::frozen_while_authorization_pending.
Frozen == app.pending["Send"] # NoTicket

LockNow == Accepts /\ RequestLock(Hidden(app), [then |-> "None", to |-> NoWallet]) /\ Quiet(jobs)
SwitchWallet == Accepts /\ RequestLock(Hidden(app), [then |-> "Picker", to |-> NoWallet]) /\ Quiet(jobs)
SwitchToWallet(w) ==
    /\ Accepts /\ w # app.vault /\ w \in files
    /\ RequestLock(Hidden(app), [then |-> "SwitchTo", to |-> w])
    /\ Quiet(jobs)

\* request_send (with authorize_transfer), request_swap, request_storage_op:
\* one authorization of a kind at a time, bound to this wallet.
RequestSigning(p) ==
    /\ Accepts /\ app.pending[p] = NoTicket /\ app.gen < MaxAuth
    /\ p = "Storage" => ~Frozen
    /\ LET g == app.gen + 1
           a == [Hidden(app) EXCEPT !.gen = g, !.pending[p] = [wallet |-> app.vault, gen |-> g]]
       IN  app' = OpenAuth(a, p)
    /\ Quiet(<<files, jobs>>)

\* reveal_seed, reveal_storage_records, change_password_request, delete_wallet.
RequestDialog(p) ==
    /\ Accepts /\ ~Frozen
    /\ p \in Reveals \cup {"ChangePassword", "DeleteWallet"}
    /\ app' = OpenAuth(IF p = "RevealSeed" THEN app ELSE Hidden(app), p)
    /\ Quiet(<<files, jobs>>)

\* request_security_setting.
RequestSetting(s) ==
    /\ Accepts
    /\ app' = OpenAuth([Hidden(app) EXCEPT !.setting = s], "ChangeSecuritySetting")
    /\ Quiet(<<files, jobs>>)

\* cancel_auth.
CancelAuth ==
    /\ Accepts
    /\ app' = [InvalidateKeyOps(Hidden(app)) EXCEPT
                  !.auth.open = FALSE, !.setting = NoSetting,
                  !.pending = [p \in Signing |-> NoTicket]]
    /\ Quiet(<<files, jobs>>)

\* within_autosign, as auth_submit asks it again for a Confirm dialog.
WithinAutosign(a) == a.autosign

\* auth_submit in a dialog that asks for no password.  An expired window
\* demotes the dialog; refuse_unpermitted_send may refuse a transfer.
SubmitConfirm(remember) ==
    /\ Accepts /\ app.auth.open /\ ~app.keyBusy /\ app.auth.mode = "Confirm"
    /\ LET p == app.auth.purpose IN
       \/ /\ ~WithinAutosign(app)
          /\ app' = [Hidden(app) EXCEPT !.auth.mode = "Enter"]
          /\ last' = Nothing
       \/ /\ WithinAutosign(app) /\ app.pending[p] # NoTicket
          /\ app' = Dispatched(Hidden(app), p, remember)
          /\ last' = Confirmed(p, app, app.pending[p], Nothing, IF app.autosign THEN "window" ELSE "-")
    /\ UNCHANGED <<files, jobs>>

\* auth_submit with a password.  spawn_unlock first waits for the running
\* save and refuses when it failed.
SubmitPassword ==
    LET p == app.auth.purpose
        ticket == IF p \in Signing THEN app.pending[p] ELSE NoTicket
    IN  /\ Accepts /\ app.auth.open /\ ~app.keyBusy /\ CanSpawn
        /\ \/ app.auth.mode = "Enter"
           \/ app.auth.mode = "Create" /\ p = "ChangePassword"
        /\ p \in Signing => ticket # NoTicket
        /\ p = "ChangeSecuritySetting" => app.setting # NoSetting
        /\ app' = Spawned(Hidden(app), IF app.auth.mode = "Create" THEN "NewPassword" ELSE p,
                          app.vault, ticket,
                          IF p = "ChangeSecuritySetting" THEN app.setting ELSE NoSetting)
        /\ Quiet(<<files, jobs>>)

\* hide_seed and hide_storage_records, by command or at their deadline.
Hide(r) ==
    /\ app.teardown = NoTeardown /\ r \in app.shown
    /\ app' = [app EXCEPT !.shown = @ \ {r}]
    /\ Quiet(<<files, jobs>>)

\* activate_seed (import, use): a new identity in the same wallet.  The
\* waiting swap and storage request are dropped, key operations are not.
ActivateSeed ==
    /\ Accepts /\ ~Frozen
    /\ app' = [Hidden(app) EXCEPT
                  !.pending = [p \in Signing |-> IF p = "Send" THEN @[p] ELSE NoTicket]]
    /\ Quiet(<<files, jobs>>)

-----------------------------------------------------------------------------
(* Answers and timers.                                                     *)

\* A plausible bug: the answer of a cancelled key operation is taken.
MutAnyGeneration(a, op) == TRUE
\* apply_key_msg acts on a message of the current generation only.
Current(a, op) == op.fresh

Answered(a, op) ==
    [a EXCEPT !.keyBusy = FALSE, !.ops = {[o EXCEPT !.fresh = FALSE] : o \in @ \ {op}}]

DropStale(op) ==
    /\ op \in app.ops /\ ~Current(app, op)
    /\ app' = [app EXCEPT !.ops = @ \ {op}]
    /\ Quiet(<<files, jobs>>)

\* WrongPassword and Failed: a message on the dialog or the lock screen.
Refused(op) ==
    /\ op \in app.ops /\ Current(app, op)
    /\ app' = [Answered(app, op) EXCEPT !.target = IF op.action = "PickerDelete" THEN NoWallet ELSE @]
    /\ Quiet(<<files, jobs>>)

\* enter_app; a new wallet's file is written at once.
Entered(op) ==
    /\ op \in app.ops /\ Current(app, op) /\ op.action \in {"Unlock", "Create"}
    /\ app' = [Answered(app, op) EXCEPT
                  !.phase = "Unlocked", !.vault = op.of, !.sealed = FALSE, !.shown = {}]
    /\ files' = files \cup (IF op.action = "Create" THEN {op.of} ELSE {})
    /\ Quiet(jobs)

\* A new keyslot: saved at once, the window closes with the old password;
\* a failed save keeps the previous vault.
PasswordChanged(op) ==
    /\ op \in app.ops /\ Current(app, op) /\ op.action = "NewPassword"
    /\ app' = [Answered(app, op) EXCEPT !.auth.open = FALSE, !.autosign = FALSE]
    /\ Quiet(<<files, jobs>>)

\* finish_picker_delete: the file remembered when the password was asked.
PickerDeleted(op) ==
    /\ op \in app.ops /\ Current(app, op) /\ op.action = "PickerDelete"
    /\ app.target # NoWallet
    /\ \E gone \in {{}, {app.target}} :
         /\ files' = files \ gone
         /\ \E w \in IF app.store = app.target THEN (files \ gone) \cup {NoWallet} ELSE {app.store} :
              app' = [ProbePhase(Answered(app, op), files \ gone) EXCEPT !.target = NoWallet, !.store = w]
         /\ last' = IF gone = {} THEN Nothing
                    ELSE [Nothing EXCEPT !.kind = "PickerDelete", !.wallet = app.target, !.asked = op]
    /\ UNCHANGED jobs

Verified(op) ==
    /\ op \in app.ops /\ Current(app, op)
    /\ op.action \in Signing \cup Reveals \cup {"DeleteWallet", "ChangePassword", "ChangeSecuritySetting"}
    /\ Reauthorized(Answered(app, op), op)
    /\ UNCHANGED jobs

\* tick while a lock waits: the worker has stopped, or the wait is over and
\* the wallet stays open.
TeardownEnds ==
    /\ app.teardown # NoTeardown /\ ~jobs
    /\ Locks(app, app.teardown)
    /\ Quiet(jobs)

GivenUp(a) == [a EXCEPT !.teardown = NoTeardown, !.sealed = FALSE]
TeardownGivesUp ==
    /\ app.teardown # NoTeardown /\ jobs
    /\ app' = GivenUp(app)
    /\ Quiet(<<files, jobs>>)

\* tick: the screen lock.
IdleLock == Accepts /\ RequestLock(app, [then |-> "None", to |-> NoWallet]) /\ Quiet(jobs)

\* tick: the auto-sign window closes; only a transfer's dialog is demoted.
AutosignExpires ==
    /\ app.teardown = NoTeardown /\ app.autosign
    /\ app' = [app EXCEPT !.autosign = FALSE,
                  !.auth.mode = IF app.auth.open /\ @ = "Confirm" /\ app.auth.purpose = "Send"
                                THEN "Enter" ELSE @]
    /\ Quiet(<<files, jobs>>)

\* A fee estimate's worker; none starts under sealed key operations.
JobStarts ==
    /\ app.phase = "Unlocked" /\ ~app.sealed /\ ~jobs
    /\ jobs' = TRUE /\ Quiet(<<app, files>>)
JobEnds == jobs /\ jobs' = FALSE /\ Quiet(<<app, files>>)

\* shutdown: refused while a worker runs; otherwise flush and exit, to be
\* started again with what is on disk.
Shutdown ==
    /\ ~jobs
    /\ app' = ProbePhase(Started, files)
    /\ Quiet(<<files, jobs>>)

Init ==
    /\ files \in SUBSET Wallets
    /\ app = ProbePhase(Started, files)
    /\ jobs = FALSE /\ last = Nothing

Answers == \E op \in app.ops :
    DropStale(op) \/ Refused(op) \/ Entered(op) \/ PasswordChanged(op) \/ PickerDeleted(op) \/ Verified(op)

Next ==
    \/ BackToPicker \/ NewWalletRequest \/ Unlock
    \/ \E w \in Wallets : SelectWallet(w) \/ CreateWallet(w) \/ DeleteFromPicker(w) \/ SwitchToWallet(w)
    \/ LockNow \/ SwitchWallet \/ CancelAuth \/ ActivateSeed
    \/ \E p \in Signing : RequestSigning(p)
    \/ \E p \in Purposes : RequestDialog(p)
    \/ \E s \in Settings : RequestSetting(s)
    \/ SubmitPassword \/ \E remember \in BOOLEAN : SubmitConfirm(remember)
    \/ \E r \in Reveals : Hide(r)
    \/ Answers
    \/ TeardownEnds \/ TeardownGivesUp \/ IdleLock \/ AutosignExpires
    \/ JobStarts \/ JobEnds \/ Shutdown

Spec == Init /\ [][Next]_vars

-----------------------------------------------------------------------------
(* Properties.                                                             *)

\* Every signature, reveal, deletion and setting change of run_reauth_action
\* and auth_submit happens in the wallet whose password was checked for that
\* very request (or, for a signature, inside the auto-sign window), and a
\* signature takes the authorization the user was shown: one made by this
\* wallet, with the ticket the password was submitted for.
OnlyWhatWasConfirmed ==
    last.kind # "-" =>
        \/ /\ last.by = "password"
           /\ last.asked.action = last.kind /\ last.asked.of = last.wallet
           /\ last.kind \in Signing => last.ticket = last.asked.ticket /\ last.ticket.wallet = last.wallet
        \/ last.by = "window" /\ last.kind \in Signing /\ last.ticket.wallet = last.wallet
        \/ last.kind = "PickerDelete" /\ last.asked.action = "PickerDelete"
           /\ last.asked.of = last.wallet

\* The interface is never left waiting for an answer nobody will give:
\* key_busy is set exactly while one operation may still answer.
BusyMeansOneAnswerDue ==
    /\ app.keyBusy <=> \E op \in app.ops : op.fresh
    /\ \A o, q \in app.ops : o.fresh /\ q.fresh => o = q

\* The lock is complete: outside a session no vault, transfer authorization,
\* dialog, window or revealed secret is left, and an open wallet is sealed
\* only while a lock is waiting for the emulation worker.
LockIsComplete ==
    /\ app.phase # "Unlocked" =>
         /\ app.vault = NoWallet /\ app.pending["Send"] = NoTicket
         /\ ~app.auth.open /\ ~app.autosign /\ app.shown = {}
    /\ app.phase = "Unlocked" => app.vault # NoWallet /\ (app.sealed <=> app.teardown # NoTeardown)

\* The session is consistent in every state: what waits has an answer due, what
\* is locked is locked.  apply_key_msg, finish_lock
SessionIsConsistent == TypeOK /\ BusyMeansOneAnswerDue /\ LockIsComplete
=============================================================================
