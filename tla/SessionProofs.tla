--------------------------- MODULE SessionProofs ---------------------------
(***************************************************************************)
(* For every set of wallets, purposes and settings: run_reauth_action and  *)
(* auth_submit do only what was confirmed (OnlyWhatWasConfirmed), and the  *)
(* session is consistent in every state (SessionIsConsistent).             *)
(*                                                                         *)
(* Neither is inductive as it stands.  A late answer is harmless because a *)
(* key operation of the current generation belongs to the state it finds   *)
(* (Own): its wallet is the open one, its ticket is the waiting one or is  *)
(* numbered differently, and a picker deletion's target is the file the    *)
(* password was asked for.  That in turn rests on authorizations being     *)
(* numbered upwards and on the open dialog showing one of this wallet      *)
(* (Tickets), although a waiting swap or storage request survives a lock.  *)
(* Good puts the parts together; IInv is Good with the property.           *)
(*                                                                         *)
(* The second part is about SeedCustody, for every set of phrases, records *)
(* and texts and any number of clipboard faults: SecretsAreTracked and     *)
(* WipesOnlySecrets.  CustodyInv adds that a copy of the wallet's own is   *)
(* what its selection holds (Owned), so that a wipe which succeeds cannot  *)
(* have missed it, and that the mark of a backup is about the phrase that  *)
(* is staged (UiOK).                                                       *)
(***************************************************************************)
EXTENDS Session, SeedCustody, TLAPS

\* The dialog, the follow-up of a lock, and the controller's record.
Dialog == [open : BOOLEAN, mode : {"Enter", "Confirm", "Create"}, purpose : Purposes]
Follow == [then : {"-", "None", "Picker", "SwitchTo", "Delete"}, to : Wallets \cup {NoWallet}]
Controller ==
    [phase : {"Selecting", "Onboarding", "Locked", "Unlocked"},
     store : Wallets \cup {NoWallet}, vault : Wallets \cup {NoWallet},
     ops : SUBSET KeyOp, keyBusy : BOOLEAN,
     auth : Dialog,
     pending : [Signing -> Ticket], gen : 0..MaxAuth,
     setting : Settings \cup {NoSetting}, target : Wallets \cup {NoWallet},
     autosign : BOOLEAN, shown : SUBSET Reveals, sealed : BOOLEAN,
     teardown : Follow]

\* Only a signature can be confirmed without a password.
Typed(a) == a \in Controller /\ (a.auth.mode = "Confirm" => a.auth.purpose \in Signing)

\* Two controllers that differ in nothing but the key operations and the
\* waiting authorizations.
Alike(a, b) ==
    /\ b.phase = a.phase /\ b.store = a.store /\ b.vault = a.vault
    /\ b.auth = a.auth /\ b.gen = a.gen /\ b.setting = a.setting
    /\ b.target = a.target /\ b.autosign = a.autosign /\ b.shown = a.shown
    /\ b.sealed = a.sealed /\ b.teardown = a.teardown

\* key_busy and the operations that may still answer.
Busy(a) ==
    /\ a.keyBusy <=> \E op \in a.ops : op.fresh
    /\ \A o, q \in a.ops : o.fresh /\ q.fresh => o = q

\* Outside a session nothing of one is left.
Vacant(a) ==
    /\ a.vault = NoWallet /\ a.pending["Send"] = NoTicket
    /\ ~a.auth.open /\ ~a.autosign /\ a.shown = {}
    /\ a.teardown = NoTeardown

\* An open wallet is sealed exactly while its lock waits.
Open(a) ==
    /\ a.vault # NoWallet
    /\ a.sealed <=> a.teardown # NoTeardown
    /\ a.teardown # NoTeardown => a.teardown.then # "-"

Complete(a) == IF a.phase = "Unlocked" THEN Open(a) ELSE Vacant(a)

\* A key operation that may still answer belongs to the state it was started
\* in: the open wallet, or the file that was picked.
Outward == {"Unlock", "Create", "PickerDelete"}

Own(a, op) ==
    IF a.phase = "Unlocked"
    THEN /\ op.action \notin Outward /\ op.of = a.vault
         /\ op.action \in Signing =>
               /\ op.ticket.wallet = a.vault /\ op.ticket.gen \in 1..a.gen
               /\ a.pending[op.action].gen = op.ticket.gen
                     => a.pending[op.action] = op.ticket
    ELSE /\ op.action \in Outward
         /\ op.action = "PickerDelete" => a.target = op.of

\* Authorizations are numbered, and the open dialog shows one of this wallet.
Tickets(a) ==
    /\ \A p \in Signing : a.pending[p] = NoTicket \/ a.pending[p].gen \in 1..a.gen
    /\ \A p \in Signing : a.auth.open /\ a.auth.purpose = p
          => a.pending[p] = NoTicket \/ a.pending[p].wallet = a.vault

Good(a) ==
    /\ Typed(a)
    /\ Busy(a)
    /\ Complete(a)
    /\ \A op \in a.ops : op.fresh => Own(a, op)
    /\ Tickets(a)

\* The inductive invariant.
IInv ==
    /\ Good(app)
    /\ files \subseteq Wallets /\ jobs \in BOOLEAN
    /\ last.kind \in Purposes \cup {"-", "PickerDelete"}
    /\ OnlyWhatWasConfirmed

-----------------------------------------------------------------------------
(* What the helpers return.                                                *)

(* The values a fresh controller is built from.                            *)
LEMMA Constants ==
    /\ "Send" \in Signing /\ Signing \subseteq Purposes
    /\ NoTicket \in Ticket /\ NoTicket.gen = 0 /\ NoTicket.wallet = NoWallet
    /\ NoTeardown \in Follow /\ NoTeardown.then = "-"
    /\ ClosedAuth \in Dialog /\ ~ClosedAuth.open /\ ClosedAuth.mode = "Enter"
    /\ NoWallet \notin Wallets
    /\ \A p \in Purposes \cup {"NewPassword"} : p \notin Outward
    /\ Signing \cap (Reveals \cup {"ChangePassword", "DeleteWallet",
                                   "ChangeSecuritySetting", "NewPassword"}) = {}
  BY SessionAssumptions
     DEF Signing, Purposes, NoTicket, Ticket, NoTeardown, ClosedAuth, Outward, Follow, Dialog

(* A cancelled key operation.                                              *)
LEMMA StaleOp ==
    ASSUME NEW o \in KeyOp
    PROVE  [o EXCEPT !.fresh = FALSE] \in KeyOp /\ ~[o EXCEPT !.fresh = FALSE].fresh
  BY DEF KeyOp

LEMMA StaleOps ==
    ASSUME NEW S \in SUBSET KeyOp
    PROVE  LET T == {[o EXCEPT !.fresh = FALSE] : o \in S}
           IN  T \in SUBSET KeyOp /\ \A o \in T : ~o.fresh
  BY StaleOp, Zenon

(* invalidate_key_ops: nothing outstanding may answer, and no transfer     *)
(* waits.                                                                  *)
LEMMA InvalidateFacts ==
    ASSUME NEW a \in Controller
    PROVE  LET b == InvalidateKeyOps(a)
           IN  /\ b \in Controller /\ Alike(a, b)
               /\ b.keyBusy = FALSE /\ \A op \in b.ops : ~op.fresh
               /\ b.pending["Send"] = NoTicket
               /\ \A p \in Signing : b.pending[p] \in {a.pending[p], NoTicket}
  <1> DEFINE stale == {[o EXCEPT !.fresh = FALSE] : o \in a.ops}
             pend == [a.pending EXCEPT !["Send"] = NoTicket]
  <1>1. stale \in SUBSET KeyOp /\ \A op \in stale : ~op.fresh
    <2>1. a.ops \in SUBSET KeyOp
      BY DEF Controller
    <2> QED
      BY <2>1, StaleOps
  <1>2. /\ pend \in [Signing -> Ticket] /\ pend["Send"] = NoTicket
        /\ \A p \in Signing : pend[p] \in {a.pending[p], NoTicket}
    BY Constants DEF Controller
  <1>3. InvalidateKeyOps(a) = [a EXCEPT !.keyBusy = FALSE, !.pending = pend, !.ops = stale]
    BY DEF InvalidateKeyOps, Controller
  <1> HIDE DEF stale, pend
  <1> QED
    BY <1>1, <1>2, <1>3 DEF Controller, Alike

(* An answer is taken once, and everything else outstanding is stale.      *)
LEMMA AnsweredFacts ==
    ASSUME NEW a \in Controller, NEW op \in a.ops
    PROVE  LET b == Answered(a, op)
           IN  /\ b \in Controller /\ Alike(a, b) /\ b.pending = a.pending
               /\ b.keyBusy = FALSE /\ \A o \in b.ops : ~o.fresh
  <1> DEFINE stale == {[o EXCEPT !.fresh = FALSE] : o \in a.ops \ {op}}
  <1>1. stale \in SUBSET KeyOp /\ \A o \in stale : ~o.fresh
    <2>1. a.ops \ {op} \in SUBSET KeyOp
      BY DEF Controller
    <2> QED
      BY <2>1, StaleOps
  <1>2. Answered(a, op) = [a EXCEPT !.keyBusy = FALSE, !.ops = stale]
    BY DEF Answered
  <1> HIDE DEF stale
  <1> QED
    BY <1>1, <1>2 DEF Controller, Alike

(* A spawned operation is the only one that may answer.                    *)
LEMMA SpawnedFacts ==
    ASSUME NEW a \in Controller, NEW op \in KeyOp, op.fresh = TRUE,
           \A o \in a.ops : ~o.fresh
    PROVE  LET b == Spawned(a, op.action, op.of, op.ticket, op.setting)
           IN  /\ b \in Controller /\ Alike(a, b) /\ b.pending = a.pending
               /\ b.keyBusy = TRUE /\ op \in b.ops
               /\ \A o \in b.ops : o.fresh => o = op
  <1>1. op = [action |-> op.action, of |-> op.of, ticket |-> op.ticket,
              setting |-> op.setting, fresh |-> TRUE]
    BY DEF KeyOp
  <1> DEFINE more == a.ops \cup {op}
  <1>2. Spawned(a, op.action, op.of, op.ticket, op.setting)
          = [a EXCEPT !.keyBusy = TRUE, !.ops = more]
    BY <1>1 DEF Spawned
  <1>3. more \in SUBSET KeyOp
    BY DEF Controller
  <1>4. op \in more /\ \A o \in more : o.fresh => o = op
    OBVIOUS
  <1> HIDE DEF more
  <1> QED
    BY <1>2, <1>3, <1>4 DEF Controller, Alike

(* Every command but reveal, hide and copy hides the seed.                 *)
LEMMA HiddenGood ==
    ASSUME NEW a, Good(a)
    PROVE  LET b == Hidden(a)
           IN  /\ Good(b)
               /\ b.ops = a.ops /\ b.keyBusy = a.keyBusy
               /\ b.phase = a.phase /\ b.store = a.store /\ b.vault = a.vault
               /\ b.auth = a.auth /\ b.pending = a.pending /\ b.gen = a.gen
               /\ b.setting = a.setting /\ b.target = a.target
               /\ b.autosign = a.autosign /\ b.shown \subseteq a.shown
               /\ b.sealed = a.sealed /\ b.teardown = a.teardown
  <1> DEFINE b == Hidden(a)
  <1>1. a \in Controller
    BY DEF Good, Typed
  <1>2. /\ b \in Controller
        /\ b.ops = a.ops /\ b.keyBusy = a.keyBusy
        /\ b.phase = a.phase /\ b.store = a.store /\ b.vault = a.vault
        /\ b.auth = a.auth /\ b.pending = a.pending /\ b.gen = a.gen
        /\ b.setting = a.setting /\ b.target = a.target
        /\ b.autosign = a.autosign /\ b.shown \subseteq a.shown
        /\ b.sealed = a.sealed /\ b.teardown = a.teardown
    BY <1>1 DEF Hidden, Controller
  <1> HIDE DEF b
  <1>3. Good(b)
    BY <1>2 DEF Good, Typed, Busy, Complete, Open, Vacant, Own, Tickets
  <1> QED
    BY <1>2, <1>3 DEF b

(* A controller none of whose operations may answer.                       *)
LEMMA IdleGood ==
    ASSUME NEW a, Typed(a), a.keyBusy = FALSE, \A op \in a.ops : ~op.fresh,
           Complete(a), Tickets(a)
    PROVE  Good(a)
  BY DEF Good, Busy

(* Authorizations may be dropped, and dialogs closed.                      *)
LEMMA TicketsShrink ==
    ASSUME NEW a, NEW b, Tickets(a), b.gen = a.gen,
           \A p \in Signing : b.pending[p] \in {a.pending[p], NoTicket},
           b.auth.open => b.auth.purpose = a.auth.purpose /\ a.auth.open /\ b.vault = a.vault
    PROVE  Tickets(b)
  BY DEF Tickets

(* A started operation of the session it was started in.                   *)
LEMMA SpawnedGood ==
    ASSUME NEW a, Good(a), a.keyBusy = FALSE, NEW op \in KeyOp, op.fresh = TRUE, Own(a, op)
    PROVE  Good(Spawned(a, op.action, op.of, op.ticket, op.setting))
  <1> DEFINE b == Spawned(a, op.action, op.of, op.ticket, op.setting)
  <1>1. a \in Controller /\ \A o \in a.ops : ~o.fresh
    BY DEF Good, Typed, Busy
  <1>2. /\ b \in Controller /\ Alike(a, b) /\ b.pending = a.pending
        /\ b.keyBusy = TRUE /\ op \in b.ops
        /\ \A o \in b.ops : o.fresh => o = op
    BY <1>1, SpawnedFacts
  <1> HIDE DEF b
  <1>3. Typed(b) /\ Complete(b) /\ Tickets(b)
    BY <1>2 DEF Good, Typed, Complete, Open, Vacant, Tickets, Alike
  <1>4. Busy(b)
    BY <1>2 DEF Busy
  <1>5. Own(b, op)
    BY <1>2 DEF Own, Alike
  <1> QED
    BY <1>2, <1>3, <1>4, <1>5 DEF Good, b

-----------------------------------------------------------------------------
(* Leaving a session.                                                      *)

(* Outside a session the picker, onboarding and a picked wallet are the    *)
(* same to what is asked here.                                             *)
LEMMA OutsideGood ==
    ASSUME NEW a, Typed(a), Tickets(a), Vacant(a),
           NEW b \in Controller, b.phase # "Unlocked",
           b.keyBusy = FALSE, \A op \in b.ops : ~op.fresh,
           \A p \in Signing : b.pending[p] \in {a.pending[p], NoTicket},
           b.pending["Send"] = NoTicket, b.vault = a.vault, b.auth = a.auth,
           b.gen = a.gen, b.autosign = a.autosign, b.shown = {},
           b.teardown = a.teardown
    PROVE  Good(b)
  <1>1. Typed(b)
    BY DEF Typed
  <1>2. Complete(b)
    BY DEF Complete, Vacant
  <1>3. Tickets(b)
    BY TicketsShrink DEF Vacant
  <1> QED
    BY <1>1, <1>2, <1>3, IdleGood

LEMMA ProbeGood ==
    ASSUME NEW a, Typed(a), Tickets(a), Vacant(a), NEW disk
    PROVE  Good(ProbePhase(a, disk))
  <1> DEFINE c == InvalidateKeyOps(a)
             ph == IF disk = {} THEN "Onboarding" ELSE "Selecting"
             b == [c EXCEPT !.shown = {}, !.phase = ph]
  <1>1. /\ c \in Controller /\ Alike(a, c)
        /\ c.keyBusy = FALSE /\ \A op \in c.ops : ~op.fresh
        /\ c.pending["Send"] = NoTicket
        /\ \A p \in Signing : c.pending[p] \in {a.pending[p], NoTicket}
    BY InvalidateFacts DEF Typed
  <1>2. ph \in {"Onboarding", "Selecting"}
    OBVIOUS
  <1>3. ProbePhase(a, disk) = b
    BY DEF ProbePhase
  <1> HIDE DEF c, ph
  <1>4. /\ b \in Controller /\ b.phase # "Unlocked"
        /\ b.keyBusy = FALSE /\ b.ops = c.ops /\ b.pending = c.pending
        /\ b.vault = c.vault /\ b.auth = c.auth /\ b.gen = c.gen
        /\ b.autosign = c.autosign /\ b.shown = {} /\ b.teardown = c.teardown
    BY <1>1, <1>2 DEF Controller
  <1> HIDE DEF b
  <1>5. Good(b)
    BY <1>1, <1>4, OutsideGood DEF Alike
  <1> QED
    BY <1>3, <1>5

LEMMA SelectedGood ==
    ASSUME NEW a, Typed(a), Tickets(a), Vacant(a), NEW w \in Wallets
    PROVE  Good(SelectedWallet(a, w))
  <1> DEFINE c == InvalidateKeyOps(a)
             b == [c EXCEPT !.store = w, !.phase = "Locked"]
  <1>1. /\ c \in Controller /\ Alike(a, c)
        /\ c.keyBusy = FALSE /\ \A op \in c.ops : ~op.fresh
        /\ c.pending["Send"] = NoTicket
        /\ \A p \in Signing : c.pending[p] \in {a.pending[p], NoTicket}
    BY InvalidateFacts DEF Typed
  <1>3. SelectedWallet(a, w) = b
    BY DEF SelectedWallet
  <1> HIDE DEF c
  <1>4. /\ b \in Controller /\ b.phase # "Unlocked"
        /\ b.keyBusy = FALSE /\ b.ops = c.ops /\ b.pending = c.pending
        /\ b.vault = c.vault /\ b.auth = c.auth /\ b.gen = c.gen
        /\ b.autosign = c.autosign /\ b.shown = c.shown /\ b.teardown = c.teardown
    BY <1>1 DEF Controller
  <1> HIDE DEF b
  <1>5. Good(b)
    BY <1>1, <1>4, OutsideGood DEF Alike, Vacant
  <1> QED
    BY <1>3, <1>5

(* finish_lock leaves nothing of the session, whatever it was.             *)
LEMMA FinishLockGood ==
    ASSUME NEW a, Typed(a), Tickets(a)
    PROVE  LET b == FinishLock(a)
           IN  Good(b) /\ Vacant(b) /\ b.phase # "Unlocked" /\ b.store = a.store
  <1> DEFINE c == InvalidateKeyOps(a)
             b == [c EXCEPT !.phase = "Locked", !.vault = NoWallet, !.auth = ClosedAuth,
                            !.autosign = FALSE, !.shown = {}, !.teardown = NoTeardown]
  <1>1. /\ c \in Controller /\ Alike(a, c)
        /\ c.keyBusy = FALSE /\ \A op \in c.ops : ~op.fresh
        /\ c.pending["Send"] = NoTicket
        /\ \A p \in Signing : c.pending[p] \in {a.pending[p], NoTicket}
    BY InvalidateFacts DEF Typed
  <1>2. FinishLock(a) = b
    BY DEF FinishLock
  <1> HIDE DEF c
  <1>3. /\ b \in Controller /\ b.phase = "Locked" /\ b.vault = NoWallet
        /\ b.keyBusy = FALSE /\ b.ops = c.ops /\ b.pending = c.pending
        /\ b.auth = ClosedAuth /\ b.gen = c.gen /\ b.store = c.store
        /\ b.autosign = FALSE /\ b.shown = {} /\ b.teardown = NoTeardown
    BY <1>1, Constants DEF Controller
  <1> HIDE DEF b
  <1>4. Typed(b)
    BY <1>3, Constants DEF Typed
  <1>5. Vacant(b) /\ Complete(b)
    BY <1>1, <1>3, Constants DEF Complete, Vacant
  <1>6. Tickets(b)
    BY <1>1, <1>3, Constants, TicketsShrink DEF Alike
  <1>7. Good(b)
    BY <1>1, <1>3, <1>4, <1>5, <1>6, IdleGood
  <1> QED
    BY <1>1, <1>2, <1>3, <1>5, <1>7 DEF Alike

(* The end of a lock, with or without its follow-up.                       *)
LEMMA LocksGood ==
    ASSUME NEW a, Typed(a), Tickets(a), NEW t \in Follow, t.then # "-",
           files \subseteq Wallets, Locks(a, t)
    PROVE  Good(app') /\ files' \subseteq Wallets
  <1> DEFINE b == FinishLock(a)
             r == FollowUp(b, t, files)
  <1>1. Good(b) /\ Typed(b) /\ Tickets(b) /\ Vacant(b)
    BY FinishLockGood DEF Good
  <1>2. CASE DestroyFails(a, t)
    BY <1>1, <1>2 DEF DestroyFails
  <1>3. CASE app' = r.app /\ files' = r.files
    <2>1. t.then \in {"None", "Picker", "SwitchTo", "Delete"} /\ t.to \in Wallets \cup {NoWallet}
      BY DEF Follow
    <2> HIDE DEF b
    <2>2. CASE t.then = "None"
      <3>1. r = [app |-> b, files |-> files]
        BY <2>2 DEF FollowUp
      <3> QED
        BY <1>1, <1>3, <3>1
    <2>3. CASE t.then = "Picker"
      <3>1. r = [app |-> ProbePhase(b, files), files |-> files]
        BY <2>3 DEF FollowUp
      <3> QED
        BY <1>1, <1>3, <3>1, ProbeGood
    <2>4. CASE t.then = "SwitchTo"
      <3>1. r = [app |-> IF t.to \in files THEN SelectedWallet(b, t.to) ELSE ProbePhase(b, files),
                 files |-> files]
        BY <2>4 DEF FollowUp
      <3> QED
        BY <1>1, <1>3, <3>1, ProbeGood, SelectedGood
    <2>5. CASE t.then = "Delete"
      <3>1. r = [app |-> ProbePhase(b, files \ {b.store}), files |-> files \ {b.store}]
        BY <2>5 DEF FollowUp
      <3> QED
        BY <1>1, <1>3, <3>1, ProbeGood
    <2> QED
      BY <2>1, <2>2, <2>3, <2>4, <2>5
  <1> QED
    BY <1>2, <1>3 DEF Locks

(* request_lock, at once or waiting for the emulation worker.              *)
LEMMA RequestLockGood ==
    ASSUME NEW a, Good(a), a.phase = "Unlocked", NEW t \in Follow, t.then # "-",
           files \subseteq Wallets, RequestLock(a, t)
    PROVE  Good(app') /\ files' \subseteq Wallets
  <1>1. a \in Controller
    BY DEF Good, Typed
  <1>2. CASE a.teardown # NoTeardown
    BY <1>2 DEF RequestLock
  <1>3. CASE a.teardown = NoTeardown /\ jobs
    <2> DEFINE b == [a EXCEPT !.sealed = TRUE, !.teardown = t]
    <2>1. app' = b /\ files' = files
      BY <1>3 DEF RequestLock
    <2>2. /\ b \in Controller /\ b.sealed = TRUE /\ b.teardown = t
          /\ b.ops = a.ops /\ b.keyBusy = a.keyBusy /\ b.phase = a.phase
          /\ b.vault = a.vault /\ b.auth = a.auth /\ b.pending = a.pending
          /\ b.gen = a.gen /\ b.target = a.target
      BY <1>1 DEF Controller
    <2> HIDE DEF b
    <2>3. t # NoTeardown
      BY Constants
    <2>4. Good(b)
      BY <2>2, <2>3 DEF Good, Typed, Busy, Complete, Open, Own, Tickets
    <2> QED
      BY <2>1, <2>4
  <1>4. CASE a.teardown = NoTeardown /\ ~jobs
    <2> DEFINE b == [a EXCEPT !.sealed = TRUE]
    <2>1. Locks(b, t)
      BY <1>4 DEF RequestLock
    <2>2. /\ b \in Controller /\ b.vault = a.vault /\ b.auth = a.auth
          /\ b.pending = a.pending /\ b.gen = a.gen
      BY <1>1 DEF Controller
    <2> HIDE DEF b
    <2>3. Typed(b) /\ Tickets(b)
      BY <2>2 DEF Good, Typed, Tickets
    <2> QED
      BY <2>1, <2>3, LocksGood
  <1> QED
    BY <1>2, <1>3, <1>4

-----------------------------------------------------------------------------
(* Every action preserves IInv.                                            *)

(* A step without a guarded effect.                                        *)
LEMMA QuietStep ==
    ASSUME Good(app'), files' \subseteq Wallets, jobs' \in BOOLEAN, last' = Nothing
    PROVE  IInv'
  BY DEF IInv, Nothing, OnlyWhatWasConfirmed

(* Steps that leave the key operations as they are, and at most drop       *)
(* waiting authorizations.                                                 *)
LEMMA OpsKept ==
    ASSUME NEW a, Good(a), NEW b, b.ops = a.ops, b.keyBusy = a.keyBusy,
           b.phase = a.phase, b.vault = a.vault, b.target = a.target, b.gen = a.gen,
           \A p \in Signing : b.pending[p] \in {a.pending[p], NoTicket},
           Typed(b), Complete(b), Tickets(b)
    PROVE  Good(b)
  <1>1. Busy(b)
    BY DEF Good, Busy
  <1>2. ASSUME NEW op \in b.ops, op.fresh PROVE Own(b, op)
    <2>1. Own(a, op)
      BY <1>2 DEF Good
    <2>2. a.gen \in Nat
      BY SessionAssumptions DEF Good, Typed, Controller
    <2> QED
      BY <2>1, <2>2, Constants DEF Own
  <1> QED
    BY <1>1, <1>2 DEF Good

LEMMA OutsideIsEmpty ==
    ASSUME NEW a, Good(a), a.phase # "Unlocked"
    PROVE  a \in Controller /\ Typed(a) /\ Tickets(a) /\ Vacant(a)
  BY DEF Good, Typed, Complete

LEMMA BackToPickerSafe == IInv /\ BackToPicker => IInv'
  BY OutsideIsEmpty, ProbeGood, QuietStep DEF IInv, BackToPicker, Outside, Quiet

LEMMA SelectWalletSafe ==
    ASSUME NEW w \in Wallets, IInv, SelectWallet(w)
    PROVE  IInv'
  BY OutsideIsEmpty, SelectedGood, QuietStep DEF IInv, SelectWallet, Outside, Quiet

LEMMA NewWalletRequestSafe == IInv /\ NewWalletRequest => IInv'
  <1> SUFFICES ASSUME IInv, NewWalletRequest PROVE IInv'
    OBVIOUS
  <1> DEFINE c == InvalidateKeyOps(app)
             b == [c EXCEPT !.phase = "Onboarding", !.shown = {}]
  <1>1. app \in Controller /\ Typed(app) /\ Tickets(app) /\ Vacant(app)
    BY OutsideIsEmpty DEF IInv, NewWalletRequest, Outside
  <1>2. /\ c \in Controller /\ Alike(app, c)
        /\ c.keyBusy = FALSE /\ \A op \in c.ops : ~op.fresh
        /\ c.pending["Send"] = NoTicket
        /\ \A p \in Signing : c.pending[p] \in {app.pending[p], NoTicket}
    BY <1>1, InvalidateFacts
  <1>3. app' = b /\ last' = Nothing /\ files' = files /\ jobs' = jobs
    BY DEF NewWalletRequest, Quiet
  <1> HIDE DEF c
  <1>4. /\ b \in Controller /\ b.phase # "Unlocked"
        /\ b.keyBusy = FALSE /\ b.ops = c.ops /\ b.pending = c.pending
        /\ b.vault = c.vault /\ b.auth = c.auth /\ b.gen = c.gen
        /\ b.autosign = c.autosign /\ b.shown = {} /\ b.teardown = c.teardown
    BY <1>2 DEF Controller
  <1> HIDE DEF b
  <1>5. Good(b)
    BY <1>1, <1>2, <1>4, OutsideGood DEF Alike
  <1> QED
    BY <1>3, <1>5, QuietStep DEF IInv

(* A record that names a key operation is one.                             *)
LEMMA OutwardOp ==
    ASSUME NEW action \in Outward, NEW w \in Wallets
    PROVE  LET op == [action |-> action, of |-> w, ticket |-> NoTicket,
                      setting |-> NoSetting, fresh |-> TRUE]
           IN  op \in KeyOp
  BY Constants DEF KeyOp, Outward

LEMMA SpawnOutward ==
    ASSUME NEW a, Good(a), a.phase # "Unlocked", a.keyBusy = FALSE,
           NEW action \in Outward, NEW w \in Wallets,
           action = "PickerDelete" => a.target = w
    PROVE  Good(Spawned(a, action, w, NoTicket, NoSetting))
  <1> DEFINE op == [action |-> action, of |-> w, ticket |-> NoTicket,
                    setting |-> NoSetting, fresh |-> TRUE]
  <1>1. op \in KeyOp
    BY OutwardOp
  <1>2. /\ op.action = action /\ op.of = w /\ op.ticket = NoTicket
        /\ op.setting = NoSetting /\ op.fresh = TRUE
    OBVIOUS
  <1> HIDE DEF op
  <1>3. Own(a, op)
    BY <1>2 DEF Own
  <1>4. Good(Spawned(a, op.action, op.of, op.ticket, op.setting))
    BY <1>1, <1>2, <1>3, SpawnedGood
  <1> QED
    BY <1>2, <1>4

LEMMA CreateWalletSafe ==
    ASSUME NEW w \in Wallets, IInv, CreateWallet(w)
    PROVE  IInv'
  <1> DEFINE b == [app EXCEPT !.store = w]
  <1>1. app \in Controller /\ Good(app) /\ app.phase # "Unlocked"
    BY DEF IInv, Good, Typed, CreateWallet, Outside
  <1>2. /\ b \in Controller /\ b.ops = app.ops /\ b.keyBusy = app.keyBusy
        /\ b.phase = app.phase /\ b.vault = app.vault /\ b.auth = app.auth
        /\ b.pending = app.pending /\ b.gen = app.gen /\ b.target = app.target
        /\ b.autosign = app.autosign /\ b.shown = app.shown
        /\ b.sealed = app.sealed /\ b.teardown = app.teardown
    BY <1>1 DEF Controller
  <1>3. app' = IF app.keyBusy THEN b ELSE Spawned(b, "Create", w, NoTicket, NoSetting)
    BY DEF CreateWallet
  <1> HIDE DEF b
  <1>4. Good(b)
    BY <1>1, <1>2 DEF Good, Typed, Busy, Complete, Vacant, Own, Tickets
  <1>5. app.keyBusy \in BOOLEAN
    BY <1>1 DEF Controller
  <1>6. Good(app')
    BY <1>1, <1>2, <1>3, <1>4, <1>5, SpawnOutward DEF Outward
  <1> QED
    BY <1>6, QuietStep DEF IInv, CreateWallet, Quiet

LEMMA UnlockSafe == IInv /\ Unlock => IInv'
  <1> SUFFICES ASSUME IInv, Unlock PROVE IInv'
    OBVIOUS
  <1>1. Good(app) /\ app.phase # "Unlocked" /\ app.store \in Wallets /\ app.keyBusy = FALSE
    BY DEF IInv, Good, Typed, Controller, Unlock, Outside
  <1>2. app' = Spawned(app, "Unlock", app.store, NoTicket, NoSetting)
    BY DEF Unlock
  <1>3. Good(app')
    BY <1>1, <1>2, SpawnOutward DEF Outward
  <1> QED
    BY <1>3, QuietStep DEF IInv, Unlock, Quiet

LEMMA DeleteFromPickerSafe ==
    ASSUME NEW w \in Wallets, IInv, DeleteFromPicker(w)
    PROVE  IInv'
  <1> DEFINE b == [app EXCEPT !.target = w]
  <1>1. app \in Controller /\ Good(app) /\ app.phase # "Unlocked" /\ app.keyBusy = FALSE
    BY DEF IInv, Good, Typed, Controller, DeleteFromPicker, Outside
  <1>2. /\ b \in Controller /\ b.ops = app.ops /\ b.keyBusy = app.keyBusy
        /\ b.phase = app.phase /\ b.vault = app.vault /\ b.auth = app.auth
        /\ b.pending = app.pending /\ b.gen = app.gen /\ b.target = w
        /\ b.autosign = app.autosign /\ b.shown = app.shown
        /\ b.sealed = app.sealed /\ b.teardown = app.teardown
    BY <1>1 DEF Controller
  <1>3. app' = Spawned(b, "PickerDelete", w, NoTicket, NoSetting)
    BY <1>1 DEF DeleteFromPicker, Spawned, Controller
  <1> HIDE DEF b
  <1>4. Good(b)
    BY <1>1, <1>2 DEF Good, Typed, Busy, Complete, Vacant, Tickets
  <1>5. Good(app')
    BY <1>1, <1>2, <1>3, <1>4, SpawnOutward DEF Outward
  <1> QED
    BY <1>5, QuietStep DEF IInv, DeleteFromPicker, Quiet

(* The four ways to ask for a lock.                                        *)
LEMMA LockRequestsSafe ==
    ASSUME IInv, \/ LockNow \/ SwitchWallet \/ IdleLock
                 \/ \E w \in Wallets : SwitchToWallet(w)
    PROVE  IInv'
  <1>1. Good(app) /\ files \subseteq Wallets /\ jobs \in BOOLEAN
    BY DEF IInv
  <1>2. /\ app.phase = "Unlocked" /\ last' = Nothing /\ jobs' = jobs
        /\ \E a \in {app, Hidden(app)}, t \in Follow : t.then # "-" /\ RequestLock(a, t)
    BY DEF LockNow, SwitchWallet, IdleLock, SwitchToWallet, Accepts, Quiet, Follow
  <1>3. PICK a \in {app, Hidden(app)}, t \in Follow : t.then # "-" /\ RequestLock(a, t)
    BY <1>2
  <1>4. Good(a) /\ a.phase = "Unlocked"
    BY <1>1, <1>2, HiddenGood
  <1>5. Good(app') /\ files' \subseteq Wallets
    BY <1>1, <1>3, <1>4, RequestLockGood
  <1> QED
    BY <1>1, <1>2, <1>5, QuietStep

-----------------------------------------------------------------------------
(* The authorization dialog.                                               *)

LEMMA OpenAuthGood ==
    ASSUME NEW a, Good(a), a.phase = "Unlocked", NEW p \in Purposes,
           p \in Signing => a.pending[p] = NoTicket \/ a.pending[p].wallet = a.vault
    PROVE  Good(OpenAuth(a, p))
  <1> DEFINE m == IF p \in Signing /\ a.autosign THEN "Confirm" ELSE "Enter"
             d == [open |-> TRUE, purpose |-> p, mode |-> m]
             b == [a EXCEPT !.auth = d]
  <1>1. a \in Controller
    BY DEF Good, Typed
  <1>2. m \in {"Confirm", "Enter"} /\ (m = "Confirm" => p \in Signing)
    OBVIOUS
  <1>3. OpenAuth(a, p) = b
    BY DEF OpenAuth
  <1> HIDE DEF m
  <1>4. d \in Dialog /\ d.open = TRUE /\ d.purpose = p /\ d.mode = m
    BY <1>2 DEF Dialog
  <1> HIDE DEF d
  <1>5. /\ b \in Controller /\ b.ops = a.ops /\ b.keyBusy = a.keyBusy
        /\ b.phase = a.phase /\ b.vault = a.vault /\ b.auth = d
        /\ b.pending = a.pending /\ b.gen = a.gen /\ b.target = a.target
        /\ b.sealed = a.sealed /\ b.teardown = a.teardown
    BY <1>1, <1>4 DEF Controller
  <1> HIDE DEF b
  <1>6. Typed(b)
    BY <1>2, <1>4, <1>5 DEF Typed
  <1>7. Complete(b)
    BY <1>5 DEF Good, Complete, Open
  <1>8. Tickets(b)
    BY <1>4, <1>5 DEF Good, Tickets
  <1>9. Good(b)
    BY <1>5, <1>6, <1>7, <1>8, OpsKept
  <1> QED
    BY <1>3, <1>9

(* A new authorization has a number no operation carries.                  *)
LEMMA RequestSigningSafe ==
    ASSUME NEW p \in Signing, IInv, RequestSigning(p)
    PROVE  IInv'
  <1> DEFINE h == Hidden(app)
             g == app.gen + 1
             ticket == [wallet |-> app.vault, gen |-> g]
             pend == [h.pending EXCEPT ![p] = ticket]
             b == [h EXCEPT !.gen = g, !.pending = pend]
  <1>1. /\ Good(h) /\ h.phase = "Unlocked" /\ h.pending = app.pending
        /\ h.gen = app.gen /\ h.vault = app.vault
    BY HiddenGood DEF IInv, RequestSigning, Accepts
  <1>2. h \in Controller /\ h.vault \in Wallets \cup {NoWallet} /\ h.pending \in [Signing -> Ticket]
    BY <1>1 DEF Good, Typed, Controller
  <1>3. g \in 0..MaxAuth /\ g = h.gen + 1 /\ h.gen \in Nat
    BY <1>1, <1>2, SessionAssumptions DEF Controller, RequestSigning
  <1>4. app' = OpenAuth(b, p) /\ files' = files /\ jobs' = jobs /\ last' = Nothing
    BY <1>2 DEF RequestSigning, Quiet, Controller
  <1> HIDE DEF h, g
  <1>5. ticket \in Ticket /\ ticket.wallet = h.vault /\ ticket.gen = g
    BY <1>1, <1>2, <1>3 DEF Ticket
  <1> HIDE DEF ticket
  <1>6. /\ pend \in [Signing -> Ticket] /\ pend[p] = ticket
        /\ \A q \in Signing : q # p => pend[q] = h.pending[q]
    BY <1>2, <1>5
  <1> HIDE DEF pend
  <1>7. /\ b \in Controller /\ b.ops = h.ops /\ b.keyBusy = h.keyBusy
        /\ b.phase = h.phase /\ b.vault = h.vault /\ b.auth = h.auth
        /\ b.pending = pend /\ b.gen = g /\ b.target = h.target
        /\ b.sealed = h.sealed /\ b.teardown = h.teardown
    BY <1>2, <1>3, <1>6 DEF Controller
  <1> HIDE DEF b
  <1>8. Typed(b) /\ Complete(b) /\ Busy(b)
    BY <1>1, <1>7 DEF Good, Typed, Complete, Open, Busy
  <1>9. Tickets(b)
    <2>1. Tickets(h)
      BY <1>1 DEF Good
    <2>2. \A q \in Signing : pend[q] = NoTicket \/ pend[q].gen \in 1..g
      BY <2>1, <1>3, <1>5, <1>6 DEF Tickets
    <2>3. \A q \in Signing : h.auth.open /\ h.auth.purpose = q
             => pend[q] = NoTicket \/ pend[q].wallet = h.vault
      BY <2>1, <1>5, <1>6 DEF Tickets
    <2> QED
      BY <1>7, <2>2, <2>3 DEF Tickets
  <1>10. ASSUME NEW op \in b.ops, op.fresh PROVE Own(b, op)
    <2>1. Own(h, op) /\ op.action \notin Outward /\ op.of = h.vault
      BY <1>1, <1>7, <1>10 DEF Good, Own
    <2>2. ASSUME op.action \in Signing
          PROVE  /\ op.ticket.wallet = h.vault /\ op.ticket.gen \in 1..g
                 /\ pend[op.action].gen = op.ticket.gen => pend[op.action] = op.ticket
      <3>1. /\ op.ticket.wallet = h.vault /\ op.ticket.gen \in 1..h.gen
            /\ h.pending[op.action].gen = op.ticket.gen
                  => h.pending[op.action] = op.ticket
        BY <1>1, <2>1, <2>2 DEF Own
      <3> QED
        BY <3>1, <2>2, <1>3, <1>5, <1>6
    <2> QED
      BY <1>1, <1>7, <2>1, <2>2 DEF Own
  <1>11. Good(b)
    BY <1>8, <1>9, <1>10 DEF Good
  <1>12. Good(app')
    BY <1>1, <1>4, <1>5, <1>6, <1>7, <1>11, OpenAuthGood, Constants
  <1> QED
    BY <1>4, <1>12, QuietStep DEF IInv

LEMMA RequestDialogSafe ==
    ASSUME NEW p \in Purposes, IInv, RequestDialog(p)
    PROVE  IInv'
  <1>1. PICK a \in {app, Hidden(app)} : app' = OpenAuth(a, p)
    BY DEF RequestDialog
  <1>2. Good(a) /\ a.phase = "Unlocked"
    BY HiddenGood DEF IInv, RequestDialog, Accepts
  <1>3. p \notin Signing
    BY Constants DEF RequestDialog
  <1> QED
    BY <1>1, <1>2, <1>3, OpenAuthGood, QuietStep DEF IInv, RequestDialog, Quiet

LEMMA RequestSettingSafe ==
    ASSUME NEW s \in Settings, IInv, RequestSetting(s)
    PROVE  IInv'
  <1> DEFINE h == Hidden(app)
             b == [h EXCEPT !.setting = s]
  <1>1. Good(h) /\ h \in Controller /\ h.phase = "Unlocked"
    BY HiddenGood DEF IInv, RequestSetting, Accepts, Good, Typed
  <1>2. app' = OpenAuth(b, "ChangeSecuritySetting")
    BY DEF RequestSetting
  <1> HIDE DEF h
  <1>3. /\ b \in Controller /\ b.ops = h.ops /\ b.keyBusy = h.keyBusy
        /\ b.phase = h.phase /\ b.vault = h.vault /\ b.auth = h.auth
        /\ b.pending = h.pending /\ b.gen = h.gen /\ b.target = h.target
        /\ b.sealed = h.sealed /\ b.teardown = h.teardown
    BY <1>1 DEF Controller
  <1> HIDE DEF b
  <1>4. Good(b)
    BY <1>1, <1>3 DEF Good, Typed, Busy, Complete, Open, Own, Tickets
  <1>5. "ChangeSecuritySetting" \in Purposes /\ "ChangeSecuritySetting" \notin Signing
    BY Constants DEF Purposes
  <1>6. Good(app')
    BY <1>1, <1>2, <1>3, <1>4, <1>5, OpenAuthGood
  <1> QED
    BY <1>6, QuietStep DEF IInv, RequestSetting, Quiet

(* A dialog that is closed, with what else its end changes.                *)
LEMMA DialogCloses ==
    ASSUME NEW a \in Controller
    PROVE  LET d == [a.auth EXCEPT !.open = FALSE]
           IN  /\ d \in Dialog /\ d.open = FALSE
               /\ d.mode = a.auth.mode /\ d.purpose = a.auth.purpose
  BY DEF Controller, Dialog

LEMMA CancelAuthSafe == IInv /\ CancelAuth => IInv'
  <1> SUFFICES ASSUME IInv, CancelAuth PROVE IInv'
    OBVIOUS
  <1> DEFINE h == Hidden(app)
             c == InvalidateKeyOps(h)
             d == [c.auth EXCEPT !.open = FALSE]
             pend == [p \in Signing |-> NoTicket]
             b == [c EXCEPT !.auth = d, !.setting = NoSetting, !.pending = pend]
  <1>1. Good(h) /\ h \in Controller /\ h.phase = "Unlocked"
    BY HiddenGood DEF IInv, CancelAuth, Accepts, Good, Typed
  <1> HIDE DEF h
  <1>2. /\ c \in Controller /\ Alike(h, c)
        /\ c.keyBusy = FALSE /\ \A op \in c.ops : ~op.fresh
    BY <1>1, InvalidateFacts
  <1>3. app' = [c EXCEPT !.auth.open = FALSE, !.setting = NoSetting, !.pending = pend]
    BY DEF CancelAuth, h
  <1> HIDE DEF c
  <1>4. app' = b
    BY <1>2, <1>3 DEF Controller
  <1>5. /\ d \in Dialog /\ d.open = FALSE /\ d.mode = c.auth.mode
        /\ d.purpose = c.auth.purpose
    BY <1>2, DialogCloses
  <1>6. pend \in [Signing -> Ticket] /\ \A p \in Signing : pend[p] = NoTicket
    BY Constants
  <1> HIDE DEF d, pend
  <1>7. /\ b \in Controller /\ b.ops = c.ops /\ b.keyBusy = c.keyBusy
        /\ b.phase = c.phase /\ b.vault = c.vault /\ b.auth = d
        /\ b.pending = pend /\ b.gen = c.gen
        /\ b.sealed = c.sealed /\ b.teardown = c.teardown
    BY <1>2, <1>5, <1>6 DEF Controller
  <1> HIDE DEF b
  <1>8. Typed(b) /\ Complete(b)
    BY <1>1, <1>2, <1>5, <1>7 DEF Good, Typed, Complete, Open, Alike
  <1>9. Tickets(b)
    BY <1>5, <1>6, <1>7 DEF Tickets
  <1>10. Good(app')
    BY <1>2, <1>4, <1>7, <1>8, <1>9, IdleGood
  <1> QED
    BY <1>10, QuietStep DEF IInv, CancelAuth, Quiet

LEMMA HideSafe ==
    ASSUME NEW r \in Reveals, IInv, Hide(r)
    PROVE  IInv'
  <1> DEFINE b == [app EXCEPT !.shown = app.shown \ {r}]
  <1>1. Good(app) /\ app \in Controller
    BY DEF IInv, Good, Typed
  <1>2. app' = b
    BY <1>1 DEF Hide, Controller
  <1>3. /\ b \in Controller /\ b.ops = app.ops /\ b.keyBusy = app.keyBusy
        /\ b.phase = app.phase /\ b.vault = app.vault /\ b.auth = app.auth
        /\ b.pending = app.pending /\ b.gen = app.gen /\ b.target = app.target
        /\ b.autosign = app.autosign /\ b.shown \subseteq app.shown
        /\ b.sealed = app.sealed /\ b.teardown = app.teardown
    BY <1>1 DEF Controller
  <1> HIDE DEF b
  <1>4. Good(b)
    BY <1>1, <1>3 DEF Good, Typed, Busy, Complete, Open, Vacant, Own, Tickets
  <1> QED
    BY <1>2, <1>4, QuietStep DEF IInv, Hide, Quiet

LEMMA ActivateSeedSafe == IInv /\ ActivateSeed => IInv'
  <1> SUFFICES ASSUME IInv, ActivateSeed PROVE IInv'
    OBVIOUS
  <1> DEFINE h == Hidden(app)
             pend == [p \in Signing |-> IF p = "Send" THEN h.pending[p] ELSE NoTicket]
             b == [h EXCEPT !.pending = pend]
  <1>1. Good(h) /\ h \in Controller /\ h.phase = "Unlocked"
    BY HiddenGood DEF IInv, ActivateSeed, Accepts, Good, Typed
  <1>2. app' = b
    BY <1>1 DEF ActivateSeed, Controller
  <1> HIDE DEF h
  <1>3. /\ pend \in [Signing -> Ticket]
        /\ \A p \in Signing : pend[p] \in {h.pending[p], NoTicket}
    BY <1>1, Constants DEF Controller
  <1> HIDE DEF pend
  <1>4. /\ b \in Controller /\ b.ops = h.ops /\ b.keyBusy = h.keyBusy
        /\ b.phase = h.phase /\ b.vault = h.vault /\ b.auth = h.auth
        /\ b.pending = pend /\ b.gen = h.gen /\ b.target = h.target
        /\ b.sealed = h.sealed /\ b.teardown = h.teardown
    BY <1>1, <1>3 DEF Controller
  <1> HIDE DEF b
  <1>5. Typed(b) /\ Complete(b)
    BY <1>1, <1>4 DEF Good, Typed, Complete, Open
  <1>6. Tickets(b)
    BY <1>1, <1>3, <1>4, TicketsShrink DEF Good
  <1>7. Good(b)
    BY <1>1, <1>3, <1>4, <1>5, <1>6, OpsKept
  <1> QED
    BY <1>2, <1>7, QuietStep DEF IInv, ActivateSeed, Quiet

(* A signature takes its authorization and closes its dialog.              *)
LEMMA DispatchedGood ==
    ASSUME NEW a, Good(a), a.phase = "Unlocked", NEW p \in Signing, NEW remember \in BOOLEAN
    PROVE  Good(Dispatched(a, p, remember))
  <1> DEFINE d == [a.auth EXCEPT !.open = FALSE]
             pend == [a.pending EXCEPT ![p] = NoTicket]
             s == a.autosign \/ remember
             b == [a EXCEPT !.pending = pend, !.auth = d, !.autosign = s]
  <1>1. a \in Controller
    BY DEF Good, Typed
  <1>2. Dispatched(a, p, remember) = b
    BY <1>1 DEF Dispatched, Controller
  <1>3. /\ d \in Dialog /\ d.open = FALSE /\ d.mode = a.auth.mode
        /\ d.purpose = a.auth.purpose
    BY <1>1, DialogCloses
  <1>4. /\ pend \in [Signing -> Ticket]
        /\ \A q \in Signing : pend[q] \in {a.pending[q], NoTicket}
    BY <1>1, Constants DEF Controller
  <1>5. s \in BOOLEAN
    OBVIOUS
  <1> HIDE DEF d, pend, s
  <1>6. /\ b \in Controller /\ b.ops = a.ops /\ b.keyBusy = a.keyBusy
        /\ b.phase = a.phase /\ b.vault = a.vault /\ b.auth = d
        /\ b.pending = pend /\ b.gen = a.gen /\ b.target = a.target
        /\ b.sealed = a.sealed /\ b.teardown = a.teardown
    BY <1>1, <1>3, <1>4, <1>5 DEF Controller
  <1> HIDE DEF b
  <1>7. Typed(b) /\ Complete(b)
    BY <1>3, <1>6 DEF Good, Typed, Complete, Open
  <1>8. Tickets(b)
    BY <1>3, <1>4, <1>6, TicketsShrink DEF Good
  <1>9. Good(b)
    BY <1>4, <1>6, <1>7, <1>8, OpsKept
  <1> QED
    BY <1>2, <1>9

(* The dialog asks for the password after all, or for the new one.         *)
LEMMA AskGood ==
    ASSUME NEW a, Good(a), a.phase = "Unlocked", NEW m \in {"Enter", "Create"}
    PROVE  Good([a EXCEPT !.auth.mode = m])
  <1> DEFINE d == [a.auth EXCEPT !.mode = m]
             b == [a EXCEPT !.auth = d]
  <1>1. a \in Controller
    BY DEF Good, Typed
  <1>2. [a EXCEPT !.auth.mode = m] = b
    BY <1>1 DEF Controller
  <1>3. /\ d \in Dialog /\ d.open = a.auth.open /\ d.mode = m
        /\ d.purpose = a.auth.purpose
    BY <1>1 DEF Controller, Dialog
  <1> HIDE DEF d
  <1>4. /\ b \in Controller /\ b.ops = a.ops /\ b.keyBusy = a.keyBusy
        /\ b.phase = a.phase /\ b.vault = a.vault /\ b.auth = d
        /\ b.pending = a.pending /\ b.gen = a.gen /\ b.target = a.target
        /\ b.sealed = a.sealed /\ b.teardown = a.teardown
    BY <1>1, <1>3 DEF Controller
  <1> HIDE DEF b
  <1>5. Typed(b) /\ Complete(b)
    BY <1>3, <1>4 DEF Good, Typed, Complete, Open
  <1>6. Tickets(b)
    BY <1>3, <1>4 DEF Good, Tickets
  <1>7. Good(b)
    BY <1>4, <1>5, <1>6, OpsKept
  <1> QED
    BY <1>2, <1>7

(* Inside the window the dialog that is open shows what is signed.         *)
LEMMA SubmitConfirmSafe ==
    ASSUME NEW remember \in BOOLEAN, IInv, SubmitConfirm(remember)
    PROVE  IInv'
  <1> DEFINE p == app.auth.purpose
             h == Hidden(app)
  <1>1. /\ Good(app) /\ app.phase = "Unlocked" /\ app.auth.open
        /\ app.auth.mode = "Confirm" /\ files' = files /\ jobs' = jobs
    BY DEF IInv, SubmitConfirm, Accepts
  <1>2. p \in Signing
    BY <1>1 DEF Good, Typed
  <1>3. Good(h) /\ h.phase = "Unlocked"
    BY <1>1, HiddenGood
  <1> HIDE DEF h
  <1>4. CASE app' = [h EXCEPT !.auth.mode = "Enter"] /\ last' = Nothing
    BY <1>1, <1>3, <1>4, AskGood, QuietStep DEF IInv
  <1>5. CASE /\ WithinAutosign(app) /\ app.pending[p] # NoTicket
             /\ app' = Dispatched(h, p, remember)
             /\ last' = Confirmed(p, app, app.pending[p], Nothing,
                                  IF app.autosign THEN "window" ELSE "-")
    <2>1. Good(app')
      BY <1>2, <1>3, <1>5, DispatchedGood
    <2>2. app.pending[p].wallet = app.vault
      BY <1>1, <1>2, <1>5 DEF Good, Tickets
    <2>3. /\ last'.kind = p /\ last'.by = "window"
          /\ last'.ticket.wallet = last'.wallet
      BY <1>5, <2>2 DEF Confirmed, WithinAutosign
    <2> QED
      BY <1>1, <1>2, <2>1, <2>3, Constants DEF IInv, OnlyWhatWasConfirmed
  <1> QED
    BY <1>4, <1>5 DEF SubmitConfirm, h

(* A password is submitted for what the dialog shows.                      *)
LEMMA SubmitPasswordSafe == IInv /\ SubmitPassword => IInv'
  <1> SUFFICES ASSUME IInv, SubmitPassword PROVE IInv'
    OBVIOUS
  <1> DEFINE p == app.auth.purpose
             ticket == IF p \in Signing THEN app.pending[p] ELSE NoTicket
             action == IF app.auth.mode = "Create" THEN "NewPassword" ELSE p
             setting == IF p = "ChangeSecuritySetting" THEN app.setting ELSE NoSetting
             op == [action |-> action, of |-> app.vault, ticket |-> ticket,
                    setting |-> setting, fresh |-> TRUE]
             h == Hidden(app)
  <1>1. /\ Good(app) /\ app \in Controller /\ app.phase = "Unlocked"
        /\ app.keyBusy = FALSE /\ app.auth.open
    BY DEF IInv, SubmitPassword, Accepts, Good, Typed, Controller
  <1>2. /\ Good(h) /\ h.phase = "Unlocked" /\ h.keyBusy = FALSE /\ h.vault = app.vault
        /\ h.pending = app.pending /\ h.gen = app.gen
    BY <1>1, HiddenGood
  <1>3. p \in Purposes /\ app.vault \in Wallets
    BY <1>1 DEF Good, Controller, Dialog, Complete, Open
  <1>4. p \in Signing => ticket = app.pending[p] /\ ticket # NoTicket /\ action # "NewPassword" /\ action = p
    BY Constants DEF SubmitPassword
  <1>5. /\ ticket \in Ticket /\ setting \in Settings \cup {NoSetting}
        /\ action \in Purposes \cup {"NewPassword"} /\ (action \in Signing => action = p)
    BY <1>1, <1>3, Constants DEF Controller
  <1>6. app' = Spawned(h, action, app.vault, ticket, setting)
    BY DEF SubmitPassword
  <1> HIDE DEF ticket, setting, action
  <1>7. op \in KeyOp
    BY <1>3, <1>5 DEF KeyOp
  <1>8. /\ op.action = action /\ op.of = app.vault /\ op.ticket = ticket
        /\ op.setting = setting /\ op.fresh = TRUE
    OBVIOUS
  <1> HIDE DEF op, h
  <1>9. ASSUME action \in Signing
        PROVE  ticket = h.pending[action] /\ ticket.wallet = h.vault /\ ticket.gen \in 1..h.gen
    BY <1>1, <1>2, <1>4, <1>5, <1>9 DEF Good, Tickets
  <1>10. Own(h, op)
    BY <1>2, <1>5, <1>8, <1>9, Constants DEF Own
  <1>11. Good(Spawned(h, op.action, op.of, op.ticket, op.setting))
    BY <1>2, <1>7, <1>8, <1>10, SpawnedGood
  <1>12. Good(app')
    BY <1>6, <1>8, <1>11
  <1> QED
    BY <1>12, QuietStep DEF IInv, SubmitPassword, Quiet

-----------------------------------------------------------------------------
(* Answers.                                                                *)

LEMMA AnsweredGood ==
    ASSUME NEW a, Good(a), NEW op \in a.ops
    PROVE  Good(Answered(a, op))
  <1> DEFINE b == Answered(a, op)
  <1>1. /\ b \in Controller /\ Alike(a, b) /\ b.pending = a.pending
        /\ b.keyBusy = FALSE /\ \A o \in b.ops : ~o.fresh
    BY AnsweredFacts DEF Good, Typed
  <1> HIDE DEF b
  <1>2. Typed(b) /\ Complete(b) /\ Tickets(b)
    BY <1>1 DEF Good, Typed, Complete, Open, Vacant, Tickets, Alike
  <1>3. Good(b)
    BY <1>1, <1>2, IdleGood
  <1> QED
    BY <1>3 DEF b

LEMMA DropStaleSafe ==
    ASSUME NEW op \in app.ops, IInv, DropStale(op)
    PROVE  IInv'
  <1> DEFINE left == app.ops \ {op}
             b == [app EXCEPT !.ops = left]
  <1>1. Good(app) /\ app \in Controller /\ ~op.fresh
    BY DEF IInv, Good, Typed, DropStale, Current
  <1>2. app' = b
    BY <1>1 DEF DropStale, Controller
  <1>3. /\ left \in SUBSET KeyOp /\ left \subseteq app.ops
        /\ \A o \in app.ops : o.fresh => o \in left
    BY <1>1 DEF Controller
  <1> HIDE DEF left
  <1>4. /\ b \in Controller /\ b.ops = left /\ Alike(app, b)
        /\ b.keyBusy = app.keyBusy /\ b.pending = app.pending
    BY <1>1, <1>3 DEF Controller, Alike
  <1> HIDE DEF b
  <1>5. Typed(b) /\ Complete(b) /\ Tickets(b)
    BY <1>1, <1>4 DEF Good, Typed, Complete, Open, Vacant, Tickets, Alike
  <1>6. Busy(b)
    BY <1>1, <1>3, <1>4 DEF Good, Busy
  <1>7. \A o \in b.ops : o.fresh => Own(b, o)
    BY <1>1, <1>3, <1>4 DEF Good, Own, Alike
  <1>8. Good(b)
    BY <1>5, <1>6, <1>7 DEF Good
  <1> QED
    BY <1>2, <1>8, QuietStep DEF IInv, DropStale, Quiet

LEMMA RefusedSafe ==
    ASSUME NEW op \in app.ops, IInv, Refused(op)
    PROVE  IInv'
  <1> DEFINE c == Answered(app, op)
             t == IF op.action = "PickerDelete" THEN NoWallet ELSE c.target
             b == [c EXCEPT !.target = t]
  <1>1. /\ Good(c) /\ c \in Controller
        /\ c.keyBusy = FALSE /\ \A o \in c.ops : ~o.fresh
    BY AnsweredGood, AnsweredFacts DEF IInv, Good, Typed
  <1>2. app' = b
    BY <1>1 DEF Refused, Controller
  <1> HIDE DEF c
  <1>3. t \in Wallets \cup {NoWallet}
    BY <1>1 DEF Controller
  <1> HIDE DEF t
  <1>4. /\ b \in Controller /\ b.ops = c.ops /\ b.keyBusy = c.keyBusy
        /\ b.phase = c.phase /\ b.vault = c.vault /\ b.auth = c.auth
        /\ b.pending = c.pending /\ b.gen = c.gen
        /\ b.autosign = c.autosign /\ b.shown = c.shown
        /\ b.sealed = c.sealed /\ b.teardown = c.teardown
    BY <1>1, <1>3 DEF Controller
  <1> HIDE DEF b
  <1>5. Typed(b) /\ Complete(b) /\ Tickets(b)
    BY <1>1, <1>4 DEF Good, Typed, Complete, Open, Vacant, Tickets
  <1>6. Good(b)
    BY <1>1, <1>4, <1>5, IdleGood
  <1> QED
    BY <1>2, <1>6, QuietStep DEF IInv, Refused, Quiet

LEMMA EnteredSafe ==
    ASSUME NEW op \in app.ops, IInv, Entered(op)
    PROVE  IInv'
  <1> DEFINE c == Answered(app, op)
             b == [c EXCEPT !.phase = "Unlocked", !.vault = op.of, !.sealed = FALSE, !.shown = {}]
  <1>1. /\ Good(app) /\ app \in Controller /\ op.fresh /\ op.action \in Outward
        /\ op \in KeyOp /\ op.of \in Wallets
    BY DEF IInv, Good, Typed, Entered, Current, Outward, Controller, KeyOp
  <1>2. app.phase # "Unlocked"
    BY <1>1 DEF Good, Own
  <1>3. /\ Good(c) /\ c \in Controller /\ Alike(app, c)
        /\ c.keyBusy = FALSE /\ \A o \in c.ops : ~o.fresh
    BY <1>1, AnsweredGood, AnsweredFacts
  <1>4. app' = b
    BY DEF Entered
  <1> HIDE DEF c
  <1>5. Vacant(c)
    BY <1>2, <1>3 DEF Good, Complete, Alike
  <1>6. /\ b \in Controller /\ b.ops = c.ops /\ b.keyBusy = c.keyBusy
        /\ b.phase = "Unlocked" /\ b.vault = op.of /\ b.auth = c.auth
        /\ b.pending = c.pending /\ b.gen = c.gen
        /\ b.sealed = FALSE /\ b.teardown = c.teardown
    BY <1>1, <1>3 DEF Controller
  <1> HIDE DEF b
  <1>7. Typed(b)
    BY <1>3, <1>6 DEF Good, Typed
  <1>8. Complete(b)
    BY <1>1, <1>5, <1>6, Constants DEF Complete, Open, Vacant
  <1>9. Tickets(b)
    BY <1>3, <1>5, <1>6 DEF Good, Tickets, Vacant
  <1>10. Good(b)
    BY <1>3, <1>6, <1>7, <1>8, <1>9, IdleGood
  <1>11. files' \subseteq Wallets
    BY <1>1 DEF IInv, Entered
  <1> QED
    BY <1>4, <1>10, <1>11, QuietStep DEF IInv, Entered, Quiet

(* A closed dialog after an answer, with the window, the revealed secrets  *)
(* and the setting it leaves.                                              *)
LEMMA ClosedGood ==
    ASSUME NEW a, Good(a), a.phase = "Unlocked", NEW s \in BOOLEAN, NEW r \in SUBSET Reveals,
           NEW n \in Settings \cup {NoSetting}
    PROVE  Good([a EXCEPT !.auth.open = FALSE, !.autosign = s, !.shown = r, !.setting = n])
  <1> DEFINE d == [a.auth EXCEPT !.open = FALSE]
             c == [a EXCEPT !.auth = d, !.autosign = s, !.shown = r, !.setting = n]
  <1>1. a \in Controller
    BY DEF Good, Typed
  <1>2. [a EXCEPT !.auth.open = FALSE, !.autosign = s, !.shown = r, !.setting = n] = c
    BY <1>1 DEF Controller
  <1>3. /\ d \in Dialog /\ d.open = FALSE /\ d.mode = a.auth.mode
        /\ d.purpose = a.auth.purpose
    BY <1>1, DialogCloses
  <1> HIDE DEF d
  <1>4. /\ c \in Controller /\ c.ops = a.ops /\ c.keyBusy = a.keyBusy
        /\ c.phase = a.phase /\ c.vault = a.vault /\ c.auth = d
        /\ c.pending = a.pending /\ c.gen = a.gen /\ c.target = a.target
        /\ c.sealed = a.sealed /\ c.teardown = a.teardown
    BY <1>1, <1>3 DEF Controller
  <1> HIDE DEF c
  <1>5. Typed(c) /\ Complete(c)
    BY <1>3, <1>4 DEF Good, Typed, Complete, Open
  <1>6. Tickets(c)
    BY <1>3, <1>4 DEF Good, Tickets
  <1>7. Good(c)
    BY <1>4, <1>5, <1>6, OpsKept
  <1> QED
    BY <1>2, <1>4, <1>7

(* An answer to what only an open wallet asks finds that wallet open.      *)
LEMMA AnsweredInside ==
    ASSUME NEW op \in app.ops, IInv, op.fresh, op.action \in Purposes \cup {"NewPassword"}
    PROVE  LET a == Answered(app, op)
           IN  /\ Good(a) /\ a \in Controller /\ a.phase = "Unlocked" /\ a.vault = app.vault
               /\ a.pending = app.pending /\ Own(app, op) /\ app.phase = "Unlocked"
               /\ op.of = app.vault
  <1>1. Good(app) /\ app \in Controller /\ Own(app, op)
    BY DEF IInv, Good, Typed
  <1>2. app.phase = "Unlocked" /\ op.of = app.vault
    BY <1>1, Constants DEF Own
  <1>3. Good(Answered(app, op))
    BY <1>1, AnsweredGood
  <1>4. LET a == Answered(app, op)
        IN  a \in Controller /\ a.phase = app.phase /\ a.vault = app.vault /\ a.pending = app.pending
    BY <1>1, AnsweredFacts DEF Alike
  <1> QED
    BY <1>1, <1>2, <1>3, <1>4

LEMMA PasswordChangedSafe ==
    ASSUME NEW op \in app.ops, IInv, PasswordChanged(op)
    PROVE  IInv'
  <1> DEFINE a == Answered(app, op)
  <1>1. Good(a) /\ a \in Controller /\ a.phase = "Unlocked"
    BY AnsweredInside DEF PasswordChanged, Current
  <1>2. app' = [a EXCEPT !.auth.open = FALSE, !.autosign = FALSE]
    BY DEF PasswordChanged
  <1> HIDE DEF a
  <1>3. app' = [a EXCEPT !.auth.open = FALSE, !.autosign = FALSE,
                         !.shown = a.shown, !.setting = a.setting]
    BY <1>1, <1>2 DEF Controller, Dialog
  <1>4. a.shown \in SUBSET Reveals /\ a.setting \in Settings \cup {NoSetting}
    BY <1>1 DEF Controller
  <1>5. Good(app')
    BY <1>1, <1>3, <1>4, ClosedGood
  <1> QED
    BY <1>5, QuietStep DEF IInv, PasswordChanged, Quiet

(* The file that is deleted is the one the password was asked for.         *)
LEMMA PickerDeletedSafe ==
    ASSUME NEW op \in app.ops, IInv, PickerDeleted(op)
    PROVE  IInv'
  <1> DEFINE a == Answered(app, op)
  <1>1. /\ Good(app) /\ app \in Controller /\ op.fresh /\ op.action = "PickerDelete"
        /\ Own(app, op) /\ files \subseteq Wallets /\ jobs' \in BOOLEAN
    BY DEF IInv, Good, Typed, PickerDeleted, Current
  <1>2. app.phase # "Unlocked" /\ app.target = op.of
    BY <1>1 DEF Own, Outward
  <1>3. Good(a) /\ a \in Controller /\ a.phase # "Unlocked"
    BY <1>1, <1>2, AnsweredGood, AnsweredFacts DEF Alike
  <1>4. PICK gone \in {{}, {app.target}} :
          /\ files' = files \ gone
          /\ \E w \in IF app.store = app.target THEN (files \ gone) \cup {NoWallet} ELSE {app.store} :
               app' = [ProbePhase(a, files \ gone) EXCEPT !.target = NoWallet, !.store = w]
          /\ last' = IF gone = {} THEN Nothing
                     ELSE [Nothing EXCEPT !.kind = "PickerDelete", !.wallet = app.target, !.asked = op]
    BY DEF PickerDeleted
  <1>5. PICK w \in Wallets \cup {NoWallet} :
          app' = [ProbePhase(a, files \ gone) EXCEPT !.target = NoWallet, !.store = w]
    BY <1>1, <1>4 DEF Controller
  <1> DEFINE c == ProbePhase(a, files \ gone)
             b == [c EXCEPT !.target = NoWallet, !.store = w]
  <1> HIDE DEF a
  <1>6. Good(c) /\ c \in Controller
    BY <1>3, OutsideIsEmpty, ProbeGood DEF Good, Typed
  <1>7. c.phase # "Unlocked" /\ c.keyBusy = FALSE /\ \A o \in c.ops : ~o.fresh
    <2> DEFINE i == InvalidateKeyOps(a)
    <2>1. i \in Controller /\ i.keyBusy = FALSE /\ \A o \in i.ops : ~o.fresh
      BY <1>3, InvalidateFacts
    <2>2. c = [i EXCEPT !.shown = {}, !.phase = IF files \ gone = {} THEN "Onboarding" ELSE "Selecting"]
      BY DEF ProbePhase
    <2> HIDE DEF i, c
    <2>3. c.keyBusy = i.keyBusy /\ c.ops = i.ops /\ c.phase \in {"Onboarding", "Selecting"}
      BY <2>1, <2>2 DEF Controller
    <2> QED
      BY <2>1, <2>3
  <1> HIDE DEF c
  <1>8. /\ b \in Controller /\ b.ops = c.ops /\ b.keyBusy = c.keyBusy
        /\ b.phase = c.phase /\ b.vault = c.vault /\ b.auth = c.auth
        /\ b.pending = c.pending /\ b.gen = c.gen
        /\ b.autosign = c.autosign /\ b.shown = c.shown /\ b.teardown = c.teardown
    BY <1>6 DEF Controller
  <1>9. app' = b
    BY <1>5 DEF c
  <1> HIDE DEF b
  <1>10. Typed(b) /\ Complete(b) /\ Tickets(b)
    BY <1>6, <1>7, <1>8 DEF Good, Typed, Complete, Vacant, Tickets
  <1>11. Good(app')
    BY <1>7, <1>8, <1>9, <1>10, IdleGood
  <1>12. files' \subseteq Wallets
    BY <1>1, <1>4
  <1>13. CASE gone = {}
    BY <1>1, <1>4, <1>11, <1>12, <1>13, QuietStep
  <1>14. CASE gone # {}
    <2>1. last' = [Nothing EXCEPT !.kind = "PickerDelete", !.wallet = app.target, !.asked = op]
      BY <1>4, <1>14
    <2>2. last'.kind = "PickerDelete" /\ last'.wallet = op.of /\ last'.asked = op
      BY <2>1, <1>2 DEF Nothing
    <2> QED
      BY <1>1, <1>11, <1>12, <2>2 DEF IInv, OnlyWhatWasConfirmed
  <1> QED
    BY <1>13, <1>14

(* run_reauth_action does what its password was asked for, in the wallet   *)
(* it was asked in, with the authorization it was shown.                   *)
LEMMA VerifiedSafe ==
    ASSUME NEW op \in app.ops, IInv, Verified(op)
    PROVE  IInv'
  <1> DEFINE a == Answered(app, op)
  <1>1. op.fresh /\ op.action \in Purposes /\ jobs' = jobs /\ Reauthorized(a, op)
    BY DEF Verified, Current, Purposes
  <1>2. /\ Good(a) /\ a \in Controller /\ a.phase = "Unlocked" /\ a.vault = app.vault
        /\ a.pending = app.pending /\ Own(app, op) /\ app.phase = "Unlocked"
        /\ op.of = app.vault
    BY <1>1, AnsweredInside
  <1>3. files \subseteq Wallets /\ jobs' \in BOOLEAN
    BY <1>1 DEF IInv
  <1>4. PICK s \in BOOLEAN, r \in SUBSET Reveals, n \in Settings \cup {NoSetting} :
          s = a.autosign /\ r = a.shown /\ n = a.setting
    BY <1>2 DEF Controller
  <1>5. /\ op.action \in Signing => op.action \notin Reveals \cup
              {"DeleteWallet", "ChangePassword", "ChangeSecuritySetting"}
        /\ op.action \in Reveals => op.action \notin
              {"DeleteWallet", "ChangePassword", "ChangeSecuritySetting"}
    BY Constants, SessionAssumptions
  <1> HIDE DEF a
  <1>6. CASE op.action \in Signing
    <2>1. CASE StillAuthorized(a, op)
      <3>1. PICK remember \in BOOLEAN : app' = Dispatched(a, op.action, remember)
        BY <1>1, <1>5, <1>6, <2>1 DEF Reauthorized
      <3>2. last' = Confirmed(op.action, a, a.pending[op.action], op, "password") /\ files' = files
        BY <1>1, <1>5, <1>6, <2>1 DEF Reauthorized
      <3>3. Good(app')
        BY <1>2, <1>6, <3>1, DispatchedGood
      <3>4. a.pending[op.action] = op.ticket /\ op.ticket.wallet = a.vault
        BY <1>2, <1>6, <2>1 DEF StillAuthorized, Own
      <3>5. /\ last'.kind = op.action /\ last'.wallet = op.of /\ last'.asked = op
            /\ last'.by = "password" /\ last'.ticket = op.ticket
            /\ last'.ticket.wallet = last'.wallet
        BY <1>2, <3>2, <3>4 DEF Confirmed
      <3> QED
        BY <1>1, <1>3, <3>2, <3>3, <3>5 DEF IInv, OnlyWhatWasConfirmed
    <2>2. CASE ~StillAuthorized(a, op)
      <3> DEFINE pend == [a.pending EXCEPT !["Send"] = NoTicket]
                 c == [a EXCEPT !.pending = pend]
      <3>1. app' \in {a, c} /\ files' = files /\ last' = Nothing
        BY <1>1, <1>2, <1>5, <1>6, <2>2 DEF Reauthorized, Controller
      <3>2. /\ pend \in [Signing -> Ticket]
            /\ \A p \in Signing : pend[p] \in {a.pending[p], NoTicket}
        BY <1>2, Constants DEF Controller
      <3> HIDE DEF pend
      <3>3. /\ c \in Controller /\ c.ops = a.ops /\ c.keyBusy = a.keyBusy
            /\ c.phase = a.phase /\ c.vault = a.vault /\ c.auth = a.auth
            /\ c.pending = pend /\ c.gen = a.gen /\ c.target = a.target
            /\ c.sealed = a.sealed /\ c.teardown = a.teardown
        BY <1>2, <3>2 DEF Controller
      <3> HIDE DEF c
      <3>4. Typed(c) /\ Complete(c)
        BY <1>2, <3>3 DEF Good, Typed, Complete, Open
      <3>5. Tickets(c)
        BY <1>2, <3>2, <3>3, TicketsShrink DEF Good
      <3>6. Good(c)
        BY <1>2, <3>2, <3>3, <3>4, <3>5, OpsKept
      <3> QED
        BY <1>2, <1>3, <3>1, <3>6, QuietStep
    <2> QED
      BY <2>1, <2>2
  <1>7. ASSUME Good(app'), files' \subseteq Wallets, op.action \notin Signing,
               last' = Confirmed(op.action, a, NoTicket, op, "password")
        PROVE  IInv'
    <2>1. /\ last'.kind = op.action /\ last'.wallet = op.of /\ last'.asked = op
          /\ last'.by = "password"
      BY <1>2, <1>7 DEF Confirmed
    <2> QED
      BY <1>1, <1>3, <1>7, <2>1 DEF IInv, OnlyWhatWasConfirmed
  <1>8. CASE op.action \in Reveals
    <2> DEFINE more == r \cup {op.action}
    <2>1. /\ app' = [a EXCEPT !.auth.open = FALSE, !.shown = more] /\ files' = files
          /\ last' = Confirmed(op.action, a, NoTicket, op, "password")
      BY <1>1, <1>2, <1>4, <1>5, <1>8 DEF Reauthorized, Controller
    <2>2. more \in SUBSET Reveals
      BY <1>4, <1>8
    <2> HIDE DEF more
    <2>3. app' = [a EXCEPT !.auth.open = FALSE, !.autosign = s, !.shown = more, !.setting = n]
      BY <1>2, <1>4, <2>1 DEF Controller, Dialog
    <2>4. Good(app')
      BY <1>2, <1>4, <2>2, <2>3, ClosedGood
    <2> QED
      BY <1>3, <1>5, <1>7, <1>8, <2>1, <2>4
  <1>9. CASE op.action = "DeleteWallet"
    <2> DEFINE c == [a EXCEPT !.auth.open = FALSE]
    <2>1. PICK drained \in BOOLEAN : DoDelete(c, drained)
      BY <1>1, <1>5, <1>9 DEF Reauthorized
    <2>2. last' = Confirmed(op.action, a, NoTicket, op, "password")
      BY <1>1, <1>5, <1>9 DEF Reauthorized
    <2>3. c = [a EXCEPT !.auth.open = FALSE, !.autosign = s, !.shown = r, !.setting = n]
      BY <1>2, <1>4 DEF Controller, Dialog
    <2>4. c.phase = "Unlocked"
      BY <1>2 DEF Controller
    <2> HIDE DEF c
    <2>5. Good(c)
      BY <1>2, <1>4, <2>3, ClosedGood
    <2>6. Good(app') /\ files' \subseteq Wallets
      <3> DEFINE t == [then |-> "Delete", to |-> NoWallet]
      <3>1. t \in Follow /\ t.then # "-"
        BY DEF Follow
      <3>2. RequestLock(c, t) \/ (app' = c /\ files' = files)
        BY <2>1 DEF DoDelete
      <3> HIDE DEF t
      <3> QED
        BY <1>3, <2>4, <2>5, <3>1, <3>2, RequestLockGood
    <2> QED
      BY <1>5, <1>7, <1>9, <2>2, <2>6
  <1>10. CASE op.action = "ChangePassword"
    <2>1. app' = [a EXCEPT !.auth.mode = "Create"] /\ files' = files /\ last' = Nothing
      BY <1>1, <1>5, <1>10 DEF Reauthorized
    <2> QED
      BY <1>2, <1>3, <2>1, AskGood, QuietStep
  <1>11. CASE op.action = "ChangeSecuritySetting"
    <2>1. /\ app' = Applied(a) /\ files' = files
          /\ last' = Confirmed(op.action, a, NoTicket, op, "password")
      BY <1>1, <1>5, <1>11 DEF Reauthorized
    <2>2. PICK none \in Settings \cup {NoSetting} : none = NoSetting
      OBVIOUS
    <2>3. app' = [a EXCEPT !.auth.open = FALSE, !.autosign = s, !.shown = r, !.setting = none]
      BY <1>2, <1>4, <2>1, <2>2 DEF Applied, Controller, Dialog
    <2>4. Good(app')
      BY <1>2, <2>3, ClosedGood
    <2> QED
      BY <1>3, <1>5, <1>7, <1>11, <2>1, <2>4
  <1> QED
    BY <1>1, <1>6, <1>8, <1>9, <1>10, <1>11 DEF Purposes

-----------------------------------------------------------------------------
(* Timers, and the end of the program.                                     *)

LEMMA TeardownEndsSafe == IInv /\ TeardownEnds => IInv'
  <1> SUFFICES ASSUME IInv, TeardownEnds PROVE IInv'
    OBVIOUS
  <1>1. /\ Good(app) /\ app.teardown # NoTeardown /\ Locks(app, app.teardown)
        /\ files \subseteq Wallets
    BY DEF IInv, TeardownEnds
  <1>2. app.teardown \in Follow /\ app.teardown.then # "-" /\ Typed(app) /\ Tickets(app)
    BY <1>1 DEF Good, Typed, Controller, Complete, Open, Vacant
  <1>3. Good(app') /\ files' \subseteq Wallets
    BY <1>1, <1>2, LocksGood
  <1> QED
    BY <1>3, QuietStep DEF IInv, TeardownEnds, Quiet

LEMMA TeardownGivesUpSafe == IInv /\ TeardownGivesUp => IInv'
  <1> SUFFICES ASSUME IInv, TeardownGivesUp PROVE IInv'
    OBVIOUS
  <1> DEFINE b == [app EXCEPT !.teardown = NoTeardown, !.sealed = FALSE]
  <1>1. Good(app) /\ app \in Controller /\ app.teardown # NoTeardown /\ app' = b
    BY DEF IInv, Good, Typed, TeardownGivesUp, GivenUp
  <1>2. app.phase = "Unlocked"
    BY <1>1 DEF Good, Complete, Vacant
  <1>3. /\ b \in Controller /\ b.ops = app.ops /\ b.keyBusy = app.keyBusy
        /\ b.phase = app.phase /\ b.vault = app.vault /\ b.auth = app.auth
        /\ b.pending = app.pending /\ b.gen = app.gen /\ b.target = app.target
        /\ b.sealed = FALSE /\ b.teardown = NoTeardown
    BY <1>1, Constants DEF Controller
  <1> HIDE DEF b
  <1>4. Typed(b) /\ Complete(b) /\ Tickets(b)
    BY <1>1, <1>2, <1>3 DEF Good, Typed, Complete, Open, Tickets
  <1>5. Good(b)
    BY <1>1, <1>3, <1>4, OpsKept
  <1> QED
    BY <1>1, <1>5, QuietStep DEF IInv, TeardownGivesUp, Quiet

LEMMA AutosignExpiresSafe == IInv /\ AutosignExpires => IInv'
  <1> SUFFICES ASSUME IInv, AutosignExpires PROVE IInv'
    OBVIOUS
  <1> DEFINE m == IF app.auth.open /\ app.auth.mode = "Confirm" /\ app.auth.purpose = "Send"
                  THEN "Enter" ELSE app.auth.mode
             d == [app.auth EXCEPT !.mode = m]
             b == [app EXCEPT !.autosign = FALSE, !.auth = d]
  <1>1. Good(app) /\ app \in Controller /\ app.auth \in Dialog
    BY DEF IInv, Good, Typed, Controller
  <1>2. app' = b
    BY <1>1 DEF AutosignExpires, Controller, Dialog
  <1>3. m \in {"Enter", app.auth.mode} /\ m \in {"Enter", "Confirm", "Create"}
    BY <1>1 DEF Dialog
  <1> HIDE DEF m
  <1>4. /\ d \in Dialog /\ d.open = app.auth.open /\ d.mode = m
        /\ d.purpose = app.auth.purpose
    BY <1>1, <1>3 DEF Dialog
  <1> HIDE DEF d
  <1>5. /\ b \in Controller /\ b.ops = app.ops /\ b.keyBusy = app.keyBusy
        /\ b.phase = app.phase /\ b.vault = app.vault /\ b.auth = d
        /\ b.pending = app.pending /\ b.gen = app.gen /\ b.target = app.target
        /\ b.autosign = FALSE /\ b.shown = app.shown
        /\ b.sealed = app.sealed /\ b.teardown = app.teardown
    BY <1>1, <1>4 DEF Controller
  <1> HIDE DEF b
  <1>6. Typed(b)
    BY <1>1, <1>3, <1>4, <1>5 DEF Good, Typed
  <1>7. Complete(b) /\ Tickets(b)
    BY <1>1, <1>4, <1>5 DEF Good, Complete, Open, Vacant, Tickets
  <1>8. Good(b)
    BY <1>1, <1>5, <1>6, <1>7, OpsKept
  <1> QED
    BY <1>2, <1>8, QuietStep DEF IInv, AutosignExpires, Quiet

(* A program that has just been started has nothing of a session.          *)
LEMMA StartedGood ==
    ASSUME NEW disk
    PROVE  Good(ProbePhase(Started, disk))
  <1>1. /\ Started \in Controller /\ Started.auth = ClosedAuth /\ Started.gen = 0
        /\ Started.vault = NoWallet /\ Started.autosign = FALSE /\ Started.shown = {}
        /\ Started.teardown = NoTeardown
        /\ Started.pending = [p \in Signing |-> NoTicket]
    BY Constants, SessionAssumptions DEF Started, Controller
  <1>2. \A p \in Signing : Started.pending[p] = NoTicket
    BY <1>1
  <1>3. Typed(Started)
    BY <1>1, Constants DEF Typed
  <1>4. Tickets(Started) /\ Vacant(Started)
    BY <1>1, <1>2, Constants DEF Tickets, Vacant
  <1> QED
    BY <1>3, <1>4, ProbeGood

LEMMA ShutdownSafe == IInv /\ Shutdown => IInv'
  BY StartedGood, QuietStep DEF IInv, Shutdown, Quiet

LEMMA JobsSafe == IInv /\ (JobStarts \/ JobEnds) => IInv'
  BY QuietStep DEF IInv, JobStarts, JobEnds, Quiet

-----------------------------------------------------------------------------
(* The theorems.                                                           *)

(* IInv holds in every state: it holds when the program starts, and every  *)
(* command, answer and timer of the session preserves it.                  *)
THEOREM SessionInvariant == Spec => []IInv
  <1>1. Init => IInv
    <2> SUFFICES ASSUME Init PROVE IInv
      OBVIOUS
    <2>1. Good(app)
      BY StartedGood DEF Init
    <2> QED
      BY <2>1 DEF Init, IInv, Nothing, OnlyWhatWasConfirmed
  <1>2. IInv /\ [Next]_vars => IInv'
    <2> SUFFICES ASSUME IInv, [Next]_vars PROVE IInv'
      OBVIOUS
    <2>1. CASE BackToPicker \/ NewWalletRequest \/ Unlock
      BY <2>1, BackToPickerSafe, NewWalletRequestSafe, UnlockSafe
    <2>2. CASE \E w \in Wallets : SelectWallet(w) \/ CreateWallet(w) \/ DeleteFromPicker(w)
      BY <2>2, SelectWalletSafe, CreateWalletSafe, DeleteFromPickerSafe
    <2>3. CASE \/ LockNow \/ SwitchWallet \/ IdleLock
               \/ \E w \in Wallets : SwitchToWallet(w)
      BY <2>3, LockRequestsSafe
    <2>4. CASE CancelAuth \/ ActivateSeed \/ SubmitPassword
      BY <2>4, CancelAuthSafe, ActivateSeedSafe, SubmitPasswordSafe
    <2>5. CASE \E p \in Signing : RequestSigning(p)
      BY <2>5, RequestSigningSafe
    <2>6. CASE \E p \in Purposes : RequestDialog(p)
      BY <2>6, RequestDialogSafe
    <2>7. CASE \E s \in Settings : RequestSetting(s)
      BY <2>7, RequestSettingSafe
    <2>8. CASE \E remember \in BOOLEAN : SubmitConfirm(remember)
      BY <2>8, SubmitConfirmSafe
    <2>9. CASE \E r \in Reveals : Hide(r)
      BY <2>9, HideSafe
    <2>10. CASE Answers
      BY <2>10, DropStaleSafe, RefusedSafe, EnteredSafe, PasswordChangedSafe,
         PickerDeletedSafe, VerifiedSafe DEF Answers
    <2>11. CASE TeardownEnds \/ TeardownGivesUp \/ AutosignExpires
      BY <2>11, TeardownEndsSafe, TeardownGivesUpSafe, AutosignExpiresSafe
    <2>12. CASE JobStarts \/ JobEnds \/ Shutdown
      BY <2>12, JobsSafe, ShutdownSafe
    <2>13. CASE UNCHANGED vars
      BY <2>13 DEF vars, IInv, OnlyWhatWasConfirmed
    <2> QED
      BY <2>1, <2>2, <2>3, <2>4, <2>5, <2>6, <2>7, <2>8, <2>9, <2>10, <2>11, <2>12, <2>13
         DEF Next
  <1> QED
    BY <1>1, <1>2, PTL DEF Spec

(* Whatever dialogs, locks, switches and late answers come in between,     *)
(* run_reauth_action and auth_submit sign, reveal, delete and change a     *)
(* setting only in the wallet whose password was checked for that very     *)
(* request (or inside its auto-sign window), and a signature takes the     *)
(* authorization the user was shown.                                       *)
THEOREM SessionConfirmed == Spec => []OnlyWhatWasConfirmed
  <1>1. IInv => OnlyWhatWasConfirmed
    BY DEF IInv
  <1> QED
    BY <1>1, SessionInvariant, PTL

(* key_busy is set exactly while one operation may still answer, and a     *)
(* lock leaves no vault, transfer, dialog, window or secret.               *)
THEOREM SessionConsistent == Spec => []SessionIsConsistent
  <1>1. IInv => SessionIsConsistent
    <2> SUFFICES ASSUME IInv PROVE SessionIsConsistent
      OBVIOUS
    <2>1. TypeOK
      BY DEF IInv, Good, Typed, Controller, Dialog, Follow, TypeOK
    <2>2. BusyMeansOneAnswerDue
      BY DEF IInv, Good, Busy, BusyMeansOneAnswerDue
    <2>3. LockIsComplete
      BY DEF IInv, Good, Complete, Open, Vacant, LockIsComplete
    <2> QED
      BY <2>1, <2>2, <2>3 DEF SessionIsConsistent
  <1> QED
    BY <1>1, SessionInvariant, PTL
-----------------------------------------------------------------------------
(* Secrets in custody: what the clipboard holds and what is tracked.       *)

\* The controller's record of the clipboard, and what a call returns.
ClipState ==
    [board : [Selections -> AnyText], tracked : SUBSET Secrets,
     deadline : {"none", "ttl", "retry", "exhausted"}, retries : 0..MaxRetries,
     explicit : BOOLEAN, notice : {"", "retrying", "failed", "nocopy"},
     late : [sel : Selections, text : AnyText] \cup {NoLate}]
Outcome == [c : ClipState, ok : BOOLEAN, bad : Nat]

\* The values of a flag that is an argument.
Flag == {TRUE, FALSE}

\* A wipe is scheduled exactly while something is tracked.
ClipOK(c) == c \in ClipState /\ (c.deadline = "none" <=> c.tracked = {})

\* Nothing but the selections and the late call differs.
SameTracker(c, d) ==
    /\ d.tracked = c.tracked /\ d.deadline = c.deadline
    /\ d.retries = c.retries /\ d.explicit = c.explicit /\ d.notice = c.notice

(* A call on a selection is applied or changes no selection.               *)
LEMMA SetFacts ==
    ASSUME NEW c \in ClipState, NEW sel \in Selections, NEW t \in AnyText,
           NEW w \in SetOutcomes(c, sel, t)
    PROVE  /\ w \in Outcome /\ SameTracker(c, w.c)
           /\ w.c.board = IF w.ok THEN [c.board EXCEPT ![sel] = t] ELSE c.board
  <1>1. CASE w = [c |-> [c EXCEPT !.board[sel] = t], ok |-> TRUE, bad |-> 0]
    <2>1. PICK b \in [Selections -> AnyText] : b = [c.board EXCEPT ![sel] = t]
      BY DEF ClipState
    <2>2. PICK d : d = [c EXCEPT !.board = b]
      OBVIOUS
    <2>3. /\ d \in ClipState /\ d.board = b /\ SameTracker(c, d)
      BY <2>2 DEF ClipState, SameTracker
    <2>4. w.c = d /\ w.ok = TRUE /\ w.bad = 0 /\ w = [c |-> d, ok |-> TRUE, bad |-> 0]
      BY <1>1, <2>1, <2>2
    <2> QED
      BY <2>1, <2>3, <2>4 DEF Outcome
  <1>2. CASE w = [c |-> c, ok |-> FALSE, bad |-> 1]
    BY <1>2 DEF Outcome, SameTracker
  <1>3. CASE w = [c |-> [c EXCEPT !.late = [sel |-> sel, text |-> t]],
                  ok |-> FALSE, bad |-> 1]
    <2>1. PICK l \in [sel : Selections, text : AnyText] : l = [sel |-> sel, text |-> t]
      OBVIOUS
    <2>2. PICK d : d = [c EXCEPT !.late = l]
      OBVIOUS
    <2>3. /\ d \in ClipState /\ d.board = c.board /\ SameTracker(c, d)
      BY <2>2 DEF ClipState, SameTracker
    <2>4. w.c = d /\ w.ok = FALSE /\ w.bad = 1 /\ w = [c |-> d, ok |-> FALSE, bad |-> 1]
      BY <1>3, <2>1, <2>2
    <2> QED
      BY <2>3, <2>4 DEF Outcome
  <1> QED
    BY <1>1, <1>2, <1>3 DEF SetOutcomes

\* What is left of a selection after the wipe: what was there, or nothing, and
\* nothing only if it held part of something tracked.
Wiped(c, d, sel) ==
    \/ d.board[sel] = c.board[sel]
    \/ d.board[sel] = Empty /\ TrackedContains(c.board[sel], c.tracked, sel)

Other(sel) == IF sel = "Primary" THEN "Clipboard" ELSE "Primary"

(* The wipe of one selection.                                              *)
LEMMA WipeOneFacts ==
    ASSUME NEW r \in Outcome, NEW sel \in Selections, NEW q \in WipeOne(r, sel)
    PROVE  /\ q \in Outcome /\ SameTracker(r.c, q.c)
           /\ Wiped(r.c, q.c, sel)
           /\ q.c.board[Other(sel)] = r.c.board[Other(sel)]
           /\ q.ok => r.ok /\ ~TrackedContains(q.c.board[sel], q.c.tracked, sel)
  <1>1. r.c \in ClipState /\ r.ok \in BOOLEAN /\ r.bad \in Nat
    BY DEF Outcome
  <1>2. Empty \in AnyText /\ Other(sel) # sel /\ Other(sel) \in Selections
    BY DEF AnyText, Other, Selections
  <1>3. CASE q = [c |-> r.c, ok |-> FALSE, bad |-> r.bad + 1]
    <2>1. q.c = r.c /\ q.ok = FALSE
      BY <1>3
    <2>2. q \in Outcome
      BY <1>1, <1>3 DEF Outcome
    <2> QED
      BY <2>1, <2>2 DEF SameTracker, Wiped
  <1>4. CASE q = r /\ ~TrackedContains(r.c.board[sel], r.c.tracked, sel)
    BY <1>4 DEF SameTracker, Wiped
  <1>5. ASSUME NEW w \in SetOutcomes(r.c, sel, Empty),
               TrackedContains(r.c.board[sel], r.c.tracked, sel),
               q = [c |-> w.c, ok |-> r.ok /\ w.ok, bad |-> r.bad + w.bad]
        PROVE  /\ q \in Outcome /\ SameTracker(r.c, q.c)
               /\ Wiped(r.c, q.c, sel)
               /\ q.c.board[Other(sel)] = r.c.board[Other(sel)]
               /\ q.ok => r.ok /\ ~TrackedContains(q.c.board[sel], q.c.tracked, sel)
    <2>1. /\ w \in Outcome /\ SameTracker(r.c, w.c)
          /\ w.c.board = IF w.ok THEN [r.c.board EXCEPT ![sel] = Empty] ELSE r.c.board
      BY <1>1, <1>2, SetFacts
    <2>2. w.c \in ClipState /\ w.ok \in BOOLEAN /\ w.bad \in Nat
      BY <2>1 DEF Outcome
    <2>3. PICK k \in BOOLEAN : k = (r.ok /\ w.ok)
      OBVIOUS
    <2>4. PICK n \in Nat : n = r.bad + w.bad
      BY <1>1, <2>2
    <2>5. q = [c |-> w.c, ok |-> k, bad |-> n]
      BY <1>5, <2>3, <2>4
    <2>6. q \in Outcome /\ q.c = w.c /\ q.ok = k
      BY <2>2, <2>5 DEF Outcome
    <2>7. r.c.board \in [Selections -> AnyText]
      BY <1>1 DEF ClipState
    <2>8. w.c.board[sel] = (IF w.ok THEN Empty ELSE r.c.board[sel])
          /\ w.c.board[Other(sel)] = r.c.board[Other(sel)]
      BY <1>2, <2>1, <2>7
    <2>9. \A T : ~TrackedContains(Empty, T, sel)
      BY DEF TrackedContains, Contains
    <2>10. q.ok => r.ok /\ w.ok
      BY <2>3, <2>6
    <2> QED
      BY <1>5, <2>1, <2>6, <2>8, <2>9, <2>10 DEF Wiped
  <1> QED
    BY <1>3, <1>4, <1>5 DEF WipeOne

\* What the wipe of both selections leaves: what it does not track any more is
\* in no selection.
WipedAll(c, d) ==
    /\ \A sel \in Selections : Wiped(c, d, sel)
    /\ d.tracked \in {c.tracked, {}}
    /\ \A sel \in Selections :
         d.board[sel] # Empty /\ d.board[sel] \in c.tracked => d.tracked = c.tracked

(* A settled wipe is scheduled again or has nothing to do.                 *)
LEMMA SettledFacts ==
    ASSUME NEW r \in Outcome, r.c.tracked # {}
    PROVE  /\ ClipOK(WipeSettled(r)) /\ WipeSettled(r).board = r.c.board
           /\ WipeSettled(r).tracked = IF r.ok THEN {} ELSE r.c.tracked
  <1>1. r.c \in ClipState /\ r.ok \in BOOLEAN /\ MaxRetries \in Nat
    BY CustodyAssumptions DEF Outcome
  <1>2. 0 \in 0..MaxRetries /\ r.c.retries \in 0..MaxRetries
    <2>1. 0 \in 0..MaxRetries
      BY <1>1
    <2>2. r.c.retries \in 0..MaxRetries
      BY <1>1 DEF ClipState
    <2> QED
      BY <2>1, <2>2
  <1>3. CASE r.ok
    <2>1. PICK d : d = [r.c EXCEPT !.tracked = {}, !.deadline = "none", !.retries = 0]
      OBVIOUS
    <2>2. d \in ClipState /\ d.tracked = {} /\ d.deadline = "none" /\ d.board = r.c.board
      BY <1>1, <1>2, <2>1 DEF ClipState
    <2>3. PICK e : e = [d EXCEPT !.notice = "", !.explicit = FALSE]
      OBVIOUS
    <2>4. e \in ClipState /\ e.tracked = {} /\ e.deadline = "none" /\ e.board = r.c.board
      BY <2>2, <2>3 DEF ClipState
    <2>5. WipeSettled(r) = e
      BY <1>1, <1>3, <2>1, <2>3 DEF WipeSettled, ClipState
    <2> QED
      BY <1>3, <2>4, <2>5 DEF ClipOK
  <1>4. CASE ~r.ok /\ r.c.retries < MaxRetries
    <2>1. PICK n \in 0..MaxRetries : n = r.c.retries + 1
      BY <1>1, <1>2, <1>4
    <2>2. PICK d : d = [r.c EXCEPT !.retries = n, !.deadline = "retry", !.notice = "retrying"]
      OBVIOUS
    <2>3. /\ d \in ClipState /\ d.tracked = r.c.tracked /\ d.deadline = "retry"
          /\ d.board = r.c.board
      BY <1>1, <2>2 DEF ClipState
    <2>4. WipeSettled(r) = d
      BY <1>4, <2>1, <2>2 DEF WipeSettled
    <2> QED
      BY <1>4, <2>3, <2>4 DEF ClipOK
  <1>5. CASE ~r.ok /\ ~(r.c.retries < MaxRetries)
    <2>1. PICK d : d = [r.c EXCEPT !.deadline = "exhausted", !.notice = "failed"]
      OBVIOUS
    <2>2. /\ d \in ClipState /\ d.tracked = r.c.tracked /\ d.deadline = "exhausted"
          /\ d.board = r.c.board
      BY <1>1, <2>1 DEF ClipState
    <2>3. WipeSettled(r) = d
      BY <1>5, <2>1 DEF WipeSettled
    <2> QED
      BY <1>5, <2>2, <2>3 DEF ClipOK
  <1> QED
    BY <1>1, <1>3, <1>4, <1>5

(* clear_seed_from_clipboard.                                              *)
LEMMA ClearedFacts ==
    ASSUME NEW c, ClipOK(c), NEW r \in Cleared(c)
    PROVE  ClipOK(r.c) /\ r.bad \in Nat /\ WipedAll(c, r.c)
  <1>1. c \in ClipState /\ c.board \in [Selections -> AnyText]
    BY DEF ClipOK, ClipState
  <1>2. CASE c.tracked = {}
    <2>1. PICK d : d = [c EXCEPT !.explicit = FALSE]
      OBVIOUS
    <2>2. /\ d \in ClipState /\ d.board = c.board /\ d.tracked = c.tracked
          /\ d.deadline = c.deadline
      BY <1>1, <2>1 DEF ClipState
    <2>3. r.c = d /\ r.bad = 0
      BY <1>2, <2>1 DEF Cleared
    <2> QED
      BY <2>2, <2>3 DEF ClipOK, WipedAll, Wiped
  <1>3. CASE c.tracked # {}
    <2>1. PICK a : a = [c |-> c, ok |-> TRUE, bad |-> 0]
      OBVIOUS
    <2>2. a \in Outcome /\ a.c = c
      BY <1>1, <2>1 DEF Outcome
    <2>3. PICK q \in WipeOne(a, "Clipboard") : \E p \in WipeOne(q, "Primary") :
             r = [c |-> WipeSettled(p), bad |-> p.bad]
      BY <1>3, <2>1 DEF Cleared
    <2> PICK p \in WipeOne(q, "Primary") : r = [c |-> WipeSettled(p), bad |-> p.bad]
      BY <2>3
    <2>4. "Clipboard" \in Selections /\ "Primary" \in Selections
          /\ Other("Clipboard") = "Primary" /\ Other("Primary") = "Clipboard"
          /\ \A sel \in Selections : sel = "Clipboard" \/ sel = "Primary"
      BY DEF Selections, Other
    <2>5. /\ q \in Outcome /\ SameTracker(c, q.c) /\ Wiped(c, q.c, "Clipboard")
          /\ q.c.board["Primary"] = c.board["Primary"]
          /\ q.ok => ~TrackedContains(q.c.board["Clipboard"], q.c.tracked, "Clipboard")
      BY <2>2, <2>3, <2>4, WipeOneFacts
    <2>6. /\ p \in Outcome /\ SameTracker(q.c, p.c) /\ Wiped(q.c, p.c, "Primary")
          /\ p.c.board["Clipboard"] = q.c.board["Clipboard"]
          /\ p.ok => q.ok /\ ~TrackedContains(p.c.board["Primary"], p.c.tracked, "Primary")
      BY <2>3, <2>4, <2>5, WipeOneFacts
    <2>7. p.c.tracked = c.tracked /\ q.c.tracked = c.tracked
      BY <2>5, <2>6 DEF SameTracker
    <2>8. \A sel \in Selections : Wiped(c, p.c, sel)
      BY <2>4, <2>5, <2>6, <2>7 DEF Wiped
    <2>9. \A sel \in Selections : p.ok => ~TrackedContains(p.c.board[sel], c.tracked, sel)
      BY <2>4, <2>5, <2>6, <2>7
    <2>10. \A sel \in Selections : p.c.board[sel] # Empty /\ p.c.board[sel] \in c.tracked => ~p.ok
      BY <2>9 DEF TrackedContains, Contains
    <2>11. /\ ClipOK(WipeSettled(p)) /\ WipeSettled(p).board = p.c.board
           /\ WipeSettled(p).tracked = IF p.ok THEN {} ELSE c.tracked
      BY <1>3, <2>6, <2>7, SettledFacts
    <2>12. r.c = WipeSettled(p) /\ r.bad = p.bad /\ p.bad \in Nat
      BY <2>3, <2>6 DEF Outcome
    <2> QED
      BY <2>8, <2>10, <2>11, <2>12 DEF WipedAll, Wiped
  <1> QED
    BY <1>2, <1>3

(* extend_tracked_clipboard_secret.                                        *)
LEMMA TrackingFacts ==
    ASSUME NEW c \in ClipState, NEW s \in Secrets, NEW soon \in Flag
    PROVE  /\ Tracking(c, s, soon) \in ClipState
           /\ Tracking(c, s, soon).board = c.board
           /\ Tracking(c, s, soon).tracked = c.tracked \cup {s}
           /\ Tracking(c, s, soon).deadline \in {"ttl", "retry"}
  <1>1. PICK T \in SUBSET Secrets : T = c.tracked \cup {s}
    BY DEF ClipState
  <1>2. PICK l \in {"ttl", "retry"} : l = IF soon THEN "retry" ELSE "ttl"
    BY DEF Flag
  <1>3. PICK n \in 0..MaxRetries : n = IF c.tracked = {} THEN 0 ELSE c.retries
    <2>1. 0 \in 0..MaxRetries
      BY CustodyAssumptions
    <2>2. c.retries \in 0..MaxRetries
      BY DEF ClipState
    <2> QED
      BY <2>1, <2>2
  <1>4. PICK d : d = [c EXCEPT !.tracked = T, !.deadline = l, !.retries = n]
    OBVIOUS
  <1>5. d \in ClipState /\ d.board = c.board /\ d.tracked = T /\ d.deadline = l
    BY <1>4 DEF ClipState
  <1>6. Tracking(c, s, soon) = d
    BY <1>1, <1>2, <1>3, <1>4 DEF Tracking
  <1> QED
    BY <1>1, <1>5, <1>6

\* A phrase that was pasted is tracked, in addition.
Registers(c, d, s) ==
    /\ d.board = c.board
    /\ c.tracked \subseteq d.tracked
    /\ d.tracked \subseteq c.tracked \cup {s}

(* register_pasted_seed_for_wipe.                                          *)
LEMMA RegisteredFacts ==
    ASSUME NEW c, ClipOK(c), NEW s \in Secrets, NEW r \in Registered(c, s)
    PROVE  ClipOK(r.c) /\ r.bad \in Nat /\ Registers(c, r.c, s)
  <1>1. c \in ClipState
    BY DEF ClipOK
  <1>2. CASE r = [c |-> c, bad |-> 0]
    BY <1>2 DEF Registers
  <1>3. ASSUME NEW soon \in Flag, NEW n \in {"retrying", c.notice},
               NEW b \in Nat,
               r = [c |-> [Tracking(c, s, soon) EXCEPT !.notice = n], bad |-> b]
        PROVE  ClipOK(r.c) /\ r.bad \in Nat /\ Registers(c, r.c, s)
    <2>1. PICK t : t = Tracking(c, s, soon)
      OBVIOUS
    <2>2. /\ t \in ClipState /\ t.board = c.board /\ t.tracked = c.tracked \cup {s}
          /\ t.deadline \in {"ttl", "retry"}
      BY <1>1, <2>1, TrackingFacts
    <2>3. n \in {"", "retrying", "failed", "nocopy"}
      BY <1>1 DEF ClipState
    <2>4. PICK d : d = [t EXCEPT !.notice = n]
      OBVIOUS
    <2>5. /\ d \in ClipState /\ d.board = t.board /\ d.tracked = t.tracked
          /\ d.deadline = t.deadline
      BY <2>2, <2>3, <2>4 DEF ClipState
    <2>6. r.c = d /\ r.bad = b
      BY <1>3, <2>1, <2>4
    <2> QED
      BY <2>2, <2>5, <2>6 DEF ClipOK, Registers
  <1>4. \A soon \in Flag : Tracking(c, s, soon).notice = c.notice
    BY <1>1 DEF Tracking, ClipState
  <1>5. \/ r = [c |-> c, bad |-> 0]
        \/ r = [c |-> [Tracking(c, s, TRUE) EXCEPT !.notice = "retrying"], bad |-> 1]
        \/ r = [c |-> [Tracking(c, s, c.tracked # {}) EXCEPT
                          !.notice = IF c.tracked # {} THEN "retrying" ELSE @], bad |-> 0]
    BY DEF Registered
  <1>6. PICK k \in Flag : k = (c.tracked # {})
    BY DEF Flag
  <1>7. PICK n \in {"retrying", c.notice} :
           n = IF c.tracked # {} THEN "retrying" ELSE Tracking(c, s, k).notice
    BY <1>4
  <1>8. CASE r = [c |-> [Tracking(c, s, TRUE) EXCEPT !.notice = "retrying"], bad |-> 1]
    <2>1. TRUE \in Flag
      BY DEF Flag
    <2> QED
      BY <1>3, <1>8, <2>1
  <1>9. CASE r = [c |-> [Tracking(c, s, c.tracked # {}) EXCEPT
                          !.notice = IF c.tracked # {} THEN "retrying" ELSE @], bad |-> 0]
    <2>1. r = [c |-> [Tracking(c, s, k) EXCEPT !.notice = n], bad |-> 0]
      BY <1>6, <1>7, <1>9
    <2> QED
      BY <1>3, <2>1
  <1> QED
    BY <1>2, <1>5, <1>8, <1>9

\* A copy of s that succeeds is tracked; one that fails changes no selection.
Copies(c, q, s) ==
    /\ ClipOK(q.c) /\ q.bad \in Nat /\ q.ok \in BOOLEAN
    /\ q.c.board = IF q.ok THEN [c.board EXCEPT !["Clipboard"] = s] ELSE c.board
    /\ q.ok => q.c.tracked = c.tracked \cup {s}

\* The record that a copy which succeeded leaves, and its notice.
CopyNotices == {"", "retrying"}
Made(c, s, soon, n) == [Tracking(c, s, soon) EXCEPT !.explicit = TRUE, !.notice = n]

(* It is scheduled for a wipe.                                             *)
LEMMA CopyMade ==
    ASSUME NEW c \in ClipState, NEW s \in Secrets, NEW soon \in Flag,
           NEW n \in CopyNotices
    PROVE  /\ ClipOK(Made(c, s, soon, n)) /\ Made(c, s, soon, n).board = c.board
           /\ Made(c, s, soon, n).tracked = c.tracked \cup {s}
  <1>1. PICK t : t = Tracking(c, s, soon)
    OBVIOUS
  <1>2. /\ t \in ClipState /\ t.board = c.board /\ t.tracked = c.tracked \cup {s}
        /\ t.deadline \in {"ttl", "retry"}
    BY <1>1, TrackingFacts
  <1>3. PICK d : d = [t EXCEPT !.explicit = TRUE, !.notice = n]
    OBVIOUS
  <1>4. /\ d \in ClipState /\ d.board = t.board /\ d.tracked = t.tracked
        /\ d.deadline = t.deadline
    BY <1>2, <1>3 DEF ClipState, CopyNotices
  <1>5. Made(c, s, soon, n) = d
    BY <1>1, <1>3 DEF Made
  <1> QED
    BY <1>2, <1>4, <1>5 DEF ClipOK

(* copy_seed_to_clipboard, after its clear.                                *)
LEMMA CopiedSeedFacts ==
    ASSUME NEW c, ClipOK(c), NEW s \in Secrets, NEW q \in CopiedSeed(c, s)
    PROVE  Copies(c, q, s) /\ (~q.ok => q.c.tracked = c.tracked)
  <1>1. c \in ClipState /\ s \in AnyText /\ "Clipboard" \in Selections
    BY DEF ClipOK, AnyText, Selections
  <1>2. PICK k \in Flag : k = (c.tracked # {})
    BY DEF Flag
  <1>3. PICK n \in CopyNotices : n = IF c.tracked # {} THEN "retrying" ELSE ""
    BY DEF CopyNotices
  <1>4. PICK m \in {"nocopy", "retrying"} : m = IF c.tracked # {} THEN "retrying" ELSE "nocopy"
    OBVIOUS
  <1>5. PICK w \in SetOutcomes(c, "Clipboard", s) :
           q = [c |-> IF w.ok THEN [Tracking(w.c, s, k) EXCEPT !.explicit = TRUE, !.notice = n]
                      ELSE [w.c EXCEPT !.notice = m], bad |-> w.bad, ok |-> w.ok]
    BY <1>2, <1>3, <1>4 DEF CopiedSeed
  <1>6. /\ w \in Outcome /\ SameTracker(c, w.c)
        /\ w.c.board = IF w.ok THEN [c.board EXCEPT !["Clipboard"] = s] ELSE c.board
    BY <1>1, SetFacts
  <1>7. w.c \in ClipState /\ w.ok \in BOOLEAN /\ w.bad \in Nat
        /\ w.c.tracked = c.tracked /\ w.c.deadline = c.deadline
    BY <1>6 DEF Outcome, SameTracker
  <1>8. q.bad = w.bad /\ q.ok = w.ok
    BY <1>5
  <1>9. CASE w.ok
    <2>1. q.c = Made(w.c, s, k, n)
      BY <1>5, <1>9 DEF Made
    <2>2. w.c \in ClipState /\ n \in CopyNotices
      BY <1>3, <1>7
    <2>3. /\ ClipOK(Made(w.c, s, k, n))
          /\ Made(w.c, s, k, n).board = w.c.board
          /\ Made(w.c, s, k, n).tracked = w.c.tracked \cup {s}
      BY <1>2, <2>2, CopyMade
    <2>4. ClipOK(q.c) /\ q.c.board = w.c.board /\ q.c.tracked = w.c.tracked \cup {s}
      BY <2>1, <2>3
    <2> QED
      BY <1>6, <1>7, <1>8, <1>9, <2>4 DEF Copies
  <1>10. CASE ~w.ok
    <2>1. q.c = [w.c EXCEPT !.notice = m]
      BY <1>5, <1>10
    <2>2. q.c \in ClipState /\ q.c.board = w.c.board /\ q.c.tracked = w.c.tracked
          /\ q.c.deadline = w.c.deadline
      BY <1>7, <2>1 DEF ClipState
    <2> QED
      BY <1>6, <1>7, <1>8, <1>10, <2>2 DEF Copies, ClipOK
  <1> QED
    BY <1>9, <1>10

(* copy_secret_to_clipboard, after its clear.                              *)
LEMMA CopiedRecordFacts ==
    ASSUME NEW c, ClipOK(c), NEW s \in Secrets, NEW q \in CopiedRecord(c, s)
    PROVE  Copies(c, q, s)
  <1>1. c \in ClipState /\ s \in AnyText /\ "Clipboard" \in Selections
    BY DEF ClipOK, AnyText, Selections
  <1>2. PICK k \in Flag : k = (c.tracked # {})
    BY DEF Flag
  <1>3. PICK w \in SetOutcomes(c, "Clipboard", s) :
           q = [c |-> IF w.ok THEN [Tracking(w.c, s, k) EXCEPT !.explicit = TRUE, !.notice = ""]
                      ELSE [w.c EXCEPT !.tracked = {}, !.deadline = "none", !.notice = "nocopy"],
                bad |-> w.bad, ok |-> w.ok]
    BY <1>2 DEF CopiedRecord
  <1>4. /\ w \in Outcome /\ SameTracker(c, w.c)
        /\ w.c.board = IF w.ok THEN [c.board EXCEPT !["Clipboard"] = s] ELSE c.board
    BY <1>1, SetFacts
  <1>5. w.c \in ClipState /\ w.ok \in BOOLEAN /\ w.bad \in Nat
        /\ w.c.tracked = c.tracked
    BY <1>4 DEF Outcome, SameTracker
  <1>6. q.bad = w.bad /\ q.ok = w.ok
    BY <1>3
  <1>7. CASE w.ok
    <2>1. PICK n \in CopyNotices : n = ""
      BY DEF CopyNotices
    <2>2. /\ ClipOK(Made(w.c, s, k, n))
          /\ Made(w.c, s, k, n).board = w.c.board
          /\ Made(w.c, s, k, n).tracked = w.c.tracked \cup {s}
      <3>1. w.c \in ClipState /\ k \in Flag /\ n \in CopyNotices
        BY <1>2, <1>5, <2>1
      <3> QED
        BY <3>1, CopyMade
    <2>3. q.c = Made(w.c, s, k, n)
      BY <1>3, <1>7, <2>1 DEF Made
    <2>4. ClipOK(q.c) /\ q.c.board = w.c.board /\ q.c.tracked = w.c.tracked \cup {s}
      BY <2>2, <2>3
    <2> QED
      BY <1>4, <1>5, <1>6, <1>7, <2>4 DEF Copies
  <1>8. CASE ~w.ok
    <2>1. q.c = [w.c EXCEPT !.tracked = {}, !.deadline = "none", !.notice = "nocopy"]
      BY <1>3, <1>8
    <2>2. q.c \in ClipState /\ q.c.board = w.c.board /\ q.c.tracked = {}
          /\ q.c.deadline = "none"
      BY <1>5, <2>1 DEF ClipState
    <2> QED
      BY <1>4, <1>5, <1>6, <1>8, <2>2 DEF Copies, ClipOK
  <1> QED
    BY <1>7, <1>8

-----------------------------------------------------------------------------
(* The clipboard part of the invariant.                                    *)

\* A copy of the wallet's own is what its selection holds, and is tracked.
Owned(c, o, l) ==
    \A sel \in Selections :
        o[sel] # Empty => o[sel] = c.board[sel] /\ o[sel] \in c.tracked \cup l

ClipPart ==
    /\ ClipOK(clip)
    /\ clipFaults \in 0..MaxClipFaults
    /\ own \in [Selections -> AnyText]
    /\ lost \subseteq Secrets
    /\ Owned(clip, own, lost)

\* What is tracked and stays in its selection stays tracked.
KeepsTrack(c, d) ==
    \A sel \in Selections :
        d.board[sel] # Empty /\ d.board[sel] = c.board[sel] /\ d.board[sel] \in c.tracked
            => d.board[sel] \in d.tracked

\* A selection is emptied by a late call, or because it held part of a secret.
Matched(c, d) ==
    \A sel \in Selections :
        d.board[sel] = Empty /\ c.board[sel] # Empty =>
            \/ c.late.sel = sel
            \/ \E s \in c.tracked \cup d.tracked \cup Phrases : Contains(c.board[sel], s, sel)

Safe(c, d) == ClipOK(d) /\ KeepsTrack(c, d) /\ Matched(c, d)

(* A step of the clipboard.                                                *)
LEMMA ClipStep ==
    ASSUME ClipPart, NEW r, Clip(r), r.bad \in Nat, Safe(clip, r.c), lost' = lost
    PROVE  ClipPart' /\ Matched(clip, clip')
  <1>1. clip' = r.c /\ clipFaults + r.bad <= MaxClipFaults /\ clipFaults' = clipFaults + r.bad
        /\ own' = [sel \in Selections |-> IF r.c.board[sel] = own[sel] THEN own[sel] ELSE Empty]
    BY DEF Clip
  <1>2. ClipOK(clip') /\ Matched(clip, clip') /\ KeepsTrack(clip, clip')
    BY <1>1 DEF Safe
  <1>3. clipFaults' \in 0..MaxClipFaults
    BY <1>1, CustodyAssumptions DEF ClipPart
  <1>4. own' \in [Selections -> AnyText]
    BY <1>1 DEF ClipPart, AnyText
  <1>5. Owned(clip', own', lost')
    <2> SUFFICES ASSUME NEW sel \in Selections, own'[sel] # Empty
                 PROVE  own'[sel] = clip'.board[sel] /\ own'[sel] \in clip'.tracked \cup lost'
      BY DEF Owned
    <2>1. own'[sel] = own[sel] /\ own[sel] = clip'.board[sel]
      BY <1>1
    <2>2. own[sel] = clip.board[sel] /\ own[sel] \in clip.tracked \cup lost
      BY <2>1 DEF ClipPart, Owned
    <2> QED
      BY <1>2, <2>1, <2>2 DEF KeepsTrack
  <1> QED
    BY <1>2, <1>3, <1>4, <1>5 DEF ClipPart

(* Nothing of the clipboard changes.                                       *)
LEMMA UntouchedStep ==
    ASSUME ClipPart, Untouched, lost' = lost
    PROVE  ClipPart' /\ Matched(clip, clip')
  BY DEF ClipPart, Untouched, Matched

(* The wipe is safe.                                                       *)
LEMMA WipeIsSafe ==
    ASSUME NEW c, NEW d, ClipOK(d), WipedAll(c, d)
    PROVE  Safe(c, d)
  <1>1. KeepsTrack(c, d)
    BY DEF KeepsTrack, WipedAll
  <1>2. Matched(c, d)
    BY DEF Matched, WipedAll, Wiped, TrackedContains
  <1> QED
    BY <1>1, <1>2 DEF Safe

(* So is one that is followed by a registration (onboard_import_seed).     *)
LEMMA WipeThenRegister ==
    ASSUME NEW c, NEW e, NEW d, NEW s, ClipOK(d), WipedAll(c, e), Registers(e, d, s)
    PROVE  Safe(c, d)
  <1>1. KeepsTrack(c, d)
    BY DEF KeepsTrack, WipedAll, Registers
  <1>2. Matched(c, d)
    BY DEF Matched, WipedAll, Wiped, TrackedContains, Registers
  <1> QED
    BY <1>1, <1>2 DEF Safe

(* And a registration that is followed by a wipe (activate_seed).          *)
LEMMA RegisterThenWipe ==
    ASSUME NEW c, NEW e, NEW d, NEW s \in Phrases, ClipOK(d), Registers(c, e, s), WipedAll(e, d)
    PROVE  Safe(c, d)
  <1>1. KeepsTrack(c, d)
    BY DEF KeepsTrack, WipedAll, Registers
  <1>2. Matched(c, d)
    BY DEF Matched, WipedAll, Wiped, TrackedContains, Registers
  <1> QED
    BY <1>1, <1>2 DEF Safe

(* And a registration alone.                                               *)
LEMMA RegisterIsSafe ==
    ASSUME NEW c, NEW d, NEW s, ClipOK(d), Registers(c, d, s)
    PROVE  Safe(c, d)
  BY DEF Safe, KeepsTrack, Matched, Registers

(* A handler that wipes, and nothing more of the clipboard.                *)
LEMMA ClearStep ==
    ASSUME ClipPart, \E r \in Cleared(clip) : Clip(r), lost' = lost
    PROVE  ClipPart' /\ Matched(clip, clip')
  <1>1. PICK r \in Cleared(clip) : Clip(r)
    OBVIOUS
  <1>2. ClipOK(clip)
    BY DEF ClipPart
  <1>3. ClipOK(r.c) /\ r.bad \in Nat /\ WipedAll(clip, r.c)
    BY <1>1, <1>2, ClearedFacts
  <1>4. Safe(clip, r.c)
    BY <1>3, WipeIsSafe
  <1> QED
    BY <1>1, <1>3, <1>4, ClipStep

(* The copy of a secret s.                                                 *)
LEMMA CopyStep ==
    ASSUME ClipPart, NEW s \in Secrets, NEW r \in Cleared(clip), NEW q, Copies(r.c, q, s),
           NEW f \in SUBSET Secrets, ~q.ok => r.c.tracked \subseteq q.c.tracked \cup f,
           clipFaults + r.bad + q.bad <= MaxClipFaults,
           clipFaults' = clipFaults + r.bad + q.bad,
           clip' = q.c, lost' = lost \cup f,
           own' = [sel \in Selections |->
                       IF q.ok /\ sel = "Clipboard" THEN s
                       ELSE IF q.c.board[sel] = own[sel] THEN own[sel] ELSE Empty]
    PROVE  ClipPart' /\ Matched(clip, clip')
  <1>1. ClipOK(clip)
    BY DEF ClipPart
  <1>2. ClipOK(r.c) /\ r.bad \in Nat /\ WipedAll(clip, r.c)
    BY <1>1, ClearedFacts
  <1>3. /\ ClipOK(q.c) /\ q.bad \in Nat /\ q.ok \in BOOLEAN
        /\ q.c.board = IF q.ok THEN [r.c.board EXCEPT !["Clipboard"] = s] ELSE r.c.board
        /\ q.ok => q.c.tracked = r.c.tracked \cup {s}
    BY DEF Copies
  <1>4. s \in AnyText /\ s # Empty /\ Empty \in AnyText
    BY CustodyAssumptions DEF AnyText, Secrets, Empty
  <1>5. r.c.board \in [Selections -> AnyText]
    BY <1>2 DEF ClipOK, ClipState
  <1>6. \A sel \in Selections :
           /\ q.ok /\ sel = "Clipboard" => q.c.board[sel] = s
           /\ ~(q.ok /\ sel = "Clipboard") => q.c.board[sel] = r.c.board[sel]
    BY <1>3, <1>5
  <1>7. Matched(clip, clip')
    <2> SUFFICES ASSUME NEW sel \in Selections, q.c.board[sel] = Empty, clip.board[sel] # Empty
                 PROVE  \E t \in clip.tracked : Contains(clip.board[sel], t, sel)
      BY DEF Matched
    <2>1. r.c.board[sel] = Empty
      BY <1>4, <1>6
    <2> QED
      BY <1>2, <2>1 DEF WipedAll, Wiped, TrackedContains
  <1>8. clipFaults' \in 0..MaxClipFaults
    BY <1>2, <1>3, CustodyAssumptions DEF ClipPart
  <1>9. own' \in [Selections -> AnyText]
    BY <1>4 DEF ClipPart
  <1>10. lost' \subseteq Secrets
    BY DEF ClipPart
  <1>11. Owned(clip', own', lost')
    <2> SUFFICES ASSUME NEW sel \in Selections, own'[sel] # Empty
                 PROVE  own'[sel] = q.c.board[sel] /\ own'[sel] \in q.c.tracked \cup lost'
      BY DEF Owned
    <2>1. CASE q.ok /\ sel = "Clipboard"
      BY <1>3, <1>6, <2>1
    <2>2. CASE ~(q.ok /\ sel = "Clipboard")
      <3>1. own'[sel] = own[sel] /\ own[sel] = q.c.board[sel] /\ q.c.board[sel] = r.c.board[sel]
        BY <1>6, <2>2
      <3>2. own[sel] = clip.board[sel] /\ own[sel] \in clip.tracked \cup lost
        BY <3>1 DEF ClipPart, Owned
      <3>3. own[sel] \in clip.tracked => own[sel] \in r.c.tracked
        BY <1>2, <3>1, <3>2 DEF WipedAll
      <3>4. r.c.tracked \subseteq q.c.tracked \cup lost'
        BY <1>3
      <3> QED
        BY <3>1, <3>2, <3>3, <3>4
    <2> QED
      BY <2>1, <2>2
  <1> QED
    BY <1>3, <1>7, <1>8, <1>9, <1>10, <1>11 DEF ClipPart

-----------------------------------------------------------------------------
(* The phrases of the interface.                                           *)

OptPhrase == Phrases \cup {Empty}
UiState ==
    [phase : {"outside", "inside"}, seed : OptPhrase, confirmed : OptPhrase,
     creating : OptPhrase, backup : BOOLEAN, backedUp : SUBSET OptPhrase,
     shown : BOOLEAN, staged : BOOLEAN]

\* The mark of the backup is about the phrase that is staged, and is gone with
\* the creation once the wallet is open.
UiOK(u) ==
    /\ u \in UiState
    /\ u.creating # Empty => u.creating \in u.backedUp
    /\ u.backup => u.seed \in u.backedUp
    /\ u.phase = "inside" => u.creating = Empty /\ ~u.backup

\* The same phase, and the same phrase being created and phrases backed up.
SamePhrases(u, v) ==
    /\ v.phase = u.phase /\ v.creating = u.creating /\ v.backedUp = u.backedUp

(* clear_staged_onboarding_seed.                                           *)
LEMMA NothingStagedFacts ==
    ASSUME NEW u \in UiState
    PROVE  LET v == NothingStaged(u) IN
           /\ v \in UiState /\ v.phase = u.phase /\ v.creating = u.creating
           /\ v.backup = FALSE /\ v.seed = Empty
  <1>1. PICK d : d = [u EXCEPT !.seed = Empty, !.confirmed = Empty, !.staged = FALSE]
    OBVIOUS
  <1>2. d \in UiState /\ d.phase = u.phase /\ d.creating = u.creating /\ d.seed = Empty
    BY <1>1 DEF UiState, OptPhrase
  <1>3. PICK e : e = [d EXCEPT !.shown = FALSE, !.backup = FALSE, !.backedUp = {}]
    OBVIOUS
  <1>4. /\ e \in UiState /\ e.phase = u.phase /\ e.creating = u.creating
        /\ e.backup = FALSE /\ e.seed = Empty
    BY <1>2, <1>3 DEF UiState
  <1>5. NothingStaged(u) = e
    BY <1>1, <1>3 DEF NothingStaged, UiState
  <1> QED
    BY <1>4, <1>5

(* Nothing staged, and nothing being created.                              *)
LEMMA CleanUi ==
    ASSUME NEW u, UiOK(u), NEW v, v \in UiState, v.creating = Empty, v.backup = FALSE
    PROVE  UiOK(v)
  BY DEF UiOK

CustodyInv == ClipPart /\ UiOK(ui) /\ copies \in 0..MaxCopies

(* The invariant holds at the start.                                       *)
LEMMA CustodyInitOK == CustodyInit => CustodyInv
  <1> SUFFICES ASSUME CustodyInit PROVE CustodyInv
    OBVIOUS
  <1>1. 0 \in 0..MaxRetries /\ 0 \in 0..MaxCopies /\ 0 \in 0..MaxClipFaults
    BY CustodyAssumptions
  <1>2. Empty \in AnyText /\ Empty \in OptPhrase
    BY DEF AnyText, OptPhrase
  <1>3. [sel \in Selections |-> Empty] \in [Selections -> AnyText]
    BY <1>2
  <1>4. ClipOK(clip)
    BY <1>1, <1>3 DEF CustodyInit, ClipOK, ClipState
  <1>5. UiOK(ui)
    BY <1>2 DEF CustodyInit, UiOK, UiState
  <1>6. ClipPart
    <2>1. Owned(clip, own, lost)
      BY DEF Owned, CustodyInit
    <2> QED
      BY <1>1, <1>3, <1>4, <2>1 DEF ClipPart, CustodyInit
  <1>7. copies \in 0..MaxCopies
    BY <1>1 DEF CustodyInit
  <1> QED
    BY <1>5, <1>6, <1>7 DEF CustodyInv

\* What every step keeps.
Goal == CustodyInv' /\ Matched(clip, clip')

(* It has a part about the clipboard and one about the interface.          *)
LEMMA Together ==
    ASSUME CustodyInv, ClipPart', Matched(clip, clip'), UiOK(ui'),
           copies' \in {copies, copies + 1}, copies' <= MaxCopies
    PROVE  Goal
  <1>1. copies' \in 0..MaxCopies
    BY CustodyAssumptions DEF CustodyInv
  <1> QED
    BY <1>1 DEF Goal, CustodyInv

(* A handler that wipes and changes the interface.                         *)
LEMMA WipingStep ==
    ASSUME CustodyInv, \E r \in Cleared(clip) : Clip(r), UiOK(ui'), UNCHANGED <<copies, lost>>
    PROVE  Goal
  <1>1. ClipPart /\ copies \in 0..MaxCopies /\ lost' = lost /\ copies' = copies
    BY DEF CustodyInv
  <1>2. ClipPart' /\ Matched(clip, clip')
    BY <1>1, ClearStep
  <1>3. copies' <= MaxCopies
    BY <1>1, CustodyAssumptions
  <1> QED
    BY <1>1, <1>2, <1>3, Together

(* A handler that leaves the clipboard alone.                              *)
LEMMA AsideStep ==
    ASSUME CustodyInv, Untouched, UiOK(ui'), UNCHANGED <<copies, lost>>
    PROVE  Goal
  <1>1. ClipPart /\ copies \in 0..MaxCopies /\ lost' = lost /\ copies' = copies
    BY DEF CustodyInv
  <1>2. ClipPart' /\ Matched(clip, clip')
    BY <1>1, UntouchedStep
  <1>3. copies' <= MaxCopies
    BY <1>1, CustodyAssumptions
  <1> QED
    BY <1>1, <1>2, <1>3, Together

(* A handler that changes the clipboard only.                              *)
LEMMA ClipboardStep ==
    ASSUME CustodyInv, NEW r, Clip(r), r.bad \in Nat, Safe(clip, r.c), UNCHANGED <<ui, copies, lost>>
    PROVE  Goal
  <1>1. ClipPart /\ copies \in 0..MaxCopies /\ lost' = lost /\ copies' = copies /\ UiOK(ui')
    BY DEF CustodyInv
  <1>2. ClipPart' /\ Matched(clip, clip')
    BY <1>1, ClipStep
  <1>3. copies' <= MaxCopies
    BY <1>1, CustodyAssumptions
  <1> QED
    BY <1>1, <1>2, <1>3, Together

(* probe_phase and new_wallet_request.                                     *)
LEMMA RestageStep == ASSUME CustodyInv, Restage PROVE Goal
  <1>1. PICK v : v = NothingStaged(ui)
    OBVIOUS
  <1>2. v \in UiState /\ v.backup = FALSE /\ UiOK(ui)
    BY <1>1, NothingStagedFacts DEF CustodyInv, UiOK
  <1>3. ui' = [v EXCEPT !.creating = Empty]
    BY <1>1 DEF Restage
  <1>4. ui' \in UiState /\ ui'.creating = Empty /\ ui'.backup = FALSE
    BY <1>2, <1>3 DEF UiState, OptPhrase
  <1> QED
    BY <1>2, <1>4, CleanUi, WipingStep DEF Restage

(* generate_seed: a phrase that is not backed up.                          *)
LEMMA GenerateSeedStep == ASSUME CustodyInv, NEW s \in Phrases, GenerateSeed(s) PROVE Goal
  <1>1. UiOK(ui) /\ ui \in UiState /\ s \in OptPhrase
    BY DEF CustodyInv, UiOK, OptPhrase
  <1>2. ui' = [ui EXCEPT !.seed = s, !.backup = FALSE, !.shown = TRUE, !.staged = TRUE]
    BY DEF GenerateSeed
  <1>3. ui' \in UiState /\ ui'.backup = FALSE /\ SamePhrases(ui, ui')
    BY <1>1, <1>2 DEF UiState, SamePhrases
  <1>4. UiOK(ui')
    BY <1>1, <1>3 DEF UiOK, SamePhrases
  <1> QED
    BY <1>4, WipingStep DEF GenerateSeed

(* onboard_import_seed: the mark of the backup goes with the phrase.       *)
LEMMA OnboardImportStep == ASSUME CustodyInv, NEW s \in OptPhrase, OnboardImport(s) PROVE Goal
  <1>1. UiOK(ui) /\ ui \in UiState /\ ClipPart /\ ClipOK(clip)
        /\ copies \in 0..MaxCopies /\ copies < MaxCopies /\ copies' = copies + 1 /\ lost' = lost
    BY DEF CustodyInv, UiOK, ClipPart, OnboardImport
  <1>2. PICK v : v = OtherPhrase(ui, s)
    OBVIOUS
  <1>3. /\ v \in UiState /\ SamePhrases(ui, v) /\ v.seed = ui.seed
        /\ v.backup => ui.backup /\ s = ui.seed
    BY <1>1, <1>2 DEF OtherPhrase, UiState, SamePhrases
  <1>4. ui' = [v EXCEPT !.seed = s]
    BY <1>2 DEF OnboardImport
  <1>5. ui' \in UiState /\ SamePhrases(v, ui') /\ ui'.seed = s /\ ui'.backup = v.backup
    BY <1>3, <1>4 DEF UiState, SamePhrases
  <1>6. UiOK(ui')
    BY <1>1, <1>3, <1>5 DEF UiOK, SamePhrases
  <1>7. PICK r \in (IF clip.tracked \notin {{}, {s}} THEN Cleared(clip) ELSE {[c |-> clip, bad |-> 0]}) :
           \E q \in (IF s = Empty THEN {[c |-> r.c, bad |-> 0]} ELSE Registered(r.c, s)) :
              Clip([c |-> q.c, bad |-> r.bad + q.bad])
    BY DEF OnboardImport
  <1>8. PICK q \in (IF s = Empty THEN {[c |-> r.c, bad |-> 0]} ELSE Registered(r.c, s)) :
              Clip([c |-> q.c, bad |-> r.bad + q.bad])
    BY <1>7
  <1>9. ClipOK(r.c) /\ r.bad \in Nat /\ (WipedAll(clip, r.c) \/ r.c = clip)
    <2>1. CASE r \in Cleared(clip)
      BY <1>1, <2>1, ClearedFacts
    <2>2. CASE r = [c |-> clip, bad |-> 0]
      BY <1>1, <2>2
    <2> QED
      BY <1>7, <2>1, <2>2
  <1>10. ClipOK(q.c) /\ q.bad \in Nat /\ Registers(r.c, q.c, s)
    <2>1. CASE s # Empty /\ q \in Registered(r.c, s)
      <3>1. s \in Secrets
        BY <2>1 DEF OptPhrase, Secrets
      <3> QED
        BY <1>9, <2>1, <3>1, RegisteredFacts
    <2>2. CASE q = [c |-> r.c, bad |-> 0]
      BY <1>9, <2>2 DEF Registers
    <2> QED
      BY <1>8, <2>1, <2>2
  <1>11. Safe(clip, q.c)
    BY <1>9, <1>10, WipeThenRegister, RegisterIsSafe
  <1>12. PICK n \in Nat : n = r.bad + q.bad
    BY <1>9, <1>10
  <1>13. PICK p : p = [c |-> q.c, bad |-> n]
    OBVIOUS
  <1>14. p.c = q.c /\ p.bad = n /\ Clip(p)
    BY <1>8, <1>12, <1>13
  <1>15. ClipPart' /\ Matched(clip, clip')
    BY <1>1, <1>11, <1>12, <1>14, ClipStep
  <1>16. copies' <= MaxCopies
    BY <1>1, CustodyAssumptions
  <1> QED
    BY <1>1, <1>6, <1>15, <1>16, Together

(* The user says whether the phrase on screen is backed up.                *)
LEMMA ConfirmBackupStep == ASSUME CustodyInv, NEW v \in BOOLEAN, ConfirmBackup(v) PROVE Goal
  <1>1. UiOK(ui) /\ ui \in UiState /\ ui.phase = "outside"
    BY DEF CustodyInv, UiOK, ConfirmBackup
  <1>2. PICK B \in SUBSET OptPhrase : B = IF v THEN ui.backedUp \cup {ui.seed} ELSE ui.backedUp
    BY <1>1 DEF UiState
  <1>3. ui' = [ui EXCEPT !.backup = v, !.backedUp = B]
    BY <1>2 DEF ConfirmBackup
  <1>4. /\ ui' \in UiState /\ ui'.backup = v /\ ui'.backedUp = B
        /\ ui'.phase = ui.phase /\ ui'.creating = ui.creating /\ ui'.seed = ui.seed
    BY <1>1, <1>2, <1>3 DEF UiState
  <1>5. UiOK(ui')
    BY <1>1, <1>2, <1>4 DEF UiOK
  <1> QED
    BY <1>5, AsideStep DEF ConfirmBackup

(* create_wallet: the phrase it captures is the one that was backed up.    *)
LEMMA CreateFromPhraseStep == ASSUME CustodyInv, CreateFromPhrase PROVE Goal
  <1>1. UiOK(ui) /\ ui \in UiState /\ ui.phase = "outside" /\ ui.backup
    BY DEF CustodyInv, UiOK, CreateFromPhrase, MayCreate
  <1>2. ui' = [ui EXCEPT !.confirmed = ui.seed, !.staged = FALSE, !.creating = ui.seed]
    BY DEF CreateFromPhrase
  <1>3. /\ ui' \in UiState /\ ui'.creating = ui.seed /\ ui'.seed = ui.seed
        /\ ui'.backup = ui.backup /\ ui'.backedUp = ui.backedUp /\ ui'.phase = ui.phase
    BY <1>1, <1>2 DEF UiState
  <1>4. UiOK(ui')
    BY <1>1, <1>3 DEF UiOK
  <1> QED
    BY <1>4, AsideStep DEF CreateFromPhrase

(* enter_app.                                                              *)
LEMMA EnterAppStep == ASSUME CustodyInv, NEW s \in Phrases, EnterApp(s) PROVE Goal
  <1>1. UiOK(ui) /\ ui \in UiState /\ s \in OptPhrase /\ Empty \in OptPhrase
    BY DEF CustodyInv, UiOK, OptPhrase
  <1>2. PICK d : d = [ui EXCEPT !.phase = "inside", !.seed = s, !.confirmed = s, !.creating = Empty]
    OBVIOUS
  <1>3. d \in UiState /\ d.creating = Empty
    BY <1>1, <1>2 DEF UiState
  <1>4. PICK e : e = [d EXCEPT !.staged = FALSE, !.shown = FALSE, !.backup = FALSE, !.backedUp = {}]
    OBVIOUS
  <1>5. e \in UiState /\ e.creating = Empty /\ e.backup = FALSE
    BY <1>3, <1>4 DEF UiState
  <1>6. ui' = e
    BY <1>1, <1>2, <1>4 DEF EnterApp, UiState
  <1>7. UiOK(ui')
    BY <1>1, <1>5, <1>6, CleanUi
  <1> QED
    BY <1>7, WipingStep DEF EnterApp

(* finish_lock.                                                            *)
LEMMA LockWalletStep == ASSUME CustodyInv, LockWallet PROVE Goal
  <1>1. UiOK(ui) /\ ui \in UiState /\ ui.creating = Empty
    BY DEF CustodyInv, UiOK, LockWallet
  <1>2. PICK v : v = NothingStaged(ui)
    OBVIOUS
  <1>3. v \in UiState /\ v.backup = FALSE /\ v.creating = Empty
    BY <1>1, <1>2, NothingStagedFacts
  <1>4. ui' = [v EXCEPT !.phase = "outside"]
    BY <1>2 DEF LockWallet
  <1>5. ui' \in UiState /\ ui'.creating = Empty /\ ui'.backup = FALSE
    BY <1>3, <1>4 DEF UiState
  <1>6. UiOK(ui')
    BY <1>1, <1>5, CleanUi
  <1> QED
    BY <1>6, WipingStep DEF LockWallet

(* While the wallet is open nothing is being created.                      *)
LEMMA InsideUi ==
    ASSUME NEW u, UiOK(u), u.phase = "inside", NEW v, v \in UiState,
           v.creating = u.creating, v.backup = u.backup
    PROVE  UiOK(v)
  BY DEF UiOK

(* show_seed_for_one_minute.                                               *)
LEMMA RevealStep == ASSUME CustodyInv, Reveal PROVE Goal
  <1>1. UiOK(ui) /\ ui \in UiState /\ ui.phase = "inside" /\ ui' = [ui EXCEPT !.shown = TRUE]
    BY DEF CustodyInv, UiOK, Reveal
  <1>2. ui' \in UiState /\ ui'.creating = ui.creating /\ ui'.backup = ui.backup
    BY <1>1 DEF UiState
  <1>3. UiOK(ui')
    BY <1>1, <1>2, InsideUi
  <1> QED
    BY <1>3, AsideStep DEF Reveal

(* hide_seed.                                                              *)
LEMMA HideSeedStep == ASSUME CustodyInv, HideSeed PROVE Goal
  <1>1. UiOK(ui) /\ ui \in UiState /\ ui.phase = "inside" /\ ui' = [ui EXCEPT !.shown = FALSE]
    BY DEF CustodyInv, UiOK, HideSeed
  <1>2. ui' \in UiState /\ ui'.creating = ui.creating /\ ui'.backup = ui.backup
    BY <1>1 DEF UiState
  <1>3. UiOK(ui')
    BY <1>1, <1>2, InsideUi
  <1> QED
    BY <1>3, WipingStep DEF HideSeed

(* The generated phrase is discarded.                                      *)
LEMMA DiscardSeedStep == ASSUME CustodyInv, DiscardSeed PROVE Goal
  <1>1. UiOK(ui) /\ ui \in UiState /\ ui.phase = "inside"
        /\ ui' = [ui EXCEPT !.seed = ui.confirmed, !.staged = FALSE, !.shown = FALSE]
    BY DEF CustodyInv, UiOK, DiscardSeed
  <1>2. ui' \in UiState /\ ui'.creating = ui.creating /\ ui'.backup = ui.backup
    BY <1>1 DEF UiState
  <1>3. UiOK(ui')
    BY <1>1, <1>2, InsideUi
  <1> QED
    BY <1>3, WipingStep DEF DiscardSeed

(* activate_seed: a phrase that was pasted is registered, then wiped.      *)
LEMMA UseSeedStep == ASSUME CustodyInv, NEW s \in Phrases, UseSeed(s) PROVE Goal
  <1>1. UiOK(ui) /\ ui \in UiState /\ ui.phase = "inside" /\ ClipPart /\ ClipOK(clip)
        /\ copies \in 0..MaxCopies /\ copies < MaxCopies /\ copies' = copies + 1 /\ lost' = lost
        /\ ui' = [ui EXCEPT !.seed = s, !.confirmed = s, !.staged = FALSE, !.shown = FALSE]
    BY DEF CustodyInv, UiOK, ClipPart, UseSeed
  <1>2. ui' \in UiState /\ ui'.creating = ui.creating /\ ui'.backup = ui.backup
    BY <1>1 DEF UiState, OptPhrase
  <1>3. UiOK(ui')
    BY <1>1, <1>2, InsideUi
  <1>4. PICK r \in (IF s = ui.seed THEN {[c |-> clip, bad |-> 0]} ELSE Registered(clip, s)) :
           \E q \in Cleared(r.c) : Clip([c |-> q.c, bad |-> r.bad + q.bad])
    BY DEF UseSeed
  <1>5. PICK q \in Cleared(r.c) : Clip([c |-> q.c, bad |-> r.bad + q.bad])
    BY <1>4
  <1>6. ClipOK(r.c) /\ r.bad \in Nat /\ Registers(clip, r.c, s)
    <2>1. CASE r \in Registered(clip, s)
      <3>1. s \in Secrets
        BY DEF Secrets
      <3> QED
        BY <1>1, <2>1, <3>1, RegisteredFacts
    <2>2. CASE r = [c |-> clip, bad |-> 0]
      BY <1>1, <2>2 DEF Registers
    <2> QED
      BY <1>4, <2>1, <2>2
  <1>7. ClipOK(q.c) /\ q.bad \in Nat /\ WipedAll(r.c, q.c)
    BY <1>5, <1>6, ClearedFacts
  <1>8. Safe(clip, q.c)
    BY <1>6, <1>7, RegisterThenWipe
  <1>9. PICK n \in Nat : n = r.bad + q.bad
    BY <1>6, <1>7
  <1>10. PICK p : p = [c |-> q.c, bad |-> n]
    OBVIOUS
  <1>11. p.c = q.c /\ p.bad = n /\ Clip(p)
    BY <1>5, <1>9, <1>10
  <1>12. ClipPart' /\ Matched(clip, clip')
    BY <1>1, <1>8, <1>9, <1>11, ClipStep
  <1>13. copies' <= MaxCopies
    BY <1>1, CustodyAssumptions
  <1> QED
    BY <1>1, <1>3, <1>12, <1>13, Together

(* copy_seed_to_clipboard: what could not be wiped stays tracked.          *)
LEMMA CopySeedStep == ASSUME CustodyInv, CopySeed PROVE Goal
  <1>1. /\ ClipPart /\ ClipOK(clip) /\ UiOK(ui) /\ ui' = ui
        /\ copies \in 0..MaxCopies /\ copies < MaxCopies /\ copies' = copies + 1
    BY DEF CustodyInv, ClipPart, CopySeed, Copy
  <1>2. PICK s \in Secrets : s = ui.seed
    BY <1>1 DEF UiOK, UiState, OptPhrase, Secrets, CopySeed
  <1>3. PICK r \in Cleared(clip) : \E q \in CopiedSeed(r.c, s) :
         /\ clipFaults + r.bad + q.bad <= MaxClipFaults /\ clipFaults' = clipFaults + r.bad + q.bad
         /\ clip' = q.c
         /\ own' = [sel \in Selections |->
                       IF q.ok /\ sel = "Clipboard" THEN s
                       ELSE IF q.c.board[sel] = own[sel] THEN own[sel] ELSE Empty]
         /\ lost' = lost \cup {}
    BY <1>2 DEF CopySeed, Copy
  <1>4. PICK q \in CopiedSeed(r.c, s) :
         /\ clipFaults + r.bad + q.bad <= MaxClipFaults /\ clipFaults' = clipFaults + r.bad + q.bad
         /\ clip' = q.c
         /\ own' = [sel \in Selections |->
                       IF q.ok /\ sel = "Clipboard" THEN s
                       ELSE IF q.c.board[sel] = own[sel] THEN own[sel] ELSE Empty]
         /\ lost' = lost \cup {}
    BY <1>3
  <1>5. ClipOK(r.c)
    BY <1>1, ClearedFacts
  <1>6. Copies(r.c, q, s) /\ (~q.ok => q.c.tracked = r.c.tracked)
    BY <1>4, <1>5, CopiedSeedFacts
  <1>7. {} \in SUBSET Secrets /\ (~q.ok => r.c.tracked \subseteq q.c.tracked \cup {})
    BY <1>6
  <1>8. ClipPart' /\ Matched(clip, clip')
    BY <1>1, <1>4, <1>6, <1>7, CopyStep
  <1>9. copies' <= MaxCopies /\ UiOK(ui')
    BY <1>1, CustodyAssumptions
  <1> QED
    BY <1>1, <1>8, <1>9, Together

(* copy_secret_to_clipboard: what it forgets is counted as lost.           *)
LEMMA CopyRecordStep == ASSUME CustodyInv, NEW s \in RecordTexts, CopyRecord(s) PROVE Goal
  <1>1. /\ ClipPart /\ ClipOK(clip) /\ UiOK(ui) /\ ui' = ui
        /\ copies \in 0..MaxCopies /\ copies < MaxCopies /\ copies' = copies + 1
    BY DEF CustodyInv, ClipPart, CopyRecord, Copy
  <1>2. s \in Secrets
    BY DEF Secrets
  <1>3. PICK r \in Cleared(clip) : \E q \in CopiedRecord(r.c, s) :
         /\ clipFaults + r.bad + q.bad <= MaxClipFaults /\ clipFaults' = clipFaults + r.bad + q.bad
         /\ clip' = q.c
         /\ own' = [sel \in Selections |->
                       IF q.ok /\ sel = "Clipboard" THEN s
                       ELSE IF q.c.board[sel] = own[sel] THEN own[sel] ELSE Empty]
         /\ lost' = lost \cup (IF ~q.ok THEN r.c.tracked ELSE {})
    BY DEF CopyRecord, Copy
  <1>4. PICK q \in CopiedRecord(r.c, s) :
         /\ clipFaults + r.bad + q.bad <= MaxClipFaults /\ clipFaults' = clipFaults + r.bad + q.bad
         /\ clip' = q.c
         /\ own' = [sel \in Selections |->
                       IF q.ok /\ sel = "Clipboard" THEN s
                       ELSE IF q.c.board[sel] = own[sel] THEN own[sel] ELSE Empty]
         /\ lost' = lost \cup (IF ~q.ok THEN r.c.tracked ELSE {})
    BY <1>3
  <1>5. ClipOK(r.c) /\ r.c.tracked \in SUBSET Secrets
    BY <1>1, ClearedFacts DEF ClipOK, ClipState
  <1>6. Copies(r.c, q, s)
    BY <1>2, <1>4, <1>5, CopiedRecordFacts
  <1>7. PICK f \in SUBSET Secrets : f = IF ~q.ok THEN r.c.tracked ELSE {}
    BY <1>5
  <1>8. ~q.ok => r.c.tracked \subseteq q.c.tracked \cup f
    BY <1>7
  <1>9. lost' = lost \cup f
    BY <1>4, <1>7
  <1>10. ClipPart' /\ Matched(clip, clip')
    BY <1>1, <1>2, <1>4, <1>6, <1>7, <1>8, <1>9, CopyStep
  <1>11. copies' <= MaxCopies /\ UiOK(ui')
    BY <1>1, CustodyAssumptions
  <1> QED
    BY <1>1, <1>10, <1>11, Together

(* Another text takes the place of what a selection held.                  *)
LEMMA ReplaceIsSafe ==
    ASSUME NEW c, ClipOK(c), NEW sel \in Selections, NEW t \in AnyText,
           t # Empty \/ c.late.sel = sel, NEW d \in ClipState,
           d.board = [c.board EXCEPT ![sel] = t], d.tracked = c.tracked, d.deadline = c.deadline
    PROVE  Safe(c, d)
  <1>1. c.board \in [Selections -> AnyText]
    BY DEF ClipOK, ClipState
  <1>2. \A x \in Selections : d.board[x] = IF x = sel THEN t ELSE c.board[x]
    BY <1>1
  <1> QED
    BY <1>2 DEF Safe, ClipOK, KeepsTrack, Matched

(* copy_text: public text.                                                 *)
LEMMA CopyTextStep == ASSUME CustodyInv, NEW t \in Texts, CopyText(t) PROVE Goal
  <1>1. ClipOK(clip) /\ clip \in ClipState /\ "Clipboard" \in Selections
        /\ t \in AnyText /\ t # Empty
    BY CustodyAssumptions DEF CustodyInv, ClipPart, ClipOK, Selections, AnyText, Empty
  <1>2. PICK w \in SetOutcomes(clip, "Clipboard", t) :
          Clip([c |-> IF w.ok THEN [w.c EXCEPT !.explicit = FALSE] ELSE w.c, bad |-> w.bad])
    BY DEF CopyText
  <1>3. /\ w \in Outcome /\ SameTracker(clip, w.c)
        /\ w.c.board = IF w.ok THEN [clip.board EXCEPT !["Clipboard"] = t] ELSE clip.board
    BY <1>1, SetFacts
  <1>4. w.c \in ClipState /\ w.ok \in BOOLEAN /\ w.bad \in Nat
        /\ w.c.tracked = clip.tracked /\ w.c.deadline = clip.deadline
    BY <1>3 DEF Outcome, SameTracker
  <1>5. PICK d : d = IF w.ok THEN [w.c EXCEPT !.explicit = FALSE] ELSE w.c
    OBVIOUS
  <1>6. d \in ClipState /\ d.board = w.c.board /\ d.tracked = clip.tracked
        /\ d.deadline = clip.deadline
    BY <1>4, <1>5 DEF ClipState
  <1>7. Safe(clip, d)
    <2>1. CASE w.ok
      BY <1>1, <1>3, <1>6, <2>1, ReplaceIsSafe
    <2>2. CASE ~w.ok
      <3>1. d.board = clip.board
        BY <1>3, <1>6, <2>2
      <3> QED
        BY <1>1, <1>6, <3>1 DEF Safe, ClipOK, KeepsTrack, Matched
    <2> QED
      BY <2>1, <2>2
  <1>8. PICK p : p = [c |-> d, bad |-> w.bad]
    OBVIOUS
  <1>9. p.c = d /\ p.bad = w.bad /\ Clip(p)
    BY <1>2, <1>5, <1>8
  <1> QED
    BY <1>4, <1>7, <1>9, ClipboardStep DEF CopyText

(* tick: the wipe's deadline.                                              *)
LEMMA DeadlineStep == ASSUME CustodyInv, DeadlineExpires PROVE Goal
  <1>1. UiOK(ui')
    BY DEF CustodyInv, DeadlineExpires
  <1> QED
    BY <1>1, WipingStep DEF DeadlineExpires

(* shutdown.                                                               *)
LEMMA CloseWindowStep == ASSUME CustodyInv, CloseWindow PROVE Goal
  <1>1. UiOK(ui) /\ ui \in UiState
    BY DEF CustodyInv, UiOK
  <1>2. PICK r \in Cleared(clip) :
         /\ Clip(r)
         /\ ui' = IF r.c.tracked # {} THEN ui
                  ELSE [NothingStaged(ui) EXCEPT !.phase = "outside", !.creating = Empty]
    BY DEF CloseWindow
  <1>3. PICK v : v = NothingStaged(ui)
    OBVIOUS
  <1>4. v \in UiState /\ v.backup = FALSE
    BY <1>1, <1>3, NothingStagedFacts
  <1>5. PICK e : e = [v EXCEPT !.phase = "outside", !.creating = Empty]
    OBVIOUS
  <1>6. e \in UiState /\ e.creating = Empty /\ e.backup = FALSE
    BY <1>4, <1>5 DEF UiState, OptPhrase
  <1>7. ui' = ui \/ ui' = e
    BY <1>2, <1>3, <1>5
  <1>8. UiOK(ui')
    BY <1>1, <1>6, <1>7, CleanUi
  <1> QED
    BY <1>2, <1>8, WipingStep DEF CloseWindow

(* The user puts something into a selection.                               *)
LEMMA UserCopiesStep ==
    ASSUME CustodyInv, NEW sel \in Selections, NEW t \in Texts, UserCopies(sel, t)
    PROVE  Goal
  <1>1. ClipOK(clip) /\ clip \in ClipState /\ t \in AnyText /\ t # Empty
    BY CustodyAssumptions DEF CustodyInv, ClipPart, ClipOK, AnyText, Empty
  <1>2. PICK b \in [Selections -> AnyText] : b = [clip.board EXCEPT ![sel] = t]
    BY <1>1 DEF ClipState
  <1>3. PICK d : d = [clip EXCEPT !.board = b]
    OBVIOUS
  <1>4. d \in ClipState /\ d.board = b /\ d.tracked = clip.tracked /\ d.deadline = clip.deadline
    BY <1>1, <1>3 DEF ClipState
  <1>5. Safe(clip, d)
    BY <1>1, <1>2, <1>4, ReplaceIsSafe
  <1>6. PICK p : p = [c |-> d, bad |-> 0]
    OBVIOUS
  <1>7. p.c = d /\ p.bad = 0 /\ Clip(p)
    BY <1>2, <1>3, <1>6 DEF UserCopies
  <1> QED
    BY <1>5, <1>7, ClipboardStep DEF UserCopies

(* A call that had timed out is applied.                                   *)
LEMMA LateCallStep == ASSUME CustodyInv, LateCallLands PROVE Goal
  <1>1. ClipOK(clip) /\ clip \in ClipState /\ clip.late # NoLate
    BY DEF CustodyInv, ClipPart, ClipOK, LateCallLands
  <1>2. PICK sel \in Selections : sel = clip.late.sel
    BY <1>1 DEF ClipState
  <1>3. PICK t \in AnyText : t = clip.late.text
    BY <1>1 DEF ClipState
  <1>4. PICK b \in [Selections -> AnyText] : b = [clip.board EXCEPT ![sel] = t]
    BY <1>1 DEF ClipState
  <1>5. PICK d : d = [clip EXCEPT !.board = b, !.late = NoLate]
    OBVIOUS
  <1>6. d \in ClipState /\ d.board = b /\ d.tracked = clip.tracked /\ d.deadline = clip.deadline
    BY <1>1, <1>5 DEF ClipState
  <1>7. Safe(clip, d)
    BY <1>1, <1>2, <1>4, <1>6, ReplaceIsSafe
  <1>8. PICK p : p = [c |-> d, bad |-> 0]
    OBVIOUS
  <1>9. p.c = d /\ p.bad = 0 /\ Clip(p)
    BY <1>1, <1>2, <1>3, <1>4, <1>5, <1>8 DEF LateCallLands, ClipState
  <1> QED
    BY <1>7, <1>9, ClipboardStep DEF LateCallLands

-----------------------------------------------------------------------------
(* The theorems about secrets.                                             *)

(* Every step keeps the invariant, and empties only what may be emptied.   *)
LEMMA CustodyStep == ASSUME CustodyInv, CustodyNext PROVE Goal
  <1>1. CASE \/ Restage \/ CreateFromPhrase \/ LockWallet \/ Reveal \/ HideSeed
             \/ DiscardSeed \/ CopySeed
    BY <1>1, RestageStep, CreateFromPhraseStep, LockWalletStep, RevealStep,
       HideSeedStep, DiscardSeedStep, CopySeedStep
  <1>2. CASE DeadlineExpires \/ CloseWindow \/ LateCallLands
    BY <1>2, DeadlineStep, CloseWindowStep, LateCallStep
  <1>3. ASSUME NEW s \in Phrases, GenerateSeed(s) \/ EnterApp(s) \/ UseSeed(s) PROVE Goal
    BY <1>3, GenerateSeedStep, EnterAppStep, UseSeedStep
  <1>4. ASSUME NEW s \in Phrases \cup {Empty}, OnboardImport(s) PROVE Goal
    BY <1>4, OnboardImportStep DEF OptPhrase
  <1>5. ASSUME NEW v \in BOOLEAN, ConfirmBackup(v) PROVE Goal
    BY <1>5, ConfirmBackupStep
  <1>6. ASSUME NEW s \in RecordTexts, CopyRecord(s) PROVE Goal
    BY <1>6, CopyRecordStep
  <1>7. ASSUME NEW t \in Texts, CopyText(t) PROVE Goal
    BY <1>7, CopyTextStep
  <1>8. ASSUME NEW sel \in Selections, NEW t \in Texts, UserCopies(sel, t) PROVE Goal
    BY <1>8, UserCopiesStep
  <1> QED
    BY <1>1, <1>2, <1>3, <1>4, <1>5, <1>6, <1>7, <1>8 DEF CustodyNext

(* What is tracked is what a selection may still hold, and what the mark   *)
(* of a backup is about is the phrase on screen, in every state.           *)
THEOREM CustodyInvariant == CustodySpec => []CustodyInv
  <1>1. CustodyInv /\ [CustodyNext]_custodyVars => CustodyInv'
    <2> SUFFICES ASSUME CustodyInv, [CustodyNext]_custodyVars PROVE CustodyInv'
      OBVIOUS
    <2>1. CASE CustodyNext
      BY <2>1, CustodyStep DEF Goal
    <2>2. CASE UNCHANGED custodyVars
      BY <2>2 DEF custodyVars, CustodyInv, ClipPart
    <2> QED
      BY <2>1, <2>2
  <1> QED
    BY <1>1, CustodyInitOK, PTL DEF CustodySpec

(* A secret that the wallet copied stays tracked while its copy is in a    *)
(* selection, with a wipe scheduled, and a wallet is created only from a   *)
(* phrase whose backup was confirmed (copy_seed_to_clipboard,              *)
(* clear_seed_from_clipboard, create_wallet).                              *)
THEOREM CustodySecretsTracked == CustodySpec => []SecretsAreTracked
  <1>1. CustodyInv => SecretsAreTracked
    <2> SUFFICES ASSUME CustodyInv PROVE SecretsAreTracked
      OBVIOUS
    <2>1. /\ ClipOK(clip) /\ clip \in ClipState /\ UiOK(ui) /\ ui \in UiState
          /\ copies \in 0..MaxCopies /\ clipFaults \in 0..MaxClipFaults
          /\ own \in [Selections -> AnyText] /\ lost \subseteq Secrets
          /\ Owned(clip, own, lost)
      BY DEF CustodyInv, ClipPart, ClipOK, UiOK
    <2>2. /\ clip.board \in [Selections -> AnyText]
          /\ clip.tracked \subseteq Secrets
          /\ clip.deadline \in {"none", "ttl", "retry", "exhausted"}
          /\ clip.retries \in 0..MaxRetries
          /\ clip.explicit \in BOOLEAN
          /\ clip.notice \in {"", "retrying", "failed", "nocopy"}
          /\ clip.late \in [sel : Selections, text : AnyText] \cup {NoLate}
      BY <2>1 DEF ClipState
    <2>3. /\ ui.phase \in {"outside", "inside"}
          /\ {ui.seed, ui.confirmed, ui.creating} \cup ui.backedUp \subseteq Phrases \cup {Empty}
          /\ ui.backup \in BOOLEAN /\ ui.shown \in BOOLEAN /\ ui.staged \in BOOLEAN
      BY <2>1 DEF UiState, OptPhrase
    <2>4. (clip.deadline = "none") <=> (clip.tracked = {})
      BY <2>1 DEF ClipOK
    <2>5. CustodyTypeOK
      BY <2>1, <2>2, <2>3, <2>4 DEF CustodyTypeOK
    <2>6. OwnCopiesAreTracked
      BY <2>1 DEF Owned, OwnCopiesAreTracked
    <2>7. CreatedFromBackedUpPhrase
      BY <2>1 DEF UiOK, CreatedFromBackedUpPhrase
    <2> QED
      BY <2>5, <2>6, <2>7 DEF SecretsAreTracked
  <1> QED
    BY <1>1, CustodyInvariant, PTL

(* A text that contains words of a secret, as clipboard_contains_seed has  *)
(* it, is part of the secret.                                              *)
LEMMA ContainedIsPart ==
    ASSUME NEW text \in Seq(STRING), NEW s \in Seq(STRING), NEW sel \in Selections,
           Contains(text, s, sel)
    PROVE  PartOf(text, s) /\ (sel = "Primary" \/ text = s \/ Len(text) > 1)
  <1>1. Len(text) \in Nat /\ Len(s) \in Nat /\ text # <<>>
    BY DEF Contains, Empty
  <1>2. CASE text = s
    <2>1. SubSeq(s, 0 + 1, Len(s)) = s
      OBVIOUS
    <2>2. 0 \in 0..Len(s) /\ Len(s) \in 0..Len(s)
      BY <1>1
    <2> QED
      BY <1>2, <2>1, <2>2 DEF PartOf
  <1>3. CASE text # s
    <2>1. PICK i \in 1..(Len(s) - Len(text) + 1) : Window(s, i, Len(text)) = text
      BY <1>3 DEF Contains
    <2>2. Len(text) >= MinRun(sel) /\ Len(text) <= Len(s)
      BY <1>3 DEF Contains
    <2>3. Len(text) >= 1
      BY <1>1, <2>2 DEF MinRun, Selections
    <2>4. /\ i - 1 \in 0..Len(s) /\ i + Len(text) - 1 \in 0..Len(s)
          /\ (i - 1) + 1 = i
      BY <1>1, <2>1, <2>2, <2>3
    <2>5. SubSeq(s, (i - 1) + 1, i + Len(text) - 1) = text
      BY <2>1, <2>4 DEF Window
    <2>6. sel = "Primary" \/ Len(text) > 1
      BY <1>1, <2>2 DEF MinRun, Selections
    <2> QED
      BY <2>4, <2>5, <2>6 DEF PartOf
  <1> QED
    BY <1>2, <1>3

(* The wipe empties a selection only if it holds consecutive words of one  *)
(* tracked secret (clipboard_contains_seed, clear_seed_from_clipboard).    *)
THEOREM CustodyWipesOnly == CustodySpec => WipesOnlySecrets
  <1>1. CustodyInv /\ [CustodyNext]_custodyVars =>
          [\A sel \in Selections :
             clip'.board[sel] = Empty /\ clip.board[sel] # Empty =>
              \/ clip.late.sel = sel
              \/ \E s \in clip.tracked \cup clip'.tracked \cup Phrases :
                    /\ PartOf(clip.board[sel], s)
                    /\ sel = "Primary" \/ clip.board[sel] = s \/ Len(clip.board[sel]) > 1]_custodyVars
    <2> SUFFICES ASSUME CustodyInv, CustodyNext, NEW sel \in Selections,
                        clip'.board[sel] = Empty, clip.board[sel] # Empty,
                        clip.late.sel # sel
                 PROVE  \E s \in clip.tracked \cup clip'.tracked \cup Phrases :
                    /\ PartOf(clip.board[sel], s)
                    /\ sel = "Primary" \/ clip.board[sel] = s \/ Len(clip.board[sel]) > 1
      OBVIOUS
    <2>1. Matched(clip, clip') /\ ClipOK(clip) /\ ClipOK(clip')
      BY CustodyStep DEF Goal, CustodyInv, ClipPart
    <2>2. PICK s \in clip.tracked \cup clip'.tracked \cup Phrases : Contains(clip.board[sel], s, sel)
      BY <2>1 DEF Matched
    <2>3. clip.tracked \subseteq Secrets /\ clip'.tracked \subseteq Secrets
          /\ clip.board[sel] \in AnyText
      BY <2>1 DEF ClipOK, ClipState
    <2>4. s \in Seq(STRING) /\ clip.board[sel] \in Seq(STRING)
      BY <2>2, <2>3, CustodyAssumptions DEF Secrets, AnyText, Empty
    <2>5. PartOf(clip.board[sel], s)
          /\ (sel = "Primary" \/ clip.board[sel] = s \/ Len(clip.board[sel]) > 1)
      BY <2>2, <2>4, ContainedIsPart
    <2> QED
      BY <2>2, <2>5
  <1> QED
    BY <1>1, CustodyInvariant, PTL DEF CustodySpec, WipesOnlySecrets
=============================================================================
