---------------------------- MODULE SeedCustody ----------------------------
(***************************************************************************)
(* Where secrets are in plain sight: the recovery phrase while a wallet is *)
(* created, replaced or revealed, and the system clipboard after a phrase  *)
(* or a storage record was copied.  The wallet remembers what it copied    *)
(* and wipes it from both selections at a deadline, on hiding, on locking  *)
(* and before it exits; every clipboard call may fail or be applied after  *)
(* its timeout.                                                            *)
(* cc-wallet-app: clipboard.rs, controller/seed_auth.rs, controller/mod.rs *)
(*                                                                         *)
(* A text is its sequence of words.                                        *)
(***************************************************************************)
EXTENDS Naturals, Sequences, FiniteSets

CONSTANTS
    Phrases,     \* valid recovery phrases
    RecordTexts,     \* contents of encrypted storage records
    Texts,       \* what else a user may put into a selection
    MaxRetries,  \* CLIPBOARD_MAX_RETRIES
    MaxCopies,   \* bound: copies of secrets and pasted phrases
    MaxClipFaults    \* bound: clipboard calls that fail

\* A phrase that is not valid and a record without text are not copied.
ASSUME CustodyAssumptions ==
    /\ Phrases \cup RecordTexts \cup Texts \subseteq Seq(STRING) \ {<<>>}
    /\ {MaxRetries, MaxCopies, MaxClipFaults} \subseteq Nat

VARIABLES
    clip,    \* the selections and what the wallet tracks about them
    ui,      \* the phrase the interface holds
    copies,  \* copies and pastes so far
    clipFaults,  \* failed clipboard calls so far
    own,     \* history: the wallet's own copies still in a selection
    lost     \* history: tracked secrets a failed record copy discarded

custodyVars == <<clip, ui, copies, clipFaults, own, lost>>

Selections == {"Clipboard", "Primary"}
Empty == <<>>
NoLate == [sel |-> "-", text |-> Empty]
Secrets == Phrases \cup RecordTexts
AnyText == Secrets \cup Texts \cup {Empty}

CustodyTypeOK ==
    /\ clip.board \in [Selections -> AnyText]
    /\ clip.tracked \subseteq Secrets
    /\ clip.deadline \in {"none", "ttl", "retry", "exhausted"}
    /\ clip.retries \in 0..MaxRetries
    /\ clip.explicit \in BOOLEAN
    /\ clip.notice \in {"", "retrying", "failed", "nocopy"}
    /\ clip.late \in [sel : Selections, text : AnyText] \cup {NoLate}
    /\ ui.phase \in {"outside", "inside"}
    /\ {ui.seed, ui.confirmed, ui.creating} \cup ui.backedUp \subseteq Phrases \cup {Empty}
    /\ ui.backup \in BOOLEAN /\ ui.shown \in BOOLEAN /\ ui.staged \in BOOLEAN
    /\ copies \in 0..MaxCopies /\ clipFaults \in 0..MaxClipFaults
    /\ own \in [Selections -> AnyText] /\ lost \subseteq Secrets
    \* a scheduled wipe and something to wipe come together
    /\ (clip.deadline = "none") <=> (clip.tracked = {})

-----------------------------------------------------------------------------
(* clipboard.rs.                                                           *)

\* The window of n words of s that starts at i.
Window(s, i, n) == SubSeq(s, i, i + n - 1)

\* A plausible bug: a single word of the phrase counts as the phrase.
MutOneWordIsEnough(sel) == 1
MinRun(sel) == IF sel = "Primary" THEN 1 ELSE 2

\* clipboard_contains_seed: the whole secret, or a run of its words; a
\* single word counts in the PRIMARY selection only.
Contains(text, secret, sel) ==
    /\ text # Empty
    /\ \/ text = secret
       \/ /\ Len(text) >= MinRun(sel) /\ Len(text) <= Len(secret)
          /\ \E i \in 1..(Len(secret) - Len(text) + 1) : Window(secret, i, Len(text)) = text

TrackedContains(text, tracked, sel) == \E s \in tracked : Contains(text, s, sel)

\* What one call may do to a selection: owner_set answers, fails, or times
\* out and is applied by the owner thread later.
SetOutcomes(c, sel, text) ==
    {[c |-> [c EXCEPT !.board[sel] = text], ok |-> TRUE, bad |-> 0],
     [c |-> c, ok |-> FALSE, bad |-> 1]}
    \cup (IF c.late # NoLate THEN {}
          ELSE {[c |-> [c EXCEPT !.late = [sel |-> sel, text |-> text]], ok |-> FALSE, bad |-> 1]})

\* One selection of clear_seed_from_clipboard: read, compare, overwrite.
WipeOne(r, sel) ==
    LET failed == {[c |-> r.c, ok |-> FALSE, bad |-> r.bad + 1]}
        matching == TrackedContains(r.c.board[sel], r.c.tracked, sel)
    IN  failed \cup
        (IF matching
         THEN {[c |-> w.c, ok |-> r.ok /\ w.ok, bad |-> r.bad + w.bad] :
                   w \in SetOutcomes(r.c, sel, Empty)}
         ELSE {r})

\* A plausible bug: when the retries run out the secret is forgotten.
MutRetriesRunOut(r) ==
    IF r.ok \/ r.c.retries = MaxRetries
    THEN [r.c EXCEPT !.tracked = {}, !.deadline = "none", !.retries = 0,
                     !.notice = "", !.explicit = FALSE]
    ELSE [r.c EXCEPT !.retries = @ + 1, !.deadline = "retry", !.notice = "retrying"]
\* A plausible bug: a failed wipe is not tried again.
MutGivesUp(r) ==
    IF r.ok
    THEN [r.c EXCEPT !.tracked = {}, !.deadline = "none", !.retries = 0,
                     !.notice = "", !.explicit = FALSE]
    ELSE IF r.c.retries < MaxRetries
         THEN [r.c EXCEPT !.retries = @ + 1, !.deadline = "retry", !.notice = "retrying"]
         ELSE [r.c EXCEPT !.deadline = "none", !.notice = "failed"]
\* clear_seed_from_clipboard: both selections; an unresolved wipe keeps the
\* tracker and is retried, first soon, then at the exhausted pace.
WipeSettled(r) ==
    IF r.ok
    THEN [r.c EXCEPT !.tracked = {}, !.deadline = "none", !.retries = 0,
                     !.notice = "", !.explicit = FALSE]
    ELSE IF r.c.retries < MaxRetries
         THEN [r.c EXCEPT !.retries = @ + 1, !.deadline = "retry", !.notice = "retrying"]
         ELSE [r.c EXCEPT !.deadline = "exhausted", !.notice = "failed"]

Cleared(c) ==
    IF c.tracked = {} THEN {[c |-> [c EXCEPT !.explicit = FALSE], bad |-> 0]}
    ELSE {[c |-> WipeSettled(r), bad |-> r.bad] :
              r \in UNION {WipeOne(q, "Primary") :
                               q \in WipeOne([c |-> c, ok |-> TRUE, bad |-> 0], "Clipboard")}}

\* extend_tracked_clipboard_secret.
Tracking(c, secret, soon) ==
    [c EXCEPT !.tracked = @ \cup {secret}, !.deadline = IF soon THEN "retry" ELSE "ttl",
              !.retries = IF c.tracked = {} THEN 0 ELSE @]

\* copy_seed_to_clipboard, after its clear: a failed copy keeps the tracker
\* of an earlier wipe that did not succeed.
CopiedSeed(c, s) ==
    {[c |-> IF w.ok THEN [Tracking(w.c, s, c.tracked # {}) EXCEPT !.explicit = TRUE,
                              !.notice = IF c.tracked # {} THEN "retrying" ELSE ""]
            ELSE [w.c EXCEPT !.notice = IF c.tracked # {} THEN "retrying" ELSE "nocopy"],
      bad |-> w.bad, ok |-> w.ok] : w \in SetOutcomes(c, "Clipboard", s)}

\* copy_secret_to_clipboard, after its clear: a failed copy forgets whatever
\* was tracked.
CopiedRecord(c, s) ==
    {[c |-> IF w.ok THEN [Tracking(w.c, s, c.tracked # {}) EXCEPT !.explicit = TRUE, !.notice = ""]
            ELSE [w.c EXCEPT !.tracked = {}, !.deadline = "none", !.notice = "nocopy"],
      bad |-> w.bad, ok |-> w.ok] : w \in SetOutcomes(c, "Clipboard", s)}

\* register_pasted_seed_for_wipe: a phrase that was pasted is wiped too, if
\* a selection holds it or could not be read.
Registered(c, s) ==
    LET holds == \E sel \in Selections : Contains(c.board[sel], s, sel) IN
    IF s \in c.tracked THEN {[c |-> c, bad |-> 0]}
    ELSE {[c |-> [Tracking(c, s, TRUE) EXCEPT !.notice = "retrying"], bad |-> 1],
          [c |-> IF holds THEN [Tracking(c, s, c.tracked # {}) EXCEPT
                                    !.notice = IF c.tracked # {} THEN "retrying" ELSE @]
                 ELSE c, bad |-> 0]}

-----------------------------------------------------------------------------
(* Steps.                                                                  *)

\* The clipboard part of a step; a copy of the wallet's own is remembered
\* until its selection is overwritten.
Clip(r) ==
    /\ clipFaults + r.bad <= MaxClipFaults
    /\ clip' = r.c /\ clipFaults' = clipFaults + r.bad
    /\ own' = [sel \in Selections |-> IF r.c.board[sel] = own[sel] THEN own[sel] ELSE Empty]
Untouched == UNCHANGED <<clip, clipFaults, own>>

\* clear_staged_onboarding_seed.
NothingStaged(u) ==
    [u EXCEPT !.seed = Empty, !.confirmed = Empty, !.staged = FALSE, !.shown = FALSE, !.backup = FALSE,
              !.backedUp = {}]

\* probe_phase and new_wallet_request.
Restage ==
    /\ ui.phase = "outside"
    /\ \E r \in Cleared(clip) : Clip(r)
    /\ ui' = [NothingStaged(ui) EXCEPT !.creating = Empty]
    /\ UNCHANGED <<copies, lost>>

\* generate_seed: a phrase that is shown and not yet anyone's.
GenerateSeed(s) ==
    /\ \E r \in Cleared(clip) : Clip(r)
    /\ ui' = [ui EXCEPT !.seed = s, !.backup = FALSE, !.shown = TRUE, !.staged = TRUE]
    /\ UNCHANGED <<copies, lost>>

\* onboard_import_seed: another phrase is not the one that was backed up.
OtherPhrase(u, s) == IF s # u.seed THEN [u EXCEPT !.backup = FALSE] ELSE u

\* The phrase typed or pasted while a wallet is created; Empty: not valid.
OnboardImport(s) ==
    /\ ui.phase = "outside" /\ copies < MaxCopies
    /\ ui' = [OtherPhrase(ui, s) EXCEPT !.seed = s]
    /\ \E r \in (IF clip.tracked \notin {{}, {s}} THEN Cleared(clip) ELSE {[c |-> clip, bad |-> 0]}) :
          \E q \in (IF s = Empty THEN {[c |-> r.c, bad |-> 0]} ELSE Registered(r.c, s)) :
              Clip([c |-> q.c, bad |-> r.bad + q.bad])
    /\ copies' = copies + 1 /\ UNCHANGED lost

ConfirmBackup(v) ==
    /\ ui.phase = "outside"
    /\ ui' = [ui EXCEPT !.backup = v, !.backedUp = IF v THEN @ \cup {ui.seed} ELSE @]
    /\ Untouched /\ UNCHANGED <<copies, lost>>

\* create_wallet's last conditions.
MayCreate(u) == u.seed # Empty /\ u.backup

\* create_wallet captures the profile; the phrase may be edited while the
\* keys are derived, and enter_app installs the captured one.
CreateFromPhrase ==
    /\ ui.phase = "outside" /\ ui.creating = Empty /\ MayCreate(ui)
    /\ ui' = [ui EXCEPT !.confirmed = ui.seed, !.staged = FALSE, !.creating = ui.seed]
    /\ Untouched /\ UNCHANGED <<copies, lost>>

\* enter_app, for the new wallet or for one that already exists.
EnterApp(s) ==
    /\ ui.phase = "outside"
    /\ ui.creating # Empty => s = ui.creating
    /\ \E r \in Cleared(clip) : Clip(r)
    /\ ui' = [ui EXCEPT !.phase = "inside", !.seed = s, !.confirmed = s, !.creating = Empty,
                        !.staged = FALSE, !.shown = FALSE, !.backup = FALSE, !.backedUp = {}]
    /\ UNCHANGED <<copies, lost>>

\* finish_lock.
LockWallet ==
    /\ ui.phase = "inside"
    /\ \E r \in Cleared(clip) : Clip(r)
    /\ ui' = [NothingStaged(ui) EXCEPT !.phase = "outside"]
    /\ UNCHANGED <<copies, lost>>

\* show_seed_for_one_minute (Session asks the password), hide_seed.
Reveal ==
    /\ ui.phase = "inside" /\ ui' = [ui EXCEPT !.shown = TRUE]
    /\ Untouched /\ UNCHANGED <<copies, lost>>
HideSeed ==
    /\ ui.phase = "inside" /\ ui.shown
    /\ \E r \in Cleared(clip) : Clip(r)
    /\ ui' = [ui EXCEPT !.shown = FALSE] /\ UNCHANGED <<copies, lost>>

\* activate_seed, for a phrase that was imported or for the generated one.
UseSeed(s) ==
    /\ ui.phase = "inside" /\ copies < MaxCopies
    /\ \E r \in (IF s = ui.seed THEN {[c |-> clip, bad |-> 0]} ELSE Registered(clip, s)) :
          \E q \in Cleared(r.c) : Clip([c |-> q.c, bad |-> r.bad + q.bad])
    /\ ui' = [ui EXCEPT !.seed = s, !.confirmed = s, !.staged = FALSE, !.shown = FALSE]
    /\ copies' = copies + 1 /\ UNCHANGED lost

DiscardSeed ==
    /\ ui.phase = "inside" /\ ui.staged
    /\ \E r \in Cleared(clip) : Clip(r)
    /\ ui' = [ui EXCEPT !.seed = ui.confirmed, !.staged = FALSE, !.shown = FALSE]
    /\ UNCHANGED <<copies, lost>>

\* The copy itself, with what it makes of the history variables.
Copy(s, Copied(_, _), forgets) ==
    /\ copies < MaxCopies /\ copies' = copies + 1
    /\ \E r \in Cleared(clip) : \E q \in Copied(r.c, s) :
         /\ clipFaults + r.bad + q.bad <= MaxClipFaults /\ clipFaults' = clipFaults + r.bad + q.bad
         /\ clip' = q.c
         /\ own' = [sel \in Selections |->
                       IF q.ok /\ sel = "Clipboard" THEN s
                       ELSE IF q.c.board[sel] = own[sel] THEN own[sel] ELSE Empty]
         /\ lost' = lost \cup (IF forgets /\ ~q.ok THEN r.c.tracked ELSE {})
    /\ UNCHANGED ui

CopySeed == ui.seed # Empty /\ Copy(ui.seed, CopiedSeed, FALSE)
CopyRecord(s) == ui.phase = "inside" /\ Copy(s, CopiedRecord, TRUE)

\* copy_text: public text, not tracked.
CopyText(t) ==
    /\ \E w \in SetOutcomes(clip, "Clipboard", t) :
          Clip([c |-> IF w.ok THEN [w.c EXCEPT !.explicit = FALSE] ELSE w.c, bad |-> w.bad])
    /\ UNCHANGED <<ui, copies, lost>>

\* tick: the wipe's deadline.
DeadlineExpires ==
    /\ clip.deadline # "none"
    /\ \E r \in Cleared(clip) : Clip(r)
    /\ UNCHANGED <<ui, copies, lost>>

\* shutdown: refused while something tracked may still be there; a new
\* process starts with whatever the selections hold.
CloseWindow ==
    /\ \E r \in Cleared(clip) :
         /\ Clip(r)
         /\ ui' = IF r.c.tracked # {} THEN ui
                  ELSE [NothingStaged(ui) EXCEPT !.phase = "outside", !.creating = Empty]
    /\ UNCHANGED <<copies, lost>>

\* The user copies or selects something; a call that had timed out lands.
UserCopies(sel, t) ==
    /\ clip.board[sel] = Empty
    /\ Clip([c |-> [clip EXCEPT !.board[sel] = t], bad |-> 0])
    /\ UNCHANGED <<ui, copies, lost>>
LateCallLands ==
    /\ clip.late # NoLate
    /\ Clip([c |-> [clip EXCEPT !.board[clip.late.sel] = clip.late.text, !.late = NoLate], bad |-> 0])
    /\ UNCHANGED <<ui, copies, lost>>

CustodyInit ==
    /\ clip = [board |-> [sel \in Selections |-> Empty], tracked |-> {}, deadline |-> "none",
               retries |-> 0, explicit |-> FALSE, notice |-> "", late |-> NoLate]
    /\ ui = [phase |-> "outside", seed |-> Empty, confirmed |-> Empty, creating |-> Empty,
             backup |-> FALSE, backedUp |-> {}, shown |-> FALSE, staged |-> FALSE]
    /\ copies = 0 /\ clipFaults = 0
    /\ own = [sel \in Selections |-> Empty] /\ lost = {}

CustodyNext ==
    \/ Restage \/ CreateFromPhrase \/ LockWallet \/ Reveal \/ HideSeed \/ DiscardSeed \/ CopySeed
    \/ DeadlineExpires \/ CloseWindow \/ LateCallLands
    \/ \E s \in Phrases : GenerateSeed(s) \/ EnterApp(s) \/ UseSeed(s)
    \/ \E s \in Phrases \cup {Empty} : OnboardImport(s)
    \/ \E v \in BOOLEAN : ConfirmBackup(v)
    \/ \E s \in RecordTexts : CopyRecord(s)
    \/ \E t \in Texts : CopyText(t)
    \/ \E sel \in Selections, t \in Texts : UserCopies(sel, t)

CustodySpec == CustodyInit /\ [][CustodyNext]_custodyVars
\* The tick runs as long as the window lives.
CustodyFairness == WF_custodyVars(DeadlineExpires)
CustodyFairSpec == CustodySpec /\ CustodyFairness

-----------------------------------------------------------------------------
(* Properties.                                                             *)

\* A secret the wallet copied stays tracked, with a wipe scheduled, for as
\* long as the copy is in a selection, through failed wipes, later copies,
\* locks and refused exits; the one way out is a record copy that fails
\* after a wipe that failed (copy_secret_to_clipboard).
OwnCopiesAreTracked ==
    \A sel \in Selections : own[sel] # Empty => own[sel] \in clip.tracked \cup lost

\* "a failed second copy never discards the prior wipe tracker"
\* (controller/tests.rs:1864), for records as well as for phrases.
TrackerNeverDiscarded == lost = {}

\* A wallet is created only from the very phrase whose backup the user
\* confirmed, whatever was generated, pasted or edited in between.
CreatedFromBackedUpPhrase == ui.creating # Empty => ui.creating \in ui.backedUp

\* Secrets in custody: what the wallet copied is tracked, what it creates a
\* wallet from is backed up.  copy_seed_to_clipboard, create_wallet
SecretsAreTracked == CustodyTypeOK /\ OwnCopiesAreTracked /\ CreatedFromBackedUpPhrase

\* The wipe never empties a selection that holds anything but consecutive
\* words of one tracked secret: two of them in the clipboard, one in PRIMARY.
PartOf(text, secret) == \E i, j \in 0..Len(secret) : SubSeq(secret, i + 1, j) = text
WipesOnlySecrets ==
    [][\A sel \in Selections :
          clip'.board[sel] = Empty /\ clip.board[sel] # Empty =>
              \/ clip.late.sel = sel
              \/ \E s \in clip.tracked \cup clip'.tracked \cup Phrases :
                    /\ PartOf(clip.board[sel], s)
                    /\ sel = "Primary" \/ clip.board[sel] = s \/ Len(clip.board[sel]) > 1]_custodyVars

\* Whatever is tracked is wiped in the end, once the clipboard answers again
\* and nothing more is copied.
WipeCompletes == (copies = MaxCopies /\ clip.tracked # {}) ~> clip.tracked = {}
=============================================================================
