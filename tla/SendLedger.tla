----------------------------- MODULE SendLedger -----------------------------
(***************************************************************************)
(* What the send Journal promises, without its event stream: a ledger of   *)
(* transfers that lets an ordinary transfer in only when nothing else is   *)
(* unresolved, lets a second one in only against a one-use grant bound to  *)
(* the unresolved ones, and never revises a settled record.                *)
(***************************************************************************)
EXTENDS JournalRules

VARIABLE journal

Offers == {Ev(t, 0) : t \in EvidenceTags \ (AttemptTags \cup {"Prepared"})}
            \cup {Ev(t, n) : t \in AttemptTags, n \in 1..MaxAttemptNo}

Init == journal = EmptyJournal

Prepare(r) ==
    /\ CanAppendPrepared(journal, r)
    /\ journal' = AppendPrepared(journal, r)

Deliver(r, e) ==
    /\ CanAppendDelivery(journal, r, e)
    /\ journal' = AppendDelivery(journal, r, e)

IssueGrant(g) ==
    /\ CanAppendGrant(journal, g)
    /\ journal' = AppendGrant(journal, g)

PrepareOverride(g) ==
    /\ CanAppendConsumption(journal, g)
    /\ journal' = AppendConsumption(journal, g)

Next ==
    \/ \E r \in Records : Prepare(r)
    \/ \E r \in Records, e \in Offers : Deliver(r, e)
    \/ \E n \in Nonces, r \in Records :
          IssueGrant([nonce |-> n, rec |-> r, blockers |-> BlockerRows(journal)])
    \/ \E g \in journal.grants : PrepareOverride(g)

Spec == Init /\ [][Next]_journal

-----------------------------------------------------------------------------
(* The Journal is a value of its type: validate_static's shape. *)
TypeOK == journal \in Journal

(* Of any two unresolved transfers, one was let in by a spent duplicate-   *)
(* risk grant whose reviewed blockers name the other: no transfer is ever  *)
(* signed beside one its user was not shown (OrdinarySigningBlocked and    *)
(* GrantDigestMismatch in validate_replay).                                *)
UnresolvedNeedsGrant == PairwiseGranted(journal)

(* One grant lets in one record: nonces identify grants, a spent nonce     *)
(* belongs to a grant whose record is in the Journal, and no two spent     *)
(* grants name the same record (DuplicateConsumption, DuplicateRecord).    *)
GrantsAreOneUse ==
    /\ \A g, h \in journal.grants : g.nonce = h.nonce => g = h
    /\ \A n \in journal.spent :
          \E g \in journal.grants : g.nonce = n /\ journal.ev[g.rec] # Absent
    /\ \A g, h \in journal.grants :
          /\ {g.nonce, h.nonce} \subseteq journal.spent
          /\ g.rec = h.rec
          => g = h

(* No append revises a settled record, forgets a record, lets an attempt   *)
(* number go back, or takes back a grant (no event may follow terminal     *)
(* evidence, validate_static).                                             *)
LedgerOnlyGrows ==
    [][/\ \A r \in Records :
            /\ journal.ev[r].tag \in TerminalTags => journal'.ev[r] = journal.ev[r]
            /\ journal.ev[r] # Absent => journal'.ev[r] # Absent
            /\ /\ journal.ev[r].tag \in AttemptTags
               /\ journal'.ev[r].tag \in AttemptTags
               => \/ journal'.ev[r].attempt = journal.ev[r].attempt
                  \/ /\ journal.ev[r].tag = "AttemptStarted"
                     /\ journal'.ev[r] = AttemptStarted(journal.ev[r].attempt + 1)
       /\ journal.grants \subseteq journal'.grants
       /\ journal.spent \subseteq journal'.spent]_journal
=============================================================================
