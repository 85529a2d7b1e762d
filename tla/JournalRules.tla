---------------------------- MODULE JournalRules ----------------------------
(***************************************************************************)
(* What one encrypted Journal says and which appends it accepts, as a      *)
(* value: the latest evidence of every record, the duplicate-risk grants   *)
(* and the nonces of the grants already spent.                             *)
(*                                                                         *)
(* These are the rules validate_replay enforces on the whole event stream  *)
(* (cc-wallet-domain/src/journal.rs), written on the state the stream      *)
(* replays to.  JournalEnvelope models the stream itself and accepts       *)
(* exactly what these rules accept (proved in SendLedgerProofs); the       *)
(* controller module uses the rules.                                       *)
(***************************************************************************)
EXTENDS DeliveryEvidence

CONSTANTS Records,      \* record ids: one per transfer ticket
          Nonces        \* one-use nonces of duplicate-risk grants

Absent == [tag |-> "Absent", attempt |-> 0]

BlockerRow == [rec : Records, tag : BlockingTags]

Grant == [nonce : Nonces, rec : Records, blockers : SUBSET BlockerRow]

Journal == [ev : [Records -> Evidence \cup {Absent}],
            grants : SUBSET Grant,
            spent : SUBSET Nonces]

EmptyJournal == [ev |-> [r \in Records |-> Absent],
                 grants |-> {}, spent |-> {}]

\* blocking_records_for_scope: one Journal holds one signing scope.
Blocking(j) == {r \in Records : IsBlocking(j.ev[r].tag)}

\* The rows under blocker_set_digest: which records block, and how.
BlockerRows(j) == {[rec |-> r, tag |-> j.ev[r].tag] : r \in Blocking(j)}

\* A plausible bug: a new ordinary record is accepted beside unresolved ones.
MutPrepareBesideBlockers(j, r) == j.ev[r] = Absent

\* append_prepared: OrdinarySigningBlocked unless every record is settled.
CanAppendPrepared(j, r) ==
    /\ j.ev[r] = Absent
    /\ Blocking(j) = {}

AppendPrepared(j, r) == [j EXCEPT !.ev[r] = Prepared]

\* append_delivery: the record exists and the evidence is a legal successor.
CanAppendDelivery(j, r, e) ==
    /\ j.ev[r] # Absent
    /\ e \in Evidence
    /\ ValidDeliveryTransition(j.ev[r], e)

AppendDelivery(j, r, e) == [j EXCEPT !.ev[r] = e]

\* A plausible bug: a nonce may name two grants.
MutReusedNonce(j, g) ==
    /\ g.blockers = BlockerRows(j)
    /\ g.blockers # {}

\* append_risk_grant: bound to the blockers of this moment, nonce never used.
CanAppendGrant(j, g) ==
    /\ g.blockers = BlockerRows(j)
    /\ g.blockers # {}
    /\ \A h \in j.grants : h.nonce # g.nonce

AppendGrant(j, g) == [j EXCEPT !.grants = @ \cup {g}]

\* append_consumption_and_prepared: the grant is unspent, its record is new
\* and the blockers are still exactly the ones it was granted against.
CanAppendConsumption(j, g) ==
    /\ g \in j.grants
    /\ g.nonce \notin j.spent
    /\ j.ev[g.rec] = Absent
    /\ g.blockers = BlockerRows(j)

AppendConsumption(j, g) ==
    [j EXCEPT !.ev[g.rec] = Prepared, !.spent = @ \cup {g.nonce}]

\* Record r was let in by a spent grant whose blockers name record s.
GrantedBeside(j, r, s) ==
    \E g \in j.grants :
        /\ g.nonce \in j.spent
        /\ g.rec = r
        /\ \E b \in g.blockers : b.rec = s

\* Of any two unresolved records one was granted beside the other.
PairwiseGranted(j) ==
    \A r, s \in Blocking(j) :
        r # s => GrantedBeside(j, r, s) \/ GrantedBeside(j, s, r)
=============================================================================
