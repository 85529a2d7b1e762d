-------------------------- MODULE JournalEnvelope --------------------------
(***************************************************************************)
(* The send Journal as it is stored (cc-wallet-domain/src/envelope.rs and  *)
(* journal.rs): records that each own their delivery events, a list of     *)
(* risk events beside them, and one global sequence number over both.      *)
(* Every append clones the envelope, adds events under next_sequence, and  *)
(* keeps the clone only if validate_replay accepts the whole of it.        *)
(*                                                                         *)
(* Replayed maps an envelope to the ledger it stands for; the envelope     *)
(* implements SendLedger under that mapping.                               *)
(***************************************************************************)
EXTENDS JournalRules, SequencesExt

CONSTANT MaxEvents     \* bound: events one envelope may hold

VARIABLE envelope

\* DeliveryEvent inside its SendRecord, and RiskEvent.
Event == [seq : Nat, ev : Evidence]
SendRecord == [id : Records, events : Seq(Event)]
RiskEvent == [seq : Nat, action : [kind : {"Granted", "Consumed"}, grant : Grant]]
Granted(n, r, b) == [kind |-> "Granted", grant |-> [nonce |-> n, rec |-> r, blockers |-> b]]
\* A consumption names a nonce and a record; it has no blockers of its own.
Consumed(n, r) == [Granted(n, r, {}) EXCEPT !.kind = "Consumed"]

EmptyEnvelope == [records |-> <<>>, risk_events |-> <<>>]

-----------------------------------------------------------------------------
(* validate_replay.                                                        *)

\* SendRecord::validate_static: one first Prepared, legal transitions, and
\* increasing sequence numbers.
ValidStatic(rec) ==
    LET n == Len(rec.events) IN
    /\ n > 0 /\ rec.events[1].ev = Prepared
    /\ \A i \in 2..n :
        /\ rec.events[i].ev \in Evidence
        /\ ValidDeliveryTransition(rec.events[i - 1].ev, rec.events[i].ev)
        /\ rec.events[i - 1].seq < rec.events[i].seq

\* Every event of the envelope, by its place in the two lists.
Places(env) ==
    {<<"record", p[1], p[2]>> : p \in UNION {{i} \X DOMAIN env.records[i].events :
                                               i \in DOMAIN env.records}}
    \cup {<<"risk", i, 0>> : i \in DOMAIN env.risk_events}
SeqAt(env, p) ==
    IF p[1] = "risk" THEN env.risk_events[p[2]].seq ELSE env.records[p[2]].events[p[3]].seq

EventCount(env) == Cardinality(Places(env))
SeqsUsed(env) == {SeqAt(env, p) : p \in Places(env)}

\* The sorted stream is numbered 1..n (SequenceZero, SequenceGap).
Contiguous(env) == SeqsUsed(env) = 1..EventCount(env)

\* The delivery events of record r.
EventsOf(env, r) ==
    UNION {ToSet(s.events) : s \in {t \in ToSet(env.records) : t.id = r}}

\* The evidence of the last of some events.
LatestOf(events) ==
    IF events = {} THEN Absent
    ELSE (CHOOSE e \in events : \A d \in events : d.seq <= e.seq).ev

\* What the replay loop holds after the item numbered k: each record's latest
\* evidence, the grants and the consumed nonces.
ReplayedTo(env, k) ==
    LET risk == {e \in ToSet(env.risk_events) : e.seq <= k}
    IN  [ev |-> [r \in Records |-> LatestOf({e \in EventsOf(env, r) : e.seq <= k})],
         grants |-> {e.action.grant : e \in {f \in risk : f.action.kind = "Granted"}},
         spent |-> {e.action.grant.nonce : e \in {f \in risk : f.action.kind = "Consumed"}}]

Replayed(env) == ReplayedTo(env, EventCount(env))

\* A plausible bug: the blockers a grant names are not compared.
MutAnyBlockers(env, e) ==
    \A h \in ReplayedTo(env, e.seq - 1).grants : h.nonce # e.action.grant.nonce

\* RiskAction::Granted, with validate_grant_old_state.
GrantFits(env, e) ==
    LET before == ReplayedTo(env, e.seq - 1) IN
    /\ e.action.grant.blockers = BlockerRows(before)
    /\ e.action.grant.blockers # {}
    /\ \A h \in before.grants : h.nonce # e.action.grant.nonce

\* RiskAction::Consumed: an earlier grant authorizes it, it is unspent, and
\* the record it names follows at once (ConsumptionNotAdjacent), against the
\* blockers of the grant (validate_grant_state).
ConsumptionFits(env, e) ==
    LET before == ReplayedTo(env, e.seq - 1) IN
    /\ \E g \in before.grants :
          /\ g.nonce = e.action.grant.nonce /\ g.rec = e.action.grant.rec
          /\ g.blockers = BlockerRows(before)
    /\ e.action.grant.nonce \notin before.spent
    /\ \E r \in ToSet(env.records) :
          r.id = e.action.grant.rec /\ r.events[1].seq = e.seq + 1

\* A Prepared event without a consumption just before it:
\* OrdinarySigningBlocked while anything is unresolved.
PreparedFits(env, r) ==
    \/ \E e \in ToSet(env.risk_events) :
          e.action.kind = "Consumed" /\ e.seq + 1 = r.events[1].seq
    \/ Blocking(ReplayedTo(env, r.events[1].seq - 1)) = {}

\* validate_replay accepts the envelope.
ValidateReplay(env) ==
    /\ \A r \in ToSet(env.records) : ValidStatic(r)
    /\ \A i, k \in DOMAIN env.records : env.records[i].id = env.records[k].id => i = k
    /\ Contiguous(env)
    /\ \A e \in ToSet(env.risk_events) :
          IF e.action.kind = "Granted" THEN GrantFits(env, e) ELSE ConsumptionFits(env, e)
    /\ \A r \in ToSet(env.records) : PreparedFits(env, r)

-----------------------------------------------------------------------------
(* The candidates the append operations build.                             *)

\* next_sequence: one past the largest number of either list.
NextSequence(env) == Max({0} \cup SeqsUsed(env)) + 1

PreparedRecord(r, n) == [id |-> r, events |-> <<[seq |-> n, ev |-> Prepared]>>]

WithPrepared(env, r) ==
    [env EXCEPT !.records = Append(@, PreparedRecord(r, NextSequence(env)))]

WithDelivery(env, k, e) ==
    [env EXCEPT !.records[k].events = Append(@, [seq |-> NextSequence(env), ev |-> e])]

WithGrant(env, n, r, b) ==
    [env EXCEPT !.risk_events =
        Append(@, [seq |-> NextSequence(env), action |-> Granted(n, r, b)])]

\* A plausible bug: the two numbers are handed out in the other order.
MutNotAdjacent(env, n, r) ==
    [records |-> Append(env.records, PreparedRecord(r, NextSequence(env))),
     risk_events |-> Append(env.risk_events,
                            [seq |-> NextSequence(env) + 1, action |-> Consumed(n, r)])]
WithConsumption(env, n, r) ==
    [records |-> Append(env.records, PreparedRecord(r, NextSequence(env) + 1)),
     risk_events |-> Append(env.risk_events,
                            [seq |-> NextSequence(env), action |-> Consumed(n, r)])]

\* `*self = candidate`, reached only when candidate.validate() held.
Keep(candidate) ==
    /\ EventCount(candidate) <= MaxEvents
    /\ ValidateReplay(candidate)
    /\ envelope' = candidate

-----------------------------------------------------------------------------
StreamInit == envelope = EmptyEnvelope

\* What a caller may hand to append_delivery: evidence.validate() holds.
OfferedEvidence == Evidence

AppendPreparedOp(r) == Keep(WithPrepared(envelope, r))

AppendDeliveryOp(k, e) == Keep(WithDelivery(envelope, k, e))

\* The grant's digests may name any set of blockers.
AppendRiskGrant(n, r, b) == Keep(WithGrant(envelope, n, r, b))

AppendConsumptionAndPrepared(n, r) == Keep(WithConsumption(envelope, n, r))

\* Blocker sets a caller may have seen: today's, or one with a row missing.
SeenBlockers ==
    LET rows == BlockerRows(Replayed(envelope))
    IN  {rows, {}} \cup {rows \ {b} : b \in rows}

StreamNext ==
    \/ \E r \in Records : AppendPreparedOp(r)
    \/ \E k \in DOMAIN envelope.records, e \in OfferedEvidence : AppendDeliveryOp(k, e)
    \/ \E n \in Nonces, r \in Records, b \in SeenBlockers : AppendRiskGrant(n, r, b)
    \/ \E n \in Nonces, r \in Records : AppendConsumptionAndPrepared(n, r)

StreamSpec == StreamInit /\ [][StreamNext]_envelope

-----------------------------------------------------------------------------
\* The ledger an envelope stands for.
Ledger == INSTANCE SendLedger WITH journal <- Replayed(envelope)

(* Storing the Journal as two lists under one sequence, and judging every  *)
(* append by replaying the whole stream, implements the ledger: no append  *)
(* says anything the ledger's rules would not let it say.                  *)
ImplementsLedger == Ledger!Spec

(* And refuses nothing the rules allow: validate_replay of the candidate   *)
(* accepts exactly the appends whose guard holds in the replayed ledger,   *)
(* for every record, evidence, grant and consumption a caller may offer.   *)
AcceptsExactly ==
    LET j == Replayed(envelope)
        ids == {envelope.records[k].id : k \in DOMAIN envelope.records}
    IN
    /\ \A r \in Records : ValidateReplay(WithPrepared(envelope, r)) = CanAppendPrepared(j, r)
    /\ \A r \in ids, e \in OfferedEvidence :
          LET k == CHOOSE i \in DOMAIN envelope.records : envelope.records[i].id = r IN
          ValidateReplay(WithDelivery(envelope, k, e)) = CanAppendDelivery(j, r, e)
    /\ \A n \in Nonces, r \in Records, b \in SeenBlockers :
          ValidateReplay(WithGrant(envelope, n, r, b))
              = CanAppendGrant(j, [nonce |-> n, rec |-> r, blockers |-> b])
    /\ \A n \in Nonces, r \in Records :
          ValidateReplay(WithConsumption(envelope, n, r))
              = \E g \in j.grants : g.nonce = n /\ g.rec = r /\ CanAppendConsumption(j, g)
=============================================================================
