-------------------------- MODULE SendLedgerProofs --------------------------
(***************************************************************************)
(* The ledger's promises, for every set of records and nonces and every    *)
(* bound on attempts; and that the stored event stream (JournalEnvelope)   *)
(* implements the ledger, and accepts exactly what its rules accept.       *)
(***************************************************************************)
EXTENDS SendLedger, JournalRulesProofs, JournalEnvelope, FiniteSetTheorems

(* Every append keeps the Journal well formed.                             *)
THEOREM LedgerTypeCorrect == Spec => []TypeOK
  <1>1. Init => TypeOK
    BY DEF Init, TypeOK, EmptyJournal, Journal
  <1>2. TypeOK /\ [Next]_journal => TypeOK'
    <2> SUFFICES ASSUME TypeOK, [Next]_journal PROVE TypeOK'
      OBVIOUS
    <2>1. ASSUME NEW r \in Records, Prepare(r) PROVE TypeOK'
      BY <2>1, AppendPreparedFacts DEF Prepare, TypeOK
    <2>2. ASSUME NEW r \in Records, NEW e \in Offers, Deliver(r, e) PROVE TypeOK'
      BY <2>2, AppendDeliveryFacts DEF Deliver, CanAppendDelivery, TypeOK
    <2>3. ASSUME NEW n \in Nonces, NEW r \in Records,
                 IssueGrant([nonce |-> n, rec |-> r, blockers |-> BlockerRows(journal)])
          PROVE  TypeOK'
      <3>1. [nonce |-> n, rec |-> r, blockers |-> BlockerRows(journal)] \in Grant
        BY BlockerRowsType DEF Grant, TypeOK
      <3> QED
        BY <2>3, <3>1, AppendGrantFacts DEF IssueGrant, TypeOK
    <2>4. ASSUME NEW g \in journal.grants, PrepareOverride(g) PROVE TypeOK'
      <3>1. g \in Grant
        BY DEF TypeOK, Journal
      <3> QED
        BY <2>4, <3>1, AppendConsumptionFacts DEF PrepareOverride, TypeOK
    <2>5. CASE UNCHANGED journal
      BY <2>5 DEF TypeOK
    <2> QED
      BY <2>1, <2>2, <2>3, <2>4, <2>5 DEF Next
  <1> QED
    BY <1>1, <1>2, PTL DEF Spec

(* No transfer is ever let in beside an unresolved one its grant does not  *)
(* name: validate_replay's OrdinarySigningBlocked and GrantDigestMismatch. *)
THEOREM LedgerGrantsUnresolved == Spec => []UnresolvedNeedsGrant
  <1>1. Init => UnresolvedNeedsGrant
    BY DEF Init, UnresolvedNeedsGrant, PairwiseGranted, EmptyJournal, Blocking,
           IsBlocking, Absent, BlockingTags
  <1>2. TypeOK /\ UnresolvedNeedsGrant /\ [Next]_journal => UnresolvedNeedsGrant'
    <2> SUFFICES ASSUME TypeOK, UnresolvedNeedsGrant, [Next]_journal
                 PROVE  UnresolvedNeedsGrant'
      OBVIOUS
    <2> USE DEF TypeOK, UnresolvedNeedsGrant
    <2>1. ASSUME NEW r \in Records, Prepare(r) PROVE UnresolvedNeedsGrant'
      BY <2>1, PreparedKeepsGranted DEF Prepare
    <2>2. ASSUME NEW r \in Records, NEW e \in Offers, Deliver(r, e)
          PROVE  UnresolvedNeedsGrant'
      BY <2>2, DeliveryKeepsGranted DEF Deliver
    <2>3. ASSUME NEW n \in Nonces, NEW r \in Records,
                 IssueGrant([nonce |-> n, rec |-> r, blockers |-> BlockerRows(journal)])
          PROVE  UnresolvedNeedsGrant'
      <3>1. [nonce |-> n, rec |-> r, blockers |-> BlockerRows(journal)] \in Grant
        BY BlockerRowsType DEF Grant
      <3> QED
        BY <2>3, <3>1, GrantKeepsGranted DEF IssueGrant
    <2>4. ASSUME NEW g \in journal.grants, PrepareOverride(g)
          PROVE  UnresolvedNeedsGrant'
      <3>1. g \in Grant
        BY DEF Journal
      <3> QED
        BY <2>4, <3>1, ConsumptionKeepsGranted DEF PrepareOverride
    <2>5. CASE UNCHANGED journal
      BY <2>5
    <2> QED
      BY <2>1, <2>2, <2>3, <2>4, <2>5 DEF Next
  <1> QED
    BY <1>1, <1>2, LedgerTypeCorrect, PTL DEF Spec

(* One grant lets in one record: DuplicateConsumption and DuplicateRecord  *)
(* are refused, and nonces are never reused.                               *)
THEOREM LedgerGrantsAreOneUse == Spec => []GrantsAreOneUse
  <1>1. Init => GrantsAreOneUse
    BY DEF Init, GrantsAreOneUse, EmptyJournal
  <1>2. TypeOK /\ GrantsAreOneUse /\ [Next]_journal => GrantsAreOneUse'
    <2> SUFFICES ASSUME TypeOK, GrantsAreOneUse, [Next]_journal
                 PROVE  GrantsAreOneUse'
      OBVIOUS
    <2> USE DEF TypeOK
    <2>0. Prepared # Absent /\ Absent \notin Evidence
      BY DEF Prepared, Absent, Ev, Evidence, EvidenceTags, BlockingTags, TerminalTags
    <2>g. \A g \in journal.grants : g.rec \in Records
      BY DEF Journal, Grant
    <2>1. ASSUME NEW r \in Records, Prepare(r) PROVE GrantsAreOneUse'
      <3>1. /\ journal'.grants = journal.grants /\ journal'.spent = journal.spent
            /\ \A s \in Records : journal.ev[s] # Absent => journal'.ev[s] # Absent
        BY <2>0, <2>1, AppendPreparedFacts DEF Prepare
      <3> QED
        BY <2>g, <3>1 DEF GrantsAreOneUse
    <2>2. ASSUME NEW r \in Records, NEW e \in Offers, Deliver(r, e)
          PROVE  GrantsAreOneUse'
      <3>1. /\ journal'.grants = journal.grants /\ journal'.spent = journal.spent
            /\ \A s \in Records : journal.ev[s] # Absent => journal'.ev[s] # Absent
        BY <2>0, <2>2, AppendDeliveryFacts DEF Deliver, CanAppendDelivery
      <3> QED
        BY <2>g, <3>1 DEF GrantsAreOneUse
    <2>3. ASSUME NEW n \in Nonces, NEW r \in Records,
                 IssueGrant([nonce |-> n, rec |-> r, blockers |-> BlockerRows(journal)])
          PROVE  GrantsAreOneUse'
      <3> DEFINE g == [nonce |-> n, rec |-> r, blockers |-> BlockerRows(journal)]
      <3>1. g \in Grant
        BY BlockerRowsType DEF Grant
      <3>2. /\ journal'.grants = journal.grants \cup {g}
            /\ journal'.spent = journal.spent /\ journal'.ev = journal.ev
            /\ \A h \in journal.grants : h.nonce # g.nonce
        BY <2>3, <3>1, AppendGrantFacts DEF IssueGrant, CanAppendGrant
      <3>3. g.nonce \notin journal.spent
        BY <3>2 DEF GrantsAreOneUse
      <3> HIDE DEF g
      <3> QED
        BY <3>2, <3>3 DEF GrantsAreOneUse
    <2>4. ASSUME NEW g \in journal.grants, PrepareOverride(g)
          PROVE  GrantsAreOneUse'
      <3>1. g \in Grant
        BY DEF Journal
      <3>2. /\ journal'.grants = journal.grants
            /\ journal'.spent = journal.spent \cup {g.nonce}
            /\ journal'.ev[g.rec] # Absent
            /\ \A s \in Records : journal.ev[s] # Absent => journal'.ev[s] # Absent
        BY <2>0, <2>4, <3>1, AppendConsumptionFacts
           DEF PrepareOverride, CanAppendConsumption
      <3>3. \A h \in journal.grants :
               h.nonce \in journal.spent => journal.ev[h.rec] # Absent
        BY DEF GrantsAreOneUse
      <3>4. journal.ev[g.rec] = Absent
        BY <2>4 DEF PrepareOverride, CanAppendConsumption
      <3> QED
        BY <2>g, <3>2, <3>3, <3>4 DEF GrantsAreOneUse
    <2>5. CASE UNCHANGED journal
      BY <2>5 DEF GrantsAreOneUse
    <2> QED
      BY <2>1, <2>2, <2>3, <2>4, <2>5 DEF Next
  <1> QED
    BY <1>1, <1>2, LedgerTypeCorrect, PTL DEF Spec

(* No event follows terminal evidence, no record is forgotten, no attempt  *)
(* number goes back and no grant is taken back.                            *)
THEOREM LedgerIsMonotone == Spec => LedgerOnlyGrows
  <1> DEFINE Grows ==
        /\ \A r \in Records :
             /\ journal.ev[r].tag \in TerminalTags => journal'.ev[r] = journal.ev[r]
             /\ journal.ev[r] # Absent => journal'.ev[r] # Absent
             /\ /\ journal.ev[r].tag \in AttemptTags
                /\ journal'.ev[r].tag \in AttemptTags
                => \/ journal'.ev[r].attempt = journal.ev[r].attempt
                   \/ /\ journal.ev[r].tag = "AttemptStarted"
                      /\ journal'.ev[r] = AttemptStarted(journal.ev[r].attempt + 1)
        /\ journal.grants \subseteq journal'.grants
        /\ journal.spent \subseteq journal'.spent
  <1>1. TypeOK /\ [Next]_journal => [Grows]_journal
    <2> SUFFICES ASSUME TypeOK, Next PROVE Grows
      OBVIOUS
    <2> USE DEF TypeOK
    <2>0. Prepared # Absent /\ Absent \notin Evidence
      BY DEF Prepared, Absent, Ev, Evidence, EvidenceTags, BlockingTags, TerminalTags
    <2>a. Absent.tag \notin TerminalTags \cup AttemptTags
      BY DEF Absent, TerminalTags, AttemptTags
    <2>1. ASSUME NEW r \in Records, Prepare(r) PROVE Grows
      BY <2>0, <2>a, <2>1, AppendPreparedFacts DEF Prepare, CanAppendPrepared
    <2>2. ASSUME NEW r \in Records, NEW e \in Offers, Deliver(r, e) PROVE Grows
      <3> DEFINE p == journal.ev[r]
      <3>1. /\ e \in Evidence /\ journal'.ev[r] = e
            /\ \A s \in Records \ {r} : journal'.ev[s] = journal.ev[s]
            /\ journal'.grants = journal.grants /\ journal'.spent = journal.spent
        BY <2>2, AppendDeliveryFacts DEF Deliver, CanAppendDelivery
      <3>2. ValidDeliveryTransition(p, e)
        BY <2>2 DEF Deliver, CanAppendDelivery
      <3>3. p.tag \notin TerminalTags
        BY <3>2, TransitionsLeaveBlocking
           DEF IsBlocking, BlockingTags, TerminalTags
      <3>4. p.tag \in AttemptTags /\ e.tag \in AttemptTags
            => \/ e.attempt = p.attempt
               \/ p.tag = "AttemptStarted" /\ e = AttemptStarted(p.attempt + 1)
        BY <3>1, <3>2 DEF ValidDeliveryTransition, AttemptTags, EndpointTags,
           VerifiedTags, AttemptStarted, Ev, Evidence
      <3> QED
        BY <2>0, <3>1, <3>3, <3>4
    <2>3. ASSUME NEW n \in Nonces, NEW r \in Records,
                 IssueGrant([nonce |-> n, rec |-> r, blockers |-> BlockerRows(journal)])
          PROVE  Grows
      <3>1. [nonce |-> n, rec |-> r, blockers |-> BlockerRows(journal)] \in Grant
        BY BlockerRowsType DEF Grant
      <3> QED
        BY <2>3, <3>1, AppendGrantFacts DEF IssueGrant
    <2>4. ASSUME NEW g \in journal.grants, PrepareOverride(g) PROVE Grows
      <3>1. g \in Grant
        BY DEF Journal
      <3> QED
        BY <2>0, <2>a, <2>4, <3>1, AppendConsumptionFacts
           DEF PrepareOverride, CanAppendConsumption
    <2> QED
      BY <2>1, <2>2, <2>3, <2>4 DEF Next
  <1> QED
    BY <1>1, LedgerTypeCorrect, PTL DEF Spec, LedgerOnlyGrows

-----------------------------------------------------------------------------
(* The stored stream.                                                      *)

Envelopes == [records : Seq(SendRecord), risk_events : Seq(RiskEvent)]

\* The events of a record are stored in the order of their numbers.
Increasing(env) ==
    \A i \in DOMAIN env.records : \A a, b \in DOMAIN env.records[i].events :
        a < b => env.records[i].events[a].seq < env.records[i].events[b].seq

\* The inductive invariant of the stream.
StreamOK(env) ==
    /\ env \in Envelopes /\ ValidateReplay(env)
    /\ Increasing(env) /\ IsFiniteSet(Places(env))

RiskOf(env) == ToSet(env.risk_events)

\* The events of a list with one more at its end.
LEMMA AppendToSet ==
    ASSUME NEW S, NEW s \in Seq(S), NEW x \in S
    PROVE  /\ ToSet(Append(s, x)) = ToSet(s) \cup {x} /\ Append(s, x) \in Seq(S)
           /\ DOMAIN Append(s, x) = DOMAIN s \cup {Len(s) + 1} /\ Len(s) + 1 \notin DOMAIN s
           /\ \A i \in DOMAIN s : Append(s, x)[i] = s[i]
           /\ Append(s, x)[Len(s) + 1] = x
           /\ DOMAIN s = 1..Len(s) /\ Len(s) \in Nat /\ Len(Append(s, x)) = Len(s) + 1
<1>1. /\ Append(s, x) \in Seq(S) /\ DOMAIN s = 1..Len(s) /\ Len(s) \in Nat
      /\ DOMAIN Append(s, x) = 1..(Len(s) + 1) /\ Len(Append(s, x)) = Len(s) + 1
      /\ \A i \in 1..Len(s) : Append(s, x)[i] = s[i]
      /\ Append(s, x)[Len(s) + 1] = x
  OBVIOUS
<1>2. 1..(Len(s) + 1) = 1..Len(s) \cup {Len(s) + 1}
  BY <1>1
<1>3. DOMAIN Append(s, x) = DOMAIN s \cup {Len(s) + 1} /\ Len(s) + 1 \notin DOMAIN s
  BY <1>1, <1>2
<1>4. ToSet(Append(s, x)) = ToSet(s) \cup {x}
  BY <1>1, <1>3 DEF ToSet
<1> QED
  BY <1>1, <1>3, <1>4

\* The events of a record, by their places in the lists.
LEMMA EventsByPlace ==
    ASSUME NEW env, NEW r, NEW e
    PROVE  e \in EventsOf(env, r) <=>
              \E i \in DOMAIN env.records : /\ env.records[i].id = r
                                            /\ \E k \in DOMAIN env.records[i].events :
                                                  e = env.records[i].events[k]
  BY DEF EventsOf, ToSet

\* The places of the two lists.
LEMMA PlacesByIndex ==
    ASSUME NEW env, NEW p
    PROVE  p \in Places(env) <=>
              \/ \E i \in DOMAIN env.records : \E k \in DOMAIN env.records[i].events :
                     p = <<"record", i, k>>
              \/ \E i \in DOMAIN env.risk_events : p = <<"risk", i, 0>>
<1>1. ASSUME NEW i \in DOMAIN env.records, NEW k \in DOMAIN env.records[i].events
      PROVE  <<"record", i, k>> \in Places(env)
  <2>1. <<i, k>> \in UNION {{j} \X DOMAIN env.records[j].events : j \in DOMAIN env.records}
    OBVIOUS
  <2> QED
    BY <2>1 DEF Places
<1>2. ASSUME p \in Places(env)
      PROVE  \/ \E i \in DOMAIN env.records : \E k \in DOMAIN env.records[i].events :
                    p = <<"record", i, k>>
             \/ \E i \in DOMAIN env.risk_events : p = <<"risk", i, 0>>
  <2>1. CASE \E i \in DOMAIN env.risk_events : p = <<"risk", i, 0>>
    BY <2>1
  <2>2. CASE p \in {<<"record", x[1], x[2]>> : x \in UNION {{i} \X DOMAIN env.records[i].events :
                                               i \in DOMAIN env.records}}
    <3>0. PICK i \in DOMAIN env.records : \E x \in {i} \X DOMAIN env.records[i].events :
              p = <<"record", x[1], x[2]>>
      BY <2>2
    <3>1. PICK x \in {i} \X DOMAIN env.records[i].events : p = <<"record", x[1], x[2]>>
      BY <3>0
    <3>2. x[1] = i /\ x[2] \in DOMAIN env.records[i].events
      BY <3>1
    <3> QED
      BY <3>1, <3>2
  <2> QED
    BY <1>2, <2>1, <2>2 DEF Places
<1>3. ASSUME NEW i \in DOMAIN env.risk_events PROVE <<"risk", i, 0>> \in Places(env)
  BY DEF Places
<1> QED
  BY <1>1, <1>2, <1>3

\* The numbers in use, by place.
LEMMA SeqsByIndex ==
    ASSUME NEW env, NEW n
    PROVE  n \in SeqsUsed(env) <=>
              \/ \E i \in DOMAIN env.records : \E k \in DOMAIN env.records[i].events :
                     n = env.records[i].events[k].seq
              \/ \E i \in DOMAIN env.risk_events : n = env.risk_events[i].seq
<1>1. ASSUME NEW i \in DOMAIN env.records, NEW k \in DOMAIN env.records[i].events
      PROVE  env.records[i].events[k].seq \in SeqsUsed(env)
  <2>1. <<"record", i, k>> \in Places(env)
    BY PlacesByIndex
  <2>2. SeqAt(env, <<"record", i, k>>) = env.records[i].events[k].seq
    BY DEF SeqAt
  <2> QED
    BY <2>1, <2>2 DEF SeqsUsed
<1>2. ASSUME NEW i \in DOMAIN env.risk_events
      PROVE  env.risk_events[i].seq \in SeqsUsed(env)
  <2>1. <<"risk", i, 0>> \in Places(env)
    BY PlacesByIndex
  <2>2. SeqAt(env, <<"risk", i, 0>>) = env.risk_events[i].seq
    BY DEF SeqAt
  <2> QED
    BY <2>1, <2>2 DEF SeqsUsed
<1>3. ASSUME n \in SeqsUsed(env)
      PROVE  \/ \E i \in DOMAIN env.records : \E k \in DOMAIN env.records[i].events :
                    n = env.records[i].events[k].seq
             \/ \E i \in DOMAIN env.risk_events : n = env.risk_events[i].seq
  <2>1. PICK p \in Places(env) : n = SeqAt(env, p)
    BY <1>3 DEF SeqsUsed
  <2>2. CASE \E i \in DOMAIN env.records : \E k \in DOMAIN env.records[i].events :
                 p = <<"record", i, k>>
    BY <2>1, <2>2 DEF SeqAt
  <2>3. CASE \E i \in DOMAIN env.risk_events : p = <<"risk", i, 0>>
    BY <2>1, <2>3 DEF SeqAt
  <2> QED
    BY <2>1, <2>2, <2>3, PlacesByIndex
<1> QED
  BY <1>1, <1>2, <1>3

\* The numbers in use, by the events of the records and the risk events.
LEMMA SeqsOfSets ==
    ASSUME NEW env, \A i \in DOMAIN env.records : env.records[i].id \in Records
    PROVE  SeqsUsed(env) = {e.seq : e \in RiskOf(env) \cup UNION {EventsOf(env, r) : r \in Records}}
<1>1. ASSUME NEW n
      PROVE  n \in SeqsUsed(env) <=> \E e \in RiskOf(env) \cup UNION {EventsOf(env, r) : r \in Records} :
                                        n = e.seq
  BY SeqsByIndex, EventsByPlace DEF RiskOf, ToSet
<1> QED
  BY <1>1

\* The types of what an envelope holds.
LEMMA EventTypes ==
    ASSUME NEW env \in Envelopes
    PROVE  /\ \A i \in DOMAIN env.records :
                 /\ env.records[i] \in SendRecord /\ env.records[i].id \in Records
                 /\ env.records[i].events \in Seq(Event)
                 /\ \A k \in DOMAIN env.records[i].events : env.records[i].events[k] \in Event
           /\ \A r : EventsOf(env, r) \subseteq Event
           /\ RiskOf(env) \subseteq RiskEvent
           /\ \A e \in Event : e.seq \in Nat /\ e.ev \in Evidence
           /\ \A e \in RiskEvent : /\ e.seq \in Nat /\ e.action.kind \in {"Granted", "Consumed"}
                                   /\ e.action.grant \in Grant
<1>1. \A i \in DOMAIN env.records : env.records[i] \in SendRecord
  BY DEF Envelopes
<1>2. \A i \in DOMAIN env.records : /\ env.records[i].id \in Records
                                    /\ env.records[i].events \in Seq(Event)
  BY <1>1 DEF SendRecord
<1>3. \A i \in DOMAIN env.records : \A k \in DOMAIN env.records[i].events :
          env.records[i].events[k] \in Event
  BY <1>2
<1>4. \A r : EventsOf(env, r) \subseteq Event
  BY <1>3, EventsByPlace
<1>5. RiskOf(env) \subseteq RiskEvent
  BY DEF RiskOf, ToSet, Envelopes
<1>6. \A e \in Event : e.seq \in Nat /\ e.ev \in Evidence
  BY DEF Event
<1>7. \A e \in RiskEvent : /\ e.seq \in Nat /\ e.action.kind \in {"Granted", "Consumed"}
                           /\ e.action.grant \in Grant
  BY DEF RiskEvent
<1> QED
  BY <1>1, <1>2, <1>3, <1>4, <1>5, <1>6, <1>7

\* Numbers of the stream run from 1 to the number of events.
LEMMA StreamNumbers ==
    ASSUME NEW env, StreamOK(env)
    PROVE  /\ EventCount(env) \in Nat /\ NextSequence(env) = EventCount(env) + 1
           /\ \A r \in Records : \A e \in EventsOf(env, r) : e.seq \in 1..EventCount(env)
           /\ \A e \in RiskOf(env) : e.seq \in 1..EventCount(env)
<1> DEFINE N == EventCount(env)
<1>1. N \in Nat
  BY FS_CardinalityType DEF StreamOK, EventCount
<1>2. SeqsUsed(env) = 1..N
  BY DEF StreamOK, ValidateReplay, Contiguous
<1>3. \A i \in DOMAIN env.records : env.records[i].id \in Records
  BY EventTypes DEF StreamOK
<1>4. SeqsUsed(env) = {e.seq : e \in RiskOf(env) \cup UNION {EventsOf(env, r) : r \in Records}}
  BY <1>3, SeqsOfSets
<1>5. \A r \in Records : \A e \in EventsOf(env, r) : e.seq \in SeqsUsed(env)
  BY <1>4
<1>6. \A e \in RiskOf(env) : e.seq \in SeqsUsed(env)
  BY <1>4
<1> HIDE DEF N
<1>7. Max({0} \cup 1..N) = N
  <2>1. N \in {0} \cup 1..N /\ \A y \in {0} \cup 1..N : N >= y
    BY <1>1
  <2>2. \A x \in {0} \cup 1..N : (\A y \in {0} \cup 1..N : x >= y) => x = N
    BY <1>1, <2>1
  <2> QED
    BY <2>1, <2>2 DEF Max
<1> QED
  BY <1>1, <1>2, <1>5, <1>6, <1>7 DEF N, NextSequence

\* What a stream replays to, when no event is left out.
ReplayOf(env) ==
    [ev |-> [r \in Records |-> LatestOf(EventsOf(env, r))],
     grants |-> {e.action.grant : e \in {f \in RiskOf(env) : f.action.kind = "Granted"}},
     spent |-> {e.action.grant.nonce : e \in {f \in RiskOf(env) : f.action.kind = "Consumed"}}]

\* Appending later events changes no earlier state of the replay.
LEMMA PrefixReplay ==
    ASSUME NEW env \in Envelopes, NEW cand \in Envelopes, NEW N \in Nat,
           \A r \in Records : /\ EventsOf(env, r) \subseteq EventsOf(cand, r)
                              /\ \A e \in EventsOf(cand, r) \ EventsOf(env, r) : e.seq > N,
           RiskOf(env) \subseteq RiskOf(cand),
           \A e \in RiskOf(cand) \ RiskOf(env) : e.seq > N,
           NEW k \in Int, k <= N
    PROVE  ReplayedTo(cand, k) = ReplayedTo(env, k)
<1>1. ASSUME NEW r \in Records
      PROVE  {e \in EventsOf(cand, r) : e.seq <= k} = {e \in EventsOf(env, r) : e.seq <= k}
  <2>1. \A e \in EventsOf(cand, r) : e.seq \in Nat
    BY EventTypes
  <2> QED
    BY <2>1
<1>2. {e \in ToSet(cand.risk_events) : e.seq <= k} = {e \in ToSet(env.risk_events) : e.seq <= k}
  <2>1. \A e \in RiskOf(cand) : e.seq \in Nat
    BY EventTypes
  <2>2. {e \in RiskOf(cand) : e.seq <= k} = {e \in RiskOf(env) : e.seq <= k}
    BY <2>1
  <2> QED
    BY <2>2 DEF RiskOf
<1> QED
  BY <1>1, <1>2 DEF ReplayedTo

\* Replaying to the end leaves nothing out.
LEMMA WholeReplay ==
    ASSUME NEW env \in Envelopes, NEW N \in Nat,
           \A r \in Records : \A e \in EventsOf(env, r) : e.seq \in 1..N,
           \A e \in RiskOf(env) : e.seq \in 1..N
    PROVE  ReplayedTo(env, N) = ReplayOf(env)
<1>1. ASSUME NEW r \in Records
      PROVE  {e \in EventsOf(env, r) : e.seq <= N} = EventsOf(env, r)
  OBVIOUS
<1>2. {e \in ToSet(env.risk_events) : e.seq <= N} = RiskOf(env)
  BY DEF RiskOf
<1> QED
  BY <1>1, <1>2 DEF ReplayedTo, ReplayOf

\* The latest evidence of a record is that of its last event.
LEMMA LastEvent ==
    ASSUME NEW env, StreamOK(env), NEW i \in DOMAIN env.records
    PROVE  LET rec == env.records[i] IN
           /\ Len(rec.events) \in Nat /\ Len(rec.events) > 0 /\ DOMAIN rec.events = 1..Len(rec.events)
           /\ LatestOf(EventsOf(env, rec.id)) = rec.events[Len(rec.events)].ev
           /\ rec.events[Len(rec.events)].ev \in Evidence
<1> DEFINE rec == env.records[i]
<1> DEFINE n == Len(rec.events)
<1>1. rec \in SendRecord /\ rec.events \in Seq(Event)
  BY EventTypes DEF StreamOK
<1>2. ValidStatic(rec)
  BY DEF StreamOK, ValidateReplay, ToSet
<1>3. n \in Nat /\ n > 0 /\ DOMAIN rec.events = 1..n
  BY <1>1, <1>2 DEF ValidStatic
<1>4. \A k \in 1..n : rec.events[k] \in Event /\ rec.events[k].seq \in Nat
  BY <1>1, <1>3, EventTypes DEF StreamOK
<1>5. EventsOf(env, rec.id) = {rec.events[k] : k \in 1..n}
  <2>1. \A j \in DOMAIN env.records : env.records[j].id = rec.id => j = i
    BY DEF StreamOK, ValidateReplay
  <2>2. ASSUME NEW e PROVE e \in EventsOf(env, rec.id) <=> \E k \in 1..n : e = rec.events[k]
    BY <1>3, <2>1, EventsByPlace
  <2> QED
    BY <2>2
<1>6. \A k \in 1..n : k < n => rec.events[k].seq < rec.events[n].seq
  BY <1>3 DEF StreamOK, Increasing
<1> DEFINE last == rec.events[n]
<1>7. last \in EventsOf(env, rec.id) /\ \A d \in EventsOf(env, rec.id) : d.seq <= last.seq
  <2>1. n \in 1..n
    BY <1>3
  <2>2. \A k \in 1..n : rec.events[k].seq <= last.seq
    BY <1>3, <1>4, <1>6, <2>1
  <2> QED
    BY <1>5, <2>1, <2>2
<1>8. \A e \in EventsOf(env, rec.id) : (\A d \in EventsOf(env, rec.id) : d.seq <= e.seq) => e = last
  <2> SUFFICES ASSUME NEW k \in 1..n, \A d \in EventsOf(env, rec.id) : d.seq <= rec.events[k].seq
               PROVE  rec.events[k] = last
    BY <1>5
  <2>1. last.seq <= rec.events[k].seq /\ last.seq \in Nat /\ rec.events[k].seq \in Nat
    BY <1>3, <1>4, <1>7
  <2>2. ~(k < n)
    BY <1>6, <2>1
  <2> QED
    BY <1>3, <2>2
<1>9. (CHOOSE e \in EventsOf(env, rec.id) : \A d \in EventsOf(env, rec.id) : d.seq <= e.seq) = last
  <2> HIDE DEF last, rec, n
  <2> QED
    BY <1>7, <1>8
<1>10. LatestOf(EventsOf(env, rec.id)) = last.ev
  <2> HIDE DEF last, rec, n
  <2> QED
    BY <1>7, <1>9 DEF LatestOf
<1>11. last.ev \in Evidence
  BY <1>3, <1>4 DEF Event
<1> QED
  BY <1>3, <1>10, <1>11

\* A record without evidence is not in the lists.
LEMMA AbsentMeansNone ==
    ASSUME NEW env, StreamOK(env), NEW r
    PROVE  LatestOf(EventsOf(env, r)) = Absent <=> \A i \in DOMAIN env.records : env.records[i].id # r
<1>0. Absent \notin Evidence
  BY DEF Absent, Evidence, EvidenceTags, BlockingTags, TerminalTags
<1>1. ASSUME NEW i \in DOMAIN env.records, env.records[i].id = r
      PROVE  LatestOf(EventsOf(env, r)) # Absent
  BY <1>0, <1>1, LastEvent
<1>2. ASSUME \A i \in DOMAIN env.records : env.records[i].id # r
      PROVE  LatestOf(EventsOf(env, r)) = Absent
  <2>1. EventsOf(env, r) = {}
    BY <1>2, EventsByPlace
  <2> QED
    BY <2>1 DEF LatestOf
<1> QED
  BY <1>1, <1>2

-----------------------------------------------------------------------------
(* A candidate: the envelope with later events added.                      *)

\* cand is env with the events E of record r and the risk events R added, which
\* have the c numbers that follow.
Grown(env, cand, r, E, R, c) ==
    /\ cand \in Envelopes
    /\ EventsOf(cand, r) = EventsOf(env, r) \cup E
    /\ \A s \in Records \ {r} : EventsOf(cand, s) = EventsOf(env, s)
    /\ RiskOf(cand) = RiskOf(env) \cup R
    /\ E \subseteq Event /\ R \subseteq RiskEvent
    /\ {e.seq : e \in E \cup R} = (EventCount(env) + 1)..(EventCount(env) + c)
    /\ IsFiniteSet(Places(cand)) /\ EventCount(cand) = EventCount(env) + c

\* Every record keeps its first event.
HeadsKept(env, cand) ==
    \A s \in ToSet(env.records) :
        \E t \in ToSet(cand.records) : t.id = s.id /\ t.events[1] = s.events[1]

\* What the replay of a candidate gives, and that its numbers have no gap.
LEMMA GrownReplay ==
    ASSUME NEW env, StreamOK(env), NEW cand, NEW r \in Records, NEW E, NEW R, NEW c \in {1, 2},
           Grown(env, cand, r, E, R, c)
    PROVE  /\ \A k \in Int : k <= EventCount(env) => ReplayedTo(cand, k) = ReplayedTo(env, k)
           /\ Replayed(env) = ReplayOf(env) /\ Replayed(cand) = ReplayOf(cand)
           /\ ReplayedTo(cand, EventCount(env)) = ReplayOf(env)
           /\ Contiguous(cand)
           /\ \A e \in E \cup R : e.seq \in Nat /\ e.seq > EventCount(env)
<1>1. PICK N \in Nat : N = EventCount(env)
  BY StreamNumbers
<1>2. /\ \A s \in Records : \A e \in EventsOf(env, s) : e.seq \in 1..N
      /\ \A e \in RiskOf(env) : e.seq \in 1..N
  BY <1>1, StreamNumbers
<1>3. \A e \in E \cup R : e.seq \in (N + 1)..(N + c)
  BY <1>1 DEF Grown
<1>4. env \in Envelopes /\ cand \in Envelopes
  BY DEF StreamOK, Grown
<1>5. /\ \A s \in Records : EventsOf(cand, s) = EventsOf(env, s) \cup IF s = r THEN E ELSE {}
      /\ RiskOf(cand) = RiskOf(env) \cup R
  BY DEF Grown
<1>6. ASSUME NEW k \in Int, k <= N PROVE ReplayedTo(cand, k) = ReplayedTo(env, k)
  <2>1. \A s \in Records : /\ EventsOf(env, s) \subseteq EventsOf(cand, s)
                           /\ \A e \in EventsOf(cand, s) \ EventsOf(env, s) : e.seq > N
    BY <1>3, <1>5
  <2>2. RiskOf(env) \subseteq RiskOf(cand) /\ \A e \in RiskOf(cand) \ RiskOf(env) : e.seq > N
    BY <1>3, <1>5
  <2> QED
    BY <1>4, <1>6, <2>1, <2>2, PrefixReplay
<1>7. Replayed(env) = ReplayOf(env) /\ ReplayedTo(env, N) = ReplayOf(env)
  BY <1>1, <1>2, <1>4, WholeReplay DEF Replayed
<1>8. EventCount(cand) = N + c /\ N + c \in Nat
  BY <1>1 DEF Grown
<1>9. /\ \A s \in Records : \A e \in EventsOf(cand, s) : e.seq \in 1..(N + c)
      /\ \A e \in RiskOf(cand) : e.seq \in 1..(N + c)
  BY <1>2, <1>3, <1>5
<1>10. Replayed(cand) = ReplayOf(cand)
  BY <1>4, <1>8, <1>9, WholeReplay DEF Replayed
<1>11. Contiguous(cand)
  <2>1. \A i \in DOMAIN env.records : env.records[i].id \in Records
    BY <1>4, EventTypes
  <2>2. \A i \in DOMAIN cand.records : cand.records[i].id \in Records
    BY <1>4, EventTypes
  <2>3. SeqsUsed(env) = {e.seq : e \in RiskOf(env) \cup UNION {EventsOf(env, s) : s \in Records}}
    BY <2>1, SeqsOfSets
  <2>4. SeqsUsed(cand) = {e.seq : e \in RiskOf(cand) \cup UNION {EventsOf(cand, s) : s \in Records}}
    BY <2>2, SeqsOfSets
  <2>5. RiskOf(cand) \cup UNION {EventsOf(cand, s) : s \in Records}
          = (RiskOf(env) \cup UNION {EventsOf(env, s) : s \in Records}) \cup (E \cup R)
    BY <1>5
  <2>6. SeqsUsed(cand) = SeqsUsed(env) \cup {e.seq : e \in E \cup R}
    BY <2>3, <2>4, <2>5
  <2>7. SeqsUsed(env) = 1..N
    BY <1>1 DEF StreamOK, ValidateReplay, Contiguous
  <2>8. SeqsUsed(cand) = 1..N \cup (N + 1)..(N + c)
    BY <1>1, <2>6, <2>7 DEF Grown
  <2>9. 1..N \cup (N + 1)..(N + c) = 1..(N + c)
    OBVIOUS
  <2> QED
    BY <1>8, <2>8, <2>9 DEF Contiguous
<1>12. \A e \in E \cup R : e.seq \in Nat /\ e.seq > N
  BY <1>3
<1>13. ReplayedTo(cand, N) = ReplayOf(env)
  BY <1>6, <1>7
<1> QED
  BY <1>1, <1>6, <1>7, <1>10, <1>11, <1>12, <1>13

\* The events of before still fit.
LEMMA OldEventsFit ==
    ASSUME NEW env, StreamOK(env), NEW cand, NEW r \in Records, NEW E, NEW R, NEW c \in {1, 2},
           Grown(env, cand, r, E, R, c), HeadsKept(env, cand)
    PROVE  /\ \A e \in RiskOf(env) :
                 IF e.action.kind = "Granted" THEN GrantFits(cand, e) ELSE ConsumptionFits(cand, e)
           /\ \A s \in ToSet(env.records), t \in ToSet(cand.records) :
                 t.events[1] = s.events[1] => PreparedFits(cand, t)
<1>1. PICK N \in Nat : N = EventCount(env)
  BY StreamNumbers
<1>2. /\ \A s \in Records : \A e \in EventsOf(env, s) : e.seq \in 1..N
      /\ \A e \in RiskOf(env) : e.seq \in 1..N
  BY <1>1, StreamNumbers
<1>3. \A k \in Int : k <= N => ReplayedTo(cand, k) = ReplayedTo(env, k)
  BY <1>1, GrownReplay
<1>4. ASSUME NEW e \in RiskOf(env)
      PROVE  IF e.action.kind = "Granted" THEN GrantFits(cand, e) ELSE ConsumptionFits(cand, e)
  <2>1. IF e.action.kind = "Granted" THEN GrantFits(env, e) ELSE ConsumptionFits(env, e)
    BY DEF RiskOf, StreamOK, ValidateReplay
  <2>2. e.seq - 1 \in Int /\ e.seq - 1 <= N
    BY <1>2
  <2>3. ReplayedTo(cand, e.seq - 1) = ReplayedTo(env, e.seq - 1)
    BY <1>3, <2>2
  <2>4. CASE e.action.kind = "Granted"
    BY <2>1, <2>3, <2>4 DEF GrantFits
  <2>5. CASE e.action.kind # "Granted"
    <3>1. PICK s \in ToSet(env.records) : s.id = e.action.grant.rec /\ s.events[1].seq = e.seq + 1
      BY <2>1, <2>5 DEF ConsumptionFits
    <3>2. \E t \in ToSet(cand.records) : t.id = e.action.grant.rec /\ t.events[1].seq = e.seq + 1
      BY <3>1 DEF HeadsKept
    <3> QED
      BY <2>1, <2>3, <2>5, <3>2 DEF ConsumptionFits
  <2> QED
    BY <2>4, <2>5
<1>5. ASSUME NEW s \in ToSet(env.records), NEW t \in ToSet(cand.records), t.events[1] = s.events[1]
      PROVE  PreparedFits(cand, t)
  <2>1. PreparedFits(env, s)
    BY DEF StreamOK, ValidateReplay
  <2>2. CASE \E e \in ToSet(env.risk_events) :
                e.action.kind = "Consumed" /\ e.seq + 1 = s.events[1].seq
    <3>1. ToSet(env.risk_events) \subseteq ToSet(cand.risk_events)
      BY DEF Grown, RiskOf
    <3> QED
      BY <1>5, <2>2, <3>1 DEF PreparedFits
  <2>3. CASE Blocking(ReplayedTo(env, s.events[1].seq - 1)) = {}
    <3>1. PICK i \in DOMAIN env.records : s = env.records[i]
      BY DEF ToSet
    <3>2. 1 \in DOMAIN s.events
      BY <3>1, LastEvent
    <3>3. s.events[1] \in EventsOf(env, s.id) /\ s.id \in Records
      BY <3>1, <3>2, EventsByPlace, EventTypes DEF StreamOK
    <3>4. s.events[1].seq \in 1..N
      BY <1>2, <3>3
    <3>5. s.events[1].seq - 1 \in Int /\ s.events[1].seq - 1 <= N
      BY <3>4
    <3>6. ReplayedTo(cand, s.events[1].seq - 1) = ReplayedTo(env, s.events[1].seq - 1)
      BY <1>3, <3>5
    <3> QED
      BY <1>5, <2>3, <3>6 DEF PreparedFits
  <2> QED
    BY <2>1, <2>2, <2>3 DEF PreparedFits
<1> QED
  BY <1>4, <1>5
-----------------------------------------------------------------------------
(* What each append adds to the two lists.                                 *)

\* One more place.
PlaceAdded(env, cand, p) == Places(cand) = Places(env) \cup {p} /\ p \notin Places(env)

\* cand is env with one more event, at place p.
OneMore(env, cand, p) ==
    /\ cand \in Envelopes
    /\ IsFiniteSet(Places(cand)) /\ EventCount(cand) = EventCount(env) + 1

\* One more place is one more event.
LEMMA OneMorePlace ==
    ASSUME NEW env, NEW cand \in Envelopes, NEW p, IsFiniteSet(Places(env)),
           PlaceAdded(env, cand, p)
    PROVE  OneMore(env, cand, p)
  BY FS_AddElement DEF OneMore, EventCount, PlaceAdded

\* Record r has the events E besides those it had, all others have theirs.
Recorded(env, cand, r, E) ==
    /\ EventsOf(cand, r) = EventsOf(env, r) \cup E
    /\ \A s \in Records \ {r} : EventsOf(cand, s) = EventsOf(env, s)

\* One more record, at index m, whose only event is x.
RecordAt(env, cand, m, r, x) ==
    /\ DOMAIN cand.records = DOMAIN env.records \cup {m} /\ m \notin DOMAIN env.records
    /\ \A i \in DOMAIN env.records : cand.records[i] = env.records[i]
    /\ cand.records[m].id = r
    /\ DOMAIN cand.records[m].events = {1} /\ cand.records[m].events[1] = x
    /\ cand.risk_events = env.risk_events

\* It adds one place, and one event to the record it is for.
LEMMA MoreRecords ==
    ASSUME NEW env, NEW cand, NEW m, NEW r, NEW x, RecordAt(env, cand, m, r, x)
    PROVE  PlaceAdded(env, cand, <<"record", m, 1>>) /\ Recorded(env, cand, r, {x})
<1> USE DEF RecordAt
<1>1. ASSUME NEW p, p \in Places(cand) PROVE p \in Places(env) \cup {<<"record", m, 1>>}
  <2>1. CASE \E i \in DOMAIN cand.risk_events : p = <<"risk", i, 0>>
    BY <2>1, PlacesByIndex
  <2>2. CASE \E i \in DOMAIN cand.records : \E k \in DOMAIN cand.records[i].events :
                 p = <<"record", i, k>>
    <3>1. PICK i \in DOMAIN cand.records : \E k \in DOMAIN cand.records[i].events :
              p = <<"record", i, k>>
      BY <2>2
    <3>2. CASE i = m
      BY <3>1, <3>2
    <3>3. CASE i \in DOMAIN env.records
      BY <3>1, <3>3, PlacesByIndex
    <3> QED
      BY <3>1, <3>2, <3>3
  <2> QED
    BY <1>1, <2>1, <2>2, PlacesByIndex
<1>2. ASSUME NEW p, p \in Places(env) PROVE p \in Places(cand)
  <2>1. CASE \E i \in DOMAIN env.risk_events : p = <<"risk", i, 0>>
    BY <2>1, PlacesByIndex
  <2>2. CASE \E i \in DOMAIN env.records : \E k \in DOMAIN env.records[i].events :
                 p = <<"record", i, k>>
    <3>1. PICK i \in DOMAIN env.records : \E k \in DOMAIN env.records[i].events :
              p = <<"record", i, k>>
      BY <2>2
    <3>2. i \in DOMAIN cand.records /\ cand.records[i] = env.records[i]
      BY <3>1
    <3> QED
      BY <3>1, <3>2, PlacesByIndex
  <2> QED
    BY <1>2, <2>1, <2>2, PlacesByIndex
<1>3. <<"record", m, 1>> \in Places(cand)
  <2>1. m \in DOMAIN cand.records /\ 1 \in DOMAIN cand.records[m].events
    OBVIOUS
  <2> QED
    BY <2>1, PlacesByIndex
<1>4. <<"record", m, 1>> \notin Places(env)
  <2>1. ASSUME NEW i \in DOMAIN env.records, NEW k \in DOMAIN env.records[i].events
        PROVE  <<"record", m, 1>> # <<"record", i, k>>
    OBVIOUS
  <2>2. ASSUME NEW i \in DOMAIN env.risk_events PROVE <<"record", m, 1>> # <<"risk", i, 0>>
    OBVIOUS
  <2> QED
    BY <2>1, <2>2, PlacesByIndex
<1>5. Places(cand) = Places(env) \cup {<<"record", m, 1>>}
  BY <1>1, <1>2, <1>3
<1>6. ASSUME NEW s, NEW e, e \in EventsOf(cand, s)
      PROVE  e \in EventsOf(env, s) \/ (s = r /\ e = x)
  <2>1. PICK i \in DOMAIN cand.records : /\ cand.records[i].id = s
                                        /\ \E k \in DOMAIN cand.records[i].events :
                                              e = cand.records[i].events[k]
    BY <1>6, EventsByPlace
  <2>2. CASE i = m
    BY <2>1, <2>2
  <2>3. CASE i \in DOMAIN env.records
    BY <2>1, <2>3, EventsByPlace
  <2> QED
    BY <2>2, <2>3
<1>7. ASSUME NEW s, NEW e, e \in EventsOf(env, s) PROVE e \in EventsOf(cand, s)
  <2>1. PICK i \in DOMAIN env.records : /\ env.records[i].id = s
                                        /\ \E k \in DOMAIN env.records[i].events :
                                              e = env.records[i].events[k]
    BY <1>7, EventsByPlace
  <2>2. i \in DOMAIN cand.records /\ cand.records[i] = env.records[i]
    BY <2>1
  <2> QED
    BY <2>1, <2>2, EventsByPlace
<1>8. x \in EventsOf(cand, r)
  <2>1. m \in DOMAIN cand.records /\ 1 \in DOMAIN cand.records[m].events
    OBVIOUS
  <2> QED
    BY <2>1, EventsByPlace
<1>9. EventsOf(cand, r) = EventsOf(env, r) \cup {x}
  <2>1. \A e : e \in EventsOf(cand, r) => e \in EventsOf(env, r) \/ e = x
    BY <1>6
  <2>2. \A e : e \in EventsOf(env, r) => e \in EventsOf(cand, r)
    BY <1>7
  <2> QED
    BY <1>8, <2>1, <2>2
<1>10. ASSUME NEW s, s # r PROVE EventsOf(cand, s) = EventsOf(env, s)
  <2>1. \A e : e \in EventsOf(cand, s) => e \in EventsOf(env, s)
    BY <1>6, <1>10
  <2>2. \A e : e \in EventsOf(env, s) => e \in EventsOf(cand, s)
    BY <1>7
  <2> QED
    BY <2>1, <2>2
<1> QED
  BY <1>4, <1>5, <1>9, <1>10 DEF PlaceAdded, Recorded

\* The envelope with a record added under the number n, and with a risk event.
WithRecord(env, r, n) ==
    [records |-> Append(env.records, PreparedRecord(r, n)), risk_events |-> env.risk_events]
WithRisk(env, x) == [records |-> env.records, risk_events |-> Append(env.risk_events, x)]

\* A new record is one more list with one event.
LEMMA RecordAdded ==
    ASSUME NEW env \in Envelopes, IsFiniteSet(Places(env)), NEW r \in Records, NEW n \in Nat,
           NEW cand,
           cand = WithRecord(env, r, n)
    PROVE  LET m == Len(env.records) + 1 IN
           /\ OneMore(env, cand, <<"record", m, 1>>)
           /\ Recorded(env, cand, r, {[seq |-> n, ev |-> Prepared]})
           /\ DOMAIN cand.records = DOMAIN env.records \cup {m} /\ m \notin DOMAIN env.records
           /\ \A i \in DOMAIN env.records : cand.records[i] = env.records[i]
           /\ cand.records[m] = PreparedRecord(r, n)
           /\ cand.risk_events = env.risk_events
           /\ ToSet(cand.records) = ToSet(env.records) \cup {PreparedRecord(r, n)}
           /\ HeadsKept(env, cand) /\ (Increasing(env) => Increasing(cand))
<1> DEFINE m == Len(env.records) + 1
<1> DEFINE new == PreparedRecord(r, n)
<1>1. [seq |-> n, ev |-> Prepared] \in Event
  BY BuiltEvidence DEF Event
<1>2. /\ new \in SendRecord /\ new.id = r /\ DOMAIN new.events = {1}
      /\ new.events[1] = [seq |-> n, ev |-> Prepared]
  <2>1. PICK x \in Event : x = [seq |-> n, ev |-> Prepared]
    BY <1>1
  <2>2. <<x>> \in Seq(Event) /\ DOMAIN <<x>> = {1} /\ <<x>>[1] = x
    OBVIOUS
  <2> QED
    BY <2>1, <2>2 DEF SendRecord, PreparedRecord
<1>3. env.records \in Seq(SendRecord) /\ env.risk_events \in Seq(RiskEvent)
  BY DEF Envelopes
<1>4. cand = [records |-> Append(env.records, new), risk_events |-> env.risk_events]
  BY DEF WithRecord
<1>5. cand.records = Append(env.records, new) /\ cand.risk_events = env.risk_events
  BY <1>4
<1> HIDE DEF new
<1>6. /\ cand.records \in Seq(SendRecord) /\ DOMAIN cand.records = DOMAIN env.records \cup {m}
      /\ m \notin DOMAIN env.records /\ \A i \in DOMAIN env.records : cand.records[i] = env.records[i]
      /\ cand.records[m] = new /\ ToSet(cand.records) = ToSet(env.records) \cup {new}
  BY <1>2, <1>3, <1>5, AppendToSet
<1>7. cand \in Envelopes
  BY <1>3, <1>4, <1>5, <1>6 DEF Envelopes
<1> HIDE DEF m
<1>8. PlaceAdded(env, cand, <<"record", m, 1>>) /\ Recorded(env, cand, r, {[seq |-> n, ev |-> Prepared]})
  <2>1. PICK x : x = [seq |-> n, ev |-> Prepared]
    OBVIOUS
  <2>2. RecordAt(env, cand, m, r, x)
    BY <1>2, <1>5, <1>6, <2>1 DEF RecordAt
  <2> QED
    BY <2>1, <2>2, MoreRecords
<1>10. OneMore(env, cand, <<"record", m, 1>>)
  BY <1>7, <1>8, OneMorePlace
<1>13. HeadsKept(env, cand)
  BY <1>6 DEF HeadsKept
<1>14. Increasing(env) => Increasing(cand)
  BY <1>2, <1>6 DEF Increasing
<1> QED
  BY <1>5, <1>6, <1>8, <1>10, <1>13, <1>14 DEF m, new

\* A grant or a consumption is one more risk event.
LEMMA RiskAdded ==
    ASSUME NEW env \in Envelopes, IsFiniteSet(Places(env)), NEW x \in RiskEvent,
           NEW cand, cand = WithRisk(env, x)
    PROVE  LET m == Len(env.risk_events) + 1 IN
           /\ OneMore(env, cand, <<"risk", m, 0>>)
           /\ RiskOf(cand) = RiskOf(env) \cup {x}
           /\ cand.records = env.records
           /\ \A s : EventsOf(cand, s) = EventsOf(env, s)
           /\ HeadsKept(env, cand) /\ (Increasing(env) => Increasing(cand))
<1> DEFINE m == Len(env.risk_events) + 1
<1>3. env.records \in Seq(SendRecord) /\ env.risk_events \in Seq(RiskEvent)
  BY DEF Envelopes
<1>4. cand = [records |-> env.records, risk_events |-> Append(env.risk_events, x)]
  BY DEF WithRisk
<1>5. cand.records = env.records /\ cand.risk_events = Append(env.risk_events, x)
  BY <1>4
<1>6. /\ cand.risk_events \in Seq(RiskEvent) /\ DOMAIN cand.risk_events = DOMAIN env.risk_events \cup {m}
      /\ m \notin DOMAIN env.risk_events /\ ToSet(cand.risk_events) = ToSet(env.risk_events) \cup {x}
  BY <1>3, <1>5, AppendToSet
<1>7. cand \in Envelopes
  BY <1>3, <1>4, <1>5, <1>6 DEF Envelopes
<1> HIDE DEF m
<1>8. ASSUME NEW p PROVE p \in Places(cand) <=> p \in Places(env) \cup {<<"risk", m, 0>>}
  <2>1. p \in Places(cand) <=>
              \/ \E i \in DOMAIN env.records : \E k \in DOMAIN env.records[i].events :
                     p = <<"record", i, k>>
              \/ p = <<"risk", m, 0>>
              \/ \E i \in DOMAIN env.risk_events : p = <<"risk", i, 0>>
    BY <1>5, <1>6, PlacesByIndex
  <2> QED
    BY <2>1, PlacesByIndex
<1>9. <<"risk", m, 0>> \notin Places(env)
  BY <1>6, PlacesByIndex
<1>10. OneMore(env, cand, <<"risk", m, 0>>)
  <2>1. PlaceAdded(env, cand, <<"risk", m, 0>>)
    BY <1>8, <1>9 DEF PlaceAdded
  <2> QED
    BY <1>7, <2>1, OneMorePlace
<1>11. RiskOf(cand) = RiskOf(env) \cup {x}
  BY <1>6 DEF RiskOf
<1>12. ASSUME NEW s PROVE EventsOf(cand, s) = EventsOf(env, s)
  BY <1>5 DEF EventsOf
<1>13. HeadsKept(env, cand)
  BY <1>5 DEF HeadsKept
<1>14. Increasing(env) => Increasing(cand)
  BY <1>5 DEF Increasing
<1> QED
  BY <1>5, <1>10, <1>11, <1>12, <1>13, <1>14 DEF m

\* One more event x, at index m of the record at k.
EventAt(env, cand, k, m, r, x) ==
    /\ DOMAIN cand.records = DOMAIN env.records /\ k \in DOMAIN env.records
    /\ \A i \in DOMAIN env.records : i # k => cand.records[i] = env.records[i]
    /\ \A i \in DOMAIN env.records : cand.records[i].id = env.records[i].id
    /\ env.records[k].id = r
    /\ DOMAIN cand.records[k].events = DOMAIN env.records[k].events \cup {m}
    /\ m \notin DOMAIN env.records[k].events /\ cand.records[k].events[m] = x
    /\ \A j \in DOMAIN env.records[k].events : cand.records[k].events[j] = env.records[k].events[j]
    /\ cand.risk_events = env.risk_events

\* It adds one place, and one event to the record at k.
LEMMA MoreEvents ==
    ASSUME NEW env, NEW cand, NEW k, NEW m, NEW r, NEW x, EventAt(env, cand, k, m, r, x)
    PROVE  PlaceAdded(env, cand, <<"record", k, m>>) /\ Recorded(env, cand, r, {x})
<1>0. ASSUME NEW i \in DOMAIN env.records, NEW j \in DOMAIN env.records[i].events
      PROVE  /\ j \in DOMAIN cand.records[i].events /\ i \in DOMAIN cand.records
             /\ cand.records[i].events[j] = env.records[i].events[j]
             /\ cand.records[i].id = env.records[i].id
  <2>1. CASE i = k
    BY <2>1 DEF EventAt
  <2>2. CASE i # k
    BY <2>2 DEF EventAt
  <2> QED
    BY <2>1, <2>2
<1>1. ASSUME NEW i \in DOMAIN cand.records, NEW j \in DOMAIN cand.records[i].events
      PROVE  \/ i = k /\ j = m /\ cand.records[i].id = r /\ cand.records[i].events[j] = x
             \/ /\ i \in DOMAIN env.records /\ j \in DOMAIN env.records[i].events
                /\ cand.records[i].events[j] = env.records[i].events[j]
                /\ cand.records[i].id = env.records[i].id
  <2>1. CASE i = k
    BY <2>1 DEF EventAt
  <2>2. CASE i # k
    BY <2>2 DEF EventAt
  <2> QED
    BY <2>1, <2>2
<1>2. /\ k \in DOMAIN cand.records /\ m \in DOMAIN cand.records[k].events
      /\ cand.records[k].id = r /\ cand.records[k].events[m] = x
      /\ k \in DOMAIN env.records /\ m \notin DOMAIN env.records[k].events
      /\ cand.risk_events = env.risk_events
  BY DEF EventAt
<1>3. ASSUME NEW p, p \in Places(cand) PROVE p \in Places(env) \/ p = <<"record", k, m>>
  <2>1. CASE \E i \in DOMAIN cand.risk_events : p = <<"risk", i, 0>>
    BY <1>2, <2>1, PlacesByIndex
  <2>2. CASE \E i \in DOMAIN cand.records : \E j \in DOMAIN cand.records[i].events :
                 p = <<"record", i, j>>
    <3>1. PICK i \in DOMAIN cand.records : \E j \in DOMAIN cand.records[i].events :
              p = <<"record", i, j>>
      BY <2>2
    <3>2. PICK j \in DOMAIN cand.records[i].events : p = <<"record", i, j>>
      BY <3>1
    <3>3. (i = k /\ j = m) \/ (i \in DOMAIN env.records /\ j \in DOMAIN env.records[i].events)
      BY <1>1, <3>1, <3>2
    <3> QED
      BY <3>2, <3>3, PlacesByIndex
  <2> QED
    BY <1>3, <2>1, <2>2, PlacesByIndex
<1>4. ASSUME NEW p, p \in Places(env) PROVE p \in Places(cand)
  <2>1. CASE \E i \in DOMAIN env.risk_events : p = <<"risk", i, 0>>
    BY <1>2, <2>1, PlacesByIndex
  <2>2. CASE \E i \in DOMAIN env.records : \E j \in DOMAIN env.records[i].events :
                 p = <<"record", i, j>>
    BY <1>0, <2>2, PlacesByIndex
  <2> QED
    BY <1>4, <2>1, <2>2, PlacesByIndex
<1>5. <<"record", k, m>> \in Places(cand)
  BY <1>2, PlacesByIndex
<1>6. <<"record", k, m>> \notin Places(env)
  <2>1. ASSUME NEW i \in DOMAIN env.records, NEW j \in DOMAIN env.records[i].events
        PROVE  <<"record", k, m>> # <<"record", i, j>>
    BY <1>2
  <2>2. ASSUME NEW i \in DOMAIN env.risk_events PROVE <<"record", k, m>> # <<"risk", i, 0>>
    OBVIOUS
  <2> QED
    BY <2>1, <2>2, PlacesByIndex
<1>7. Places(cand) = Places(env) \cup {<<"record", k, m>>}
  BY <1>3, <1>4, <1>5
<1>8. ASSUME NEW s, NEW e, e \in EventsOf(cand, s)
      PROVE  e \in EventsOf(env, s) \/ (s = r /\ e = x)
  <2>1. PICK i \in DOMAIN cand.records : /\ cand.records[i].id = s
                                        /\ \E j \in DOMAIN cand.records[i].events :
                                              e = cand.records[i].events[j]
    BY <1>8, EventsByPlace
  <2>2. PICK j \in DOMAIN cand.records[i].events : e = cand.records[i].events[j]
    BY <2>1
  <2>3. \/ s = r /\ e = x
        \/ /\ i \in DOMAIN env.records /\ j \in DOMAIN env.records[i].events
           /\ e = env.records[i].events[j] /\ env.records[i].id = s
    BY <1>1, <2>1, <2>2
  <2> QED
    BY <2>3, EventsByPlace
<1>9. ASSUME NEW s, NEW e, e \in EventsOf(env, s) PROVE e \in EventsOf(cand, s)
  <2>1. PICK i \in DOMAIN env.records : /\ env.records[i].id = s
                                        /\ \E j \in DOMAIN env.records[i].events :
                                              e = env.records[i].events[j]
    BY <1>9, EventsByPlace
  <2>2. PICK j \in DOMAIN env.records[i].events : e = env.records[i].events[j]
    BY <2>1
  <2>3. /\ j \in DOMAIN cand.records[i].events /\ i \in DOMAIN cand.records
        /\ e = cand.records[i].events[j] /\ cand.records[i].id = s
    BY <1>0, <2>1, <2>2
  <2> QED
    BY <2>3, EventsByPlace
<1>10. x \in EventsOf(cand, r)
  BY <1>2, EventsByPlace
<1>11. EventsOf(cand, r) = EventsOf(env, r) \cup {x}
  <2>1. \A e : e \in EventsOf(cand, r) => e \in EventsOf(env, r) \/ e = x
    BY <1>8
  <2>2. \A e : e \in EventsOf(env, r) => e \in EventsOf(cand, r)
    BY <1>9
  <2> QED
    BY <1>10, <2>1, <2>2
<1>12. ASSUME NEW s, s # r PROVE EventsOf(cand, s) = EventsOf(env, s)
  <2>1. \A e : e \in EventsOf(cand, s) => e \in EventsOf(env, s)
    BY <1>8, <1>12
  <2>2. \A e : e \in EventsOf(env, s) => e \in EventsOf(cand, s)
    BY <1>9
  <2> QED
    BY <2>1, <2>2
<1> QED
  BY <1>6, <1>7, <1>11, <1>12 DEF PlaceAdded, Recorded

\* The envelope with the event x added to the record at k.
WithEvent(env, k, x) == [env EXCEPT !.records[k].events = Append(@, x)]

\* One record is replaced by the same with a longer list.
LEMMA EventExcept ==
    ASSUME NEW env \in Envelopes, NEW k, env.records[k] \in SendRecord, NEW x
    PROVE  \E w : /\ w = [id |-> env.records[k].id, events |-> Append(env.records[k].events, x)]
                  /\ WithEvent(env, k, x)
                       = [records |-> [env.records EXCEPT ![k] = w], risk_events |-> env.risk_events]
<1>1. PICK rec \in SendRecord : rec = env.records[k]
  OBVIOUS
<1>2. [rec EXCEPT !.events = Append(rec.events, x)] = [id |-> rec.id, events |-> Append(rec.events, x)]
  BY <1>1 DEF SendRecord
<1>3. PICK w : w = [env.records[k] EXCEPT !.events = Append(env.records[k].events, x)]
  OBVIOUS
<1>4. w = [rec EXCEPT !.events = Append(rec.events, x)]
  BY <1>1, <1>3, Zenon
<1>5. w = [id |-> env.records[k].id, events |-> Append(env.records[k].events, x)]
  BY <1>1, <1>2, <1>4, Zenon
<1>6. ASSUME NEW v PROVE [env EXCEPT !.records = v] = [records |-> v, risk_events |-> env.risk_events]
  BY DEF Envelopes
<1>7. WithEvent(env, k, x) = [records |-> [env.records EXCEPT ![k] = w], risk_events |-> env.risk_events]
  BY <1>3, <1>6, Zenon DEF WithEvent
<1> QED
  BY <1>5, <1>7, Zenon

\* Evidence is one more event at the end of its record's list.
LEMMA EventAdded ==
    ASSUME NEW env \in Envelopes, IsFiniteSet(Places(env)), NEW k \in DOMAIN env.records,
           NEW x \in Event, NEW cand, cand = WithEvent(env, k, x)
    PROVE  LET m == Len(env.records[k].events) + 1
               r == env.records[k].id
           IN
           /\ OneMore(env, cand, <<"record", k, m>>) /\ EventAt(env, cand, k, m, r, x)
           /\ Recorded(env, cand, r, {x})
           /\ Len(cand.records[k].events) = m /\ m \in Nat /\ DOMAIN env.records[k].events = 1..(m - 1)
<1> DEFINE m == Len(env.records[k].events) + 1
<1> DEFINE r == env.records[k].id
<1> DEFINE old == env.records[k].events
<1>1. /\ env.records \in Seq(SendRecord) /\ env.risk_events \in Seq(RiskEvent)
      /\ env = [records |-> env.records, risk_events |-> env.risk_events]
  BY DEF Envelopes
<1>2. /\ env.records[k] \in SendRecord /\ r \in Records /\ old \in Seq(Event)
      /\ env.records[k] = [id |-> r, events |-> old]
  <2>1. env.records[k] \in SendRecord
    BY <1>1
  <2> QED
    BY <2>1 DEF SendRecord
<1>0. PICK grown : /\ grown = [id |-> r, events |-> Append(old, x)]
                   /\ cand = [records |-> [env.records EXCEPT ![k] = grown],
                              risk_events |-> env.risk_events]
  BY <1>2, EventExcept
<1>3. cand.records = [env.records EXCEPT ![k] = grown] /\ cand.risk_events = env.risk_events
      /\ cand = [records |-> cand.records, risk_events |-> cand.risk_events]
  BY <1>0
<1>4. /\ Append(old, x) \in Seq(Event) /\ DOMAIN Append(old, x) = DOMAIN old \cup {m}
      /\ m \notin DOMAIN old /\ Append(old, x)[m] = x /\ m \in Nat /\ DOMAIN old = 1..(m - 1)
      /\ \A j \in DOMAIN old : Append(old, x)[j] = old[j] /\ Len(Append(old, x)) = m
  BY <1>2, AppendToSet
<1>5. grown \in SendRecord /\ grown.id = r /\ grown.events = Append(old, x)
  BY <1>0, <1>2, <1>4 DEF SendRecord
<1> HIDE DEF old, r, m
<1>6. /\ cand.records \in Seq(SendRecord) /\ DOMAIN cand.records = DOMAIN env.records
      /\ cand.records[k] = grown
      /\ \A i \in DOMAIN env.records : i # k => cand.records[i] = env.records[i]
  BY <1>1, <1>3, <1>5
<1>7. cand \in Envelopes
  BY <1>1, <1>3, <1>6 DEF Envelopes
<1>8. EventAt(env, cand, k, m, r, x)
  BY <1>3, <1>4, <1>5, <1>6 DEF EventAt, old, r
<1>9. PlaceAdded(env, cand, <<"record", k, m>>) /\ Recorded(env, cand, r, {x})
  BY <1>8, MoreEvents
<1>10. OneMore(env, cand, <<"record", k, m>>)
  BY <1>7, <1>9, OneMorePlace
<1>11. Len(cand.records[k].events) = m /\ m \in Nat /\ DOMAIN env.records[k].events = 1..(m - 1)
  BY <1>4, <1>5, <1>6 DEF old
<1> QED
  BY <1>8, <1>9, <1>10, <1>11 DEF m, r

-----------------------------------------------------------------------------
(* What each append means for the replay.                                  *)

\* A stream replays to a Journal.
LEMMA ReplayType ==
    ASSUME NEW env, StreamOK(env)
    PROVE  ReplayOf(env) \in Journal
<1>1. ASSUME NEW r \in Records PROVE LatestOf(EventsOf(env, r)) \in Evidence \cup {Absent}
  <2>1. CASE \E i \in DOMAIN env.records : env.records[i].id = r
    BY <2>1, LastEvent
  <2>2. CASE \A i \in DOMAIN env.records : env.records[i].id # r
    BY <2>2, AbsentMeansNone
  <2> QED
    BY <2>1, <2>2
<1>2. \A e \in RiskOf(env) : e.action.grant \in Grant /\ e.action.grant.nonce \in Nonces
  <2>1. \A e \in RiskOf(env) : e.action.grant \in Grant
    BY EventTypes DEF StreamOK
  <2>2. \A g \in Grant : g.nonce \in Nonces
    BY DEF Grant
  <2> QED
    BY <2>1, <2>2
<1> QED
  BY <1>1, <1>2 DEF ReplayOf, Journal

\* An event numbered past the end is the latest of its record.
LEMMA LatestAdded ==
    ASSUME NEW env, StreamOK(env), NEW r \in Records, NEW x \in Event, x.seq > EventCount(env)
    PROVE  LatestOf(EventsOf(env, r) \cup {x}) = x.ev
<1>1. PICK S : S = EventsOf(env, r) \cup {x}
  OBVIOUS
<1>2. PICK N \in Nat : N = EventCount(env)
  BY StreamNumbers
<1>3. \A e \in EventsOf(env, r) : e.seq \in 1..N
  BY <1>2, StreamNumbers
<1>4. x.seq \in Nat /\ x.seq > N
  BY <1>2 DEF Event
<1>5. \A e \in EventsOf(env, r) : e.seq \in Nat /\ e.seq < x.seq
  BY <1>3, <1>4
<1>6. x \in S /\ \A d \in S : d.seq <= x.seq
  BY <1>1, <1>4, <1>5
<1>7. \A e \in S : (\A d \in S : d.seq <= e.seq) => e = x
  BY <1>1, <1>4, <1>5
<1>8. (CHOOSE e \in S : \A d \in S : d.seq <= e.seq) = x
  BY <1>6, <1>7
<1> QED
  BY <1>1, <1>6, <1>8 DEF LatestOf

\* A consumption is never the last event of a stream.
LEMMA NoPendingConsumption ==
    ASSUME NEW env, StreamOK(env), NEW e \in RiskOf(env), e.action.kind = "Consumed"
    PROVE  e.seq \in Nat /\ e.seq < EventCount(env)
<1>1. ConsumptionFits(env, e)
  <2>1. "Consumed" # "Granted"
    OBVIOUS
  <2> QED
    BY <2>1 DEF StreamOK, ValidateReplay, RiskOf
<1>2. PICK s \in ToSet(env.records) : s.events[1].seq = e.seq + 1
  BY <1>1 DEF ConsumptionFits
<1>3. PICK i \in DOMAIN env.records : s = env.records[i]
  BY <1>2 DEF ToSet
<1>4. 1 \in DOMAIN s.events
  BY <1>3, LastEvent
<1>5. s.events[1] \in EventsOf(env, s.id) /\ s.id \in Records
  BY <1>3, <1>4, EventsByPlace, EventTypes DEF StreamOK
<1>6. e.seq + 1 \in 1..EventCount(env) /\ e.seq \in 1..EventCount(env) /\ EventCount(env) \in Nat
  BY <1>2, <1>5, StreamNumbers
<1> QED
  BY <1>6

\* The grants and the spent nonces among some risk events.
GrantsOf(R) == {e.action.grant : e \in {f \in R : f.action.kind = "Granted"}}
SpentOf(R) == {e.action.grant.nonce : e \in {f \in R : f.action.kind = "Consumed"}}

\* cand replays to what env does, with v the evidence of r, and these more
\* grants and spent nonces.
ReplaysTo(env, cand, r, v, grants, spent) ==
    ReplayOf(cand) = [ev |-> [ReplayOf(env).ev EXCEPT ![r] = v],
                      grants |-> ReplayOf(env).grants \cup grants,
                      spent |-> ReplayOf(env).spent \cup spent]

\* What the grown stream replays to.
LEMMA ReplayGrown ==
    ASSUME NEW env, StreamOK(env), NEW cand, NEW r \in Records, NEW E, NEW R, NEW c \in {1, 2},
           Grown(env, cand, r, E, R, c), NEW v, LatestOf(EventsOf(env, r) \cup E) = v
    PROVE  ReplaysTo(env, cand, r, v, GrantsOf(R), SpentOf(R))
<1>1. RiskOf(cand) = RiskOf(env) \cup R
  BY DEF Grown
<1>2. ReplayOf(cand).grants = ReplayOf(env).grants \cup GrantsOf(R)
  BY <1>1 DEF ReplayOf, GrantsOf
<1>3. ReplayOf(cand).spent = ReplayOf(env).spent \cup SpentOf(R)
  BY <1>1 DEF ReplayOf, SpentOf
<1>4. ReplayOf(cand).ev = [ReplayOf(env).ev EXCEPT ![r] = v]
  <2>1. \A s \in Records : s # r => EventsOf(cand, s) = EventsOf(env, s)
    BY DEF Grown
  <2>2. EventsOf(cand, r) = EventsOf(env, r) \cup E
    BY DEF Grown
  <2>3. /\ ReplayOf(cand).ev = [s \in Records |-> LatestOf(EventsOf(cand, s))]
        /\ ReplayOf(env).ev = [s \in Records |-> LatestOf(EventsOf(env, s))]
    BY DEF ReplayOf
  <2> QED
    BY <2>1, <2>2, <2>3
<1>5. ReplayOf(cand) = [ev |-> ReplayOf(cand).ev, grants |-> ReplayOf(cand).grants,
                        spent |-> ReplayOf(cand).spent]
  BY DEF ReplayOf
<1> QED
  BY <1>2, <1>3, <1>4, <1>5 DEF ReplaysTo

-----------------------------------------------------------------------------
(* append_prepared.                                                        *)

\* cand is env with the new record r, at index m, whose Prepared event is x.
Prepares(env, cand, r, m, x) ==
    /\ DOMAIN cand.records = DOMAIN env.records \cup {m} /\ m \notin DOMAIN env.records
    /\ \A i \in DOMAIN env.records : cand.records[i] = env.records[i]
    /\ ToSet(cand.records) = ToSet(env.records) \cup {cand.records[m]}
    /\ cand.records[m].id = r /\ Len(cand.records[m].events) = 1 /\ cand.records[m].events[1] = x
    /\ x \in Event /\ x.ev = Prepared /\ x.seq > EventCount(env)
    /\ HeadsKept(env, cand) /\ Increasing(cand)

\* The candidate of append_prepared.
LEMMA PreparedGrows ==
    ASSUME NEW env, StreamOK(env), NEW r \in Records, NEW cand, cand = WithPrepared(env, r)
    PROVE  \E m, x : /\ Prepares(env, cand, r, m, x) /\ Grown(env, cand, r, {x}, {}, 1)
                     /\ x.seq = EventCount(env) + 1 /\ cand.risk_events = env.risk_events
<1> DEFINE N == EventCount(env)
<1> DEFINE x == [seq |-> N + 1, ev |-> Prepared]
<1> DEFINE m == Len(env.records) + 1
<1> DEFINE new == PreparedRecord(r, N + 1)
<1>1. N \in Nat /\ NextSequence(env) = N + 1
  BY StreamNumbers
<1>2. env \in Envelopes /\ IsFiniteSet(Places(env)) /\ Increasing(env)
  BY DEF StreamOK
<1> HIDE DEF N
<1>3. cand = WithRecord(env, r, N + 1)
  BY <1>1, <1>2 DEF WithPrepared, WithRecord, Envelopes
<1>4. x \in Event /\ x.seq > N /\ x.seq = N + 1 /\ x.ev = Prepared
  BY <1>1, BuiltEvidence DEF Event
<1>5. N + 1 \in Nat
  BY <1>1
<1>6. /\ OneMore(env, cand, <<"record", m, 1>>)
      /\ Recorded(env, cand, r, {x})
      /\ DOMAIN cand.records = DOMAIN env.records \cup {m} /\ m \notin DOMAIN env.records
      /\ \A i \in DOMAIN env.records : cand.records[i] = env.records[i]
      /\ cand.records[m] = new
      /\ cand.risk_events = env.risk_events
      /\ ToSet(cand.records) = ToSet(env.records) \cup {new}
      /\ HeadsKept(env, cand) /\ (Increasing(env) => Increasing(cand))
  BY <1>2, <1>3, <1>5, RecordAdded
<1> HIDE DEF x, m, new
<1>7. Grown(env, cand, r, {x}, {}, 1)
  <2>1. {e.seq : e \in {x} \cup {}} = {N + 1}
    BY <1>4
  <2>2. {N + 1} = (N + 1)..(N + 1)
    BY <1>1
  <2>3. RiskOf(cand) = RiskOf(env) \cup {}
    BY <1>6 DEF RiskOf
  <2> QED
    BY <1>4, <1>6, <2>1, <2>2, <2>3 DEF Grown, N, OneMore, Recorded
<1>8. new.id = r /\ Len(new.events) = 1 /\ new.events[1] = x
  <2>1. new.id = r /\ new.events = <<x>>
    BY DEF new, x, PreparedRecord
  <2>2. Len(<<x>>) = 1 /\ <<x>>[1] = x
    OBVIOUS
  <2> QED
    BY <2>1, <2>2
<1>9. Prepares(env, cand, r, m, x)
  BY <1>2, <1>4, <1>6, <1>8 DEF Prepares, N
<1> QED
  BY <1>4, <1>6, <1>7, <1>9 DEF N

\* Ids stay unique exactly when the id of the new record is new.
LEMMA IdsStayUnique ==
    ASSUME NEW env, NEW cand, NEW m, NEW r,
           \A i, k \in DOMAIN env.records : env.records[i].id = env.records[k].id => i = k,
           DOMAIN cand.records = DOMAIN env.records \cup {m}, m \notin DOMAIN env.records,
           \A i \in DOMAIN env.records : cand.records[i] = env.records[i], cand.records[m].id = r
    PROVE  (\A i, k \in DOMAIN cand.records : cand.records[i].id = cand.records[k].id => i = k)
              <=> \A i \in DOMAIN env.records : env.records[i].id # r
<1>2. ASSUME \A i \in DOMAIN env.records : env.records[i].id # r,
             NEW i \in DOMAIN cand.records, NEW k \in DOMAIN cand.records,
             cand.records[i].id = cand.records[k].id
      PROVE  i = k
  <2>1. CASE i = m
    BY <1>2, <2>1
  <2>2. CASE k = m
    BY <1>2, <2>2
  <2>3. CASE i # m /\ k # m
    BY <1>2, <2>3
  <2> QED
    BY <2>1, <2>2, <2>3
<1>3. ASSUME \A i, k \in DOMAIN cand.records : cand.records[i].id = cand.records[k].id => i = k,
             NEW i \in DOMAIN env.records, env.records[i].id = r
      PROVE  FALSE
  <2>1. i \in DOMAIN cand.records /\ m \in DOMAIN cand.records /\ i # m
          /\ cand.records[i].id = r /\ cand.records[m].id = r
    BY <1>3
  <2> QED
    BY <1>3, <2>1
<1> QED
  BY <1>2, <1>3

\* validate_replay accepts it exactly when the ledger's rule does, and it
\* replays to what the ledger's append gives.
LEMMA PreparedJudged ==
    ASSUME NEW env, StreamOK(env), NEW r \in Records, NEW cand, cand = WithPrepared(env, r)
    PROVE  /\ ValidateReplay(cand) <=> CanAppendPrepared(Replayed(env), r)
           /\ ValidateReplay(cand) => /\ StreamOK(cand)
                                      /\ Replayed(cand) = AppendPrepared(Replayed(env), r)
<1>1. PICK N \in Nat : N = EventCount(env)
  BY StreamNumbers
<1>2. PICK m, x : /\ Prepares(env, cand, r, m, x) /\ Grown(env, cand, r, {x}, {}, 1)
                  /\ x.seq = EventCount(env) + 1 /\ cand.risk_events = env.risk_events
  BY PreparedGrows
<1> DEFINE new == cand.records[m]
<1>5. /\ x \in Event /\ x.seq > EventCount(env) /\ x.ev = Prepared
      /\ Grown(env, cand, r, {x}, {}, 1) /\ HeadsKept(env, cand) /\ Increasing(cand)
      /\ ToSet(cand.records) = ToSet(env.records) \cup {new}
      /\ DOMAIN cand.records = DOMAIN env.records \cup {m} /\ m \notin DOMAIN env.records
      /\ \A i \in DOMAIN env.records : cand.records[i] = env.records[i]
      /\ cand.records[m] = new /\ cand.risk_events = env.risk_events
  BY <1>2 DEF Prepares
<1>6. new.id = r /\ Len(new.events) = 1 /\ new.events[1] = x
  BY <1>2 DEF Prepares
<1> HIDE DEF new
<1> DEFINE j == ReplayOf(env)
<1>7. /\ Replayed(env) = j /\ Replayed(cand) = ReplayOf(cand)
      /\ ReplayedTo(cand, EventCount(env)) = j /\ Contiguous(cand)
  BY <1>5, GrownReplay
<1>8. /\ \A e \in RiskOf(env) :
            IF e.action.kind = "Granted" THEN GrantFits(cand, e) ELSE ConsumptionFits(cand, e)
      /\ \A s \in ToSet(env.records), t \in ToSet(cand.records) :
            t.events[1] = s.events[1] => PreparedFits(cand, t)
  BY <1>5, OldEventsFit
<1>9. \A s \in ToSet(cand.records) : ValidStatic(s)
  <2>1. \A s \in ToSet(env.records) : ValidStatic(s)
    BY DEF StreamOK, ValidateReplay
  <2>2. ValidStatic(new)
    BY <1>5, <1>6 DEF ValidStatic
  <2> QED
    BY <1>5, <2>1, <2>2
<1>10. (\A i, k \in DOMAIN cand.records : cand.records[i].id = cand.records[k].id => i = k)
          <=> \A i \in DOMAIN env.records : env.records[i].id # r
  <2>1. \A i, k \in DOMAIN env.records : env.records[i].id = env.records[k].id => i = k
    BY DEF StreamOK, ValidateReplay
  <2> QED
    BY <1>5, <1>6, <2>1, IdsStayUnique
<1>11. j.ev[r] = Absent <=> \A i \in DOMAIN env.records : env.records[i].id # r
  BY AbsentMeansNone DEF ReplayOf
<1>12. PreparedFits(cand, new) <=> Blocking(j) = {}
  <2>1. new.events[1].seq = N + 1 /\ N + 1 - 1 = N
    BY <1>1, <1>2, <1>6
  <2>2. ~ \E e \in ToSet(cand.risk_events) : e.action.kind = "Consumed" /\ e.seq + 1 = N + 1
    <3> SUFFICES ASSUME NEW e \in RiskOf(env), e.action.kind = "Consumed", e.seq + 1 = N + 1
                 PROVE  FALSE
      BY <1>5 DEF RiskOf
    <3>1. e.seq \in Nat /\ e.seq < N
      BY <1>1, NoPendingConsumption
    <3> QED
      BY <3>1
  <2>3. ReplayedTo(cand, N + 1 - 1) = j
    BY <1>1, <1>7, <2>1
  <2> QED
    BY <2>1, <2>2, <2>3 DEF PreparedFits
<1>13. \A s \in ToSet(env.records) : PreparedFits(cand, s)
  BY <1>5, <1>8
<1>14. ValidateReplay(cand) <=> CanAppendPrepared(j, r)
  <2>1. ToSet(cand.risk_events) = RiskOf(env)
    BY <1>5 DEF RiskOf
  <2>2. (\A s \in ToSet(cand.records) : PreparedFits(cand, s)) <=> Blocking(j) = {}
    BY <1>5, <1>12, <1>13
  <2> QED
    BY <1>7, <1>8, <1>9, <1>10, <1>11, <2>1, <2>2 DEF ValidateReplay, CanAppendPrepared
<1>15. ASSUME ValidateReplay(cand) PROVE StreamOK(cand)
  BY <1>5, <1>15 DEF StreamOK, Grown
<1>16. Replayed(cand) = AppendPrepared(j, r)
  <2>1. LatestOf(EventsOf(env, r) \cup {x}) = Prepared
    BY <1>5, LatestAdded
  <2>2. ReplayOf(cand) = [ev |-> [j.ev EXCEPT ![r] = Prepared], grants |-> j.grants, spent |-> j.spent]
    <3>1. PICK c \in {1, 2} : c = 1
      OBVIOUS
    <3>2. Grown(env, cand, r, {x}, {}, c)
      BY <1>5, <3>1
    <3>3. ReplaysTo(env, cand, r, Prepared, GrantsOf({}), SpentOf({}))
      BY <2>1, <3>2, ReplayGrown
    <3>4. GrantsOf({}) = {} /\ SpentOf({}) = {}
      BY DEF GrantsOf, SpentOf
    <3> QED
      BY <3>3, <3>4 DEF ReplaysTo
  <2>3. j \in Journal
    BY ReplayType
  <2> HIDE DEF j
  <2> QED
    BY <1>7, <2>2, <2>3 DEF AppendPrepared, Journal
<1> QED
  BY <1>7, <1>14, <1>15, <1>16

-----------------------------------------------------------------------------
(* append_delivery.                                                        *)

\* The candidate of append_delivery.
LEMMA DeliveryGrows ==
    ASSUME NEW env, StreamOK(env), NEW k \in DOMAIN env.records, NEW e \in Evidence,
           NEW cand, cand = WithDelivery(env, k, e), NEW r, r = env.records[k].id
    PROVE  \E m, x : /\ x \in Event /\ x.ev = e /\ x.seq > EventCount(env)
                     /\ m \in Nat /\ m > 0 /\ DOMAIN env.records[k].events = 1..m
                     /\ Len(env.records[k].events) = m /\ Len(cand.records[k].events) = m + 1
                     /\ EventAt(env, cand, k, m + 1, r, x) /\ Grown(env, cand, r, {x}, {}, 1)
<1> DEFINE N == EventCount(env)
<1> DEFINE x == [seq |-> N + 1, ev |-> e]
<1>1. N \in Nat /\ NextSequence(env) = N + 1
  BY StreamNumbers
<1>2. env \in Envelopes /\ IsFiniteSet(Places(env))
  BY DEF StreamOK
<1>3. cand = WithEvent(env, k, x)
  BY <1>1, Zenon DEF WithDelivery, WithEvent
<1> HIDE DEF N
<1>4. x \in Event /\ x.seq > N /\ x.seq = N + 1 /\ x.ev = e
  BY <1>1 DEF Event
<1> DEFINE m == Len(env.records[k].events)
<1>5. m \in Nat /\ m > 0 /\ DOMAIN env.records[k].events = 1..m
  BY LastEvent
<1> HIDE DEF x
<1>6. /\ OneMore(env, cand, <<"record", k, m + 1>>) /\ EventAt(env, cand, k, m + 1, r, x)
      /\ Recorded(env, cand, r, {x}) /\ Len(cand.records[k].events) = m + 1
  BY <1>2, <1>3, <1>4, EventAdded
<1>7. Grown(env, cand, r, {x}, {}, 1)
  <2>1. {d.seq : d \in {x} \cup {}} = {N + 1}
    BY <1>4
  <2>2. {N + 1} = (N + 1)..(N + 1)
    BY <1>1
  <2>3. RiskOf(cand) = RiskOf(env) \cup {}
    BY <1>6 DEF RiskOf, EventAt
  <2> QED
    BY <1>4, <1>6, <2>1, <2>2, <2>3 DEF Grown, N, OneMore, Recorded
<1> QED
  BY <1>4, <1>5, <1>6, <1>7 DEF N

\* validate_replay accepts it exactly when the ledger's rule does, and it
\* replays to what the ledger's append gives.
LEMMA DeliveryJudged ==
    ASSUME NEW env, StreamOK(env), NEW k \in DOMAIN env.records, NEW e \in Evidence,
           NEW cand, cand = WithDelivery(env, k, e), NEW r, r = env.records[k].id
    PROVE  /\ ValidateReplay(cand) <=> CanAppendDelivery(Replayed(env), r, e)
           /\ ValidateReplay(cand) => /\ StreamOK(cand)
                                      /\ Replayed(cand) = AppendDelivery(Replayed(env), r, e)
<1>0. r \in Records
  BY EventTypes DEF StreamOK
<1>1. PICK N \in Nat : N = EventCount(env)
  BY StreamNumbers
<1>2. PICK m, x : /\ x \in Event /\ x.ev = e /\ x.seq > EventCount(env)
                  /\ m \in Nat /\ m > 0 /\ DOMAIN env.records[k].events = 1..m
                  /\ Len(env.records[k].events) = m /\ Len(cand.records[k].events) = m + 1
                  /\ EventAt(env, cand, k, m + 1, r, x) /\ Grown(env, cand, r, {x}, {}, 1)
  BY DeliveryGrows
<1> DEFINE old == env.records[k]
<1> DEFINE new == cand.records[k]
<1>3. /\ DOMAIN cand.records = DOMAIN env.records
      /\ \A i \in DOMAIN env.records : i # k => cand.records[i] = env.records[i]
      /\ \A i \in DOMAIN env.records : cand.records[i].id = env.records[i].id
      /\ DOMAIN new.events = 1..m \cup {m + 1} /\ new.events[m + 1] = x
      /\ \A i \in 1..m : new.events[i] = old.events[i]
      /\ Len(old.events) = m /\ Len(new.events) = m + 1
      /\ cand.risk_events = env.risk_events
  BY <1>2 DEF EventAt
<1>4. /\ \A i \in 1..m : old.events[i] \in Event /\ old.events[i].seq \in 1..N
      /\ x.seq \in Nat /\ x.seq > N
  <2>1. \A i \in 1..m : old.events[i] \in EventsOf(env, r)
    BY <1>2, EventsByPlace
  <2>2. \A i \in 1..m : old.events[i] \in Event
    BY <1>2, EventTypes DEF StreamOK
  <2>3. x.seq \in Nat
    BY <1>2 DEF Event
  <2> QED
    BY <1>0, <1>1, <1>2, <2>1, <2>2, <2>3, StreamNumbers
<1> HIDE DEF old, new
<1> DEFINE j == ReplayOf(env)
<1>5. j.ev[r] = old.events[m].ev
  BY <1>0, <1>2, LastEvent DEF ReplayOf, old
<1>6. HeadsKept(env, cand)
  <2>1. ASSUME NEW i \in DOMAIN env.records
        PROVE  /\ cand.records[i].id = env.records[i].id /\ cand.records[i] \in ToSet(cand.records)
               /\ cand.records[i].events[1] = env.records[i].events[1]
    <3>1. CASE i = k
      <4>1. 1 \in 1..m
        BY <1>2
      <4> QED
        BY <1>3, <3>1, <4>1 DEF old, new, ToSet
    <3>2. CASE i # k
      BY <1>3, <3>2 DEF ToSet
    <3> QED
      BY <3>1, <3>2
  <2>2. ASSUME NEW s \in ToSet(env.records)
        PROVE  \E t \in ToSet(cand.records) : t.id = s.id /\ t.events[1] = s.events[1]
    <3>1. PICK i \in DOMAIN env.records : s = env.records[i]
      BY DEF ToSet
    <3> QED
      BY <2>1, <3>1
  <2> QED
    BY <2>2 DEF HeadsKept
<1>7. Increasing(cand)
  <2> SUFFICES ASSUME NEW i \in DOMAIN env.records, NEW a \in DOMAIN cand.records[i].events,
                      NEW b \in DOMAIN cand.records[i].events, a < b
               PROVE  cand.records[i].events[a].seq < cand.records[i].events[b].seq
    BY <1>3 DEF Increasing
  <2>0. Increasing(env)
    BY DEF StreamOK
  <2>1. CASE i # k
    BY <1>3, <2>0, <2>1 DEF Increasing
  <2>2. CASE i = k
    <3>1. a \in 1..m \cup {m + 1} /\ b \in 1..m \cup {m + 1}
      BY <1>3, <2>2 DEF new
    <3>2. a \in 1..m
      BY <1>2, <3>1
    <3>3. CASE b = m + 1
      <4>1. new.events[a].seq \in 1..N /\ new.events[b].seq = x.seq
        BY <1>3, <1>4, <3>2, <3>3
      <4> QED
        BY <1>4, <2>2, <4>1 DEF new
    <3>4. CASE b \in 1..m
      <4>1. old.events[a].seq < old.events[b].seq
        BY <1>2, <2>0, <3>2, <3>4 DEF Increasing, old
      <4> QED
        BY <1>3, <2>2, <3>2, <3>4, <4>1 DEF new
    <3> QED
      BY <3>1, <3>3, <3>4
  <2> QED
    BY <2>1, <2>2
<1>8. /\ Replayed(env) = j /\ Replayed(cand) = ReplayOf(cand) /\ Contiguous(cand)
  BY <1>0, <1>2, GrownReplay
<1>9. /\ \A d \in RiskOf(env) :
            IF d.action.kind = "Granted" THEN GrantFits(cand, d) ELSE ConsumptionFits(cand, d)
      /\ \A s \in ToSet(env.records), t \in ToSet(cand.records) :
            t.events[1] = s.events[1] => PreparedFits(cand, t)
  BY <1>0, <1>2, <1>6, OldEventsFit
<1>10. \A t \in ToSet(cand.records) : PreparedFits(cand, t)
  <2> SUFFICES ASSUME NEW i \in DOMAIN env.records
               PROVE  PreparedFits(cand, cand.records[i])
    BY <1>3 DEF ToSet
  <2>1. cand.records[i].events[1] = env.records[i].events[1]
    <3>1. CASE i = k
      <4>1. 1 \in 1..m
        BY <1>2
      <4> QED
        BY <1>3, <3>1, <4>1 DEF old, new
    <3>2. CASE i # k
      BY <1>3, <3>2
    <3> QED
      BY <3>1, <3>2
  <2>2. env.records[i] \in ToSet(env.records) /\ cand.records[i] \in ToSet(cand.records)
    BY <1>3 DEF ToSet
  <2> QED
    BY <1>9, <2>1, <2>2
<1>11. ValidStatic(old)
  BY DEF StreamOK, ValidateReplay, ToSet, old
<1>12. ValidStatic(new) <=> ValidDeliveryTransition(j.ev[r], e)
  <2>1. ValidStatic(new) <=>
           /\ new.events[1].ev = Prepared
           /\ \A i \in 2..(m + 1) :
                /\ new.events[i].ev \in Evidence
                /\ ValidDeliveryTransition(new.events[i - 1].ev, new.events[i].ev)
                /\ new.events[i - 1].seq < new.events[i].seq
    BY <1>2, <1>3 DEF ValidStatic
  <2>2. new.events[1].ev = Prepared
    <3>1. 1 \in 1..m
      BY <1>2
    <3> QED
      BY <1>3, <1>11, <3>1 DEF ValidStatic
  <2>3. ASSUME NEW i \in 2..m
        PROVE  /\ new.events[i].ev \in Evidence
               /\ ValidDeliveryTransition(new.events[i - 1].ev, new.events[i].ev)
               /\ new.events[i - 1].seq < new.events[i].seq
    <3>1. i \in 1..m /\ i - 1 \in 1..m
      BY <1>2
    <3>2. new.events[i] = old.events[i] /\ new.events[i - 1] = old.events[i - 1]
      BY <1>3, <3>1
    <3> QED
      BY <1>3, <1>11, <3>2 DEF ValidStatic
  <2>4. /\ m \in 1..m /\ m + 1 - 1 = m /\ m + 1 \in 2..(m + 1)
        /\ \A i \in 2..(m + 1) : i = m + 1 \/ i \in 2..m
    BY <1>2
  <2>5. new.events[m + 1] = x /\ new.events[m] = old.events[m]
    BY <1>3, <2>4
  <2>6. new.events[m].seq < new.events[m + 1].seq
    <3>1. old.events[m].seq \in 1..N
      BY <1>4, <2>4
    <3> QED
      BY <1>4, <2>5, <3>1
  <2> DEFINE Step(i) == /\ new.events[i].ev \in Evidence
                        /\ ValidDeliveryTransition(new.events[i - 1].ev, new.events[i].ev)
                        /\ new.events[i - 1].seq < new.events[i].seq
  <2>7. Step(m + 1) <=> ValidDeliveryTransition(j.ev[r], e)
    BY <1>2, <1>5, <2>4, <2>5, <2>6
  <2>8. \A i \in 2..m : Step(i)
    BY <2>3
  <2>9. ValidStatic(new) <=> \A i \in 2..(m + 1) : Step(i)
    BY <2>1, <2>2
  <2> HIDE DEF Step
  <2> QED
    BY <2>4, <2>7, <2>8, <2>9
<1>13. (\A s \in ToSet(cand.records) : ValidStatic(s)) <=> ValidDeliveryTransition(j.ev[r], e)
  <2>1. \A i \in DOMAIN env.records : i # k => ValidStatic(cand.records[i])
    BY <1>3 DEF StreamOK, ValidateReplay, ToSet
  <2>2. (\A s \in ToSet(cand.records) : ValidStatic(s))
           <=> \A i \in DOMAIN env.records : ValidStatic(cand.records[i])
    BY <1>3 DEF ToSet
  <2> QED
    BY <1>12, <2>1, <2>2 DEF new
<1>14. j.ev[r] # Absent
  BY <1>0, AbsentMeansNone DEF ReplayOf
<1>15. ValidateReplay(cand) <=> CanAppendDelivery(j, r, e)
  <2>1. ToSet(cand.risk_events) = RiskOf(env)
    BY <1>3 DEF RiskOf
  <2>2. \A i, l \in DOMAIN cand.records : cand.records[i].id = cand.records[l].id => i = l
    BY <1>3 DEF StreamOK, ValidateReplay
  <2> HIDE DEF j
  <2> QED
    BY <1>8, <1>9, <1>10, <1>13, <1>14, <2>1, <2>2 DEF ValidateReplay, CanAppendDelivery
<1>16. ASSUME ValidateReplay(cand) PROVE StreamOK(cand)
  BY <1>2, <1>7, <1>16 DEF StreamOK, Grown
<1>17. Replayed(cand) = AppendDelivery(j, r, e)
  <2>1. LatestOf(EventsOf(env, r) \cup {x}) = e
    BY <1>0, <1>2, LatestAdded
  <2>2. ReplayOf(cand) = [ev |-> [j.ev EXCEPT ![r] = e], grants |-> j.grants, spent |-> j.spent]
    <3>1. PICK c \in {1, 2} : c = 1
      OBVIOUS
    <3>2. Grown(env, cand, r, {x}, {}, c)
      BY <1>2, <3>1
    <3>3. ReplaysTo(env, cand, r, e, GrantsOf({}), SpentOf({}))
      BY <1>0, <2>1, <3>2, ReplayGrown
    <3>4. GrantsOf({}) = {} /\ SpentOf({}) = {}
      BY DEF GrantsOf, SpentOf
    <3> QED
      BY <3>3, <3>4 DEF ReplaysTo
  <2>3. j \in Journal
    BY ReplayType
  <2> HIDE DEF j
  <2> QED
    BY <1>8, <2>2, <2>3 DEF AppendDelivery, Journal
<1> QED
  BY <1>8, <1>15, <1>16, <1>17

-----------------------------------------------------------------------------
(* append_risk_grant.                                                      *)

\* The risk events a grant and a consumption are stored as.
TheGrant(n, r, b) == [nonce |-> n, rec |-> r, blockers |-> b]
GrantedAt(N, n, r, b) == [seq |-> N, action |-> Granted(n, r, b)]
ConsumedAt(N, n, r) == [seq |-> N, action |-> Consumed(n, r)]

\* What they say.
IsGranted(x, N, g) ==
    /\ x \in RiskEvent /\ x.seq = N /\ x.action.kind = "Granted" /\ x.action.grant = g
    /\ GrantsOf({x}) = {g} /\ SpentOf({x}) = {}
IsConsumed(y, N, n, r) ==
    /\ y \in RiskEvent /\ y.seq = N /\ y.action.kind = "Consumed"
    /\ y.action.grant.nonce = n /\ y.action.grant.rec = r
    /\ GrantsOf({y}) = {} /\ SpentOf({y}) = {n}

\* The events are well typed, and replay to one grant or one spent nonce.
LEMMA RiskEventsBuilt ==
    ASSUME NEW N \in Nat, NEW n \in Nonces, NEW r \in Records, NEW b \in SUBSET BlockerRow
    PROVE  /\ IsGranted(GrantedAt(N, n, r, b), N, TheGrant(n, r, b))
           /\ IsConsumed(ConsumedAt(N, n, r), N, n, r)
           /\ TheGrant(n, r, b) \in Grant
<1> DEFINE x == GrantedAt(N, n, r, b)
<1> DEFINE y == ConsumedAt(N, n, r)
<1> DEFINE g == TheGrant(n, r, b)
<1> DEFINE h == [nonce |-> n, rec |-> r, blockers |-> {}]
<1>1. g \in Grant /\ h \in Grant
  BY DEF Grant, TheGrant
<1>2. Granted(n, r, b) = [kind |-> "Granted", grant |-> g]
  BY DEF Granted, TheGrant
<1>3. Consumed(n, r) = [kind |-> "Consumed", grant |-> h]
  BY DEF Consumed, Granted
<1>4. x \in RiskEvent /\ y \in RiskEvent
  BY <1>1, <1>2, <1>3 DEF RiskEvent, GrantedAt, ConsumedAt
<1>5. x.seq = N /\ x.action.kind = "Granted" /\ x.action.grant = g
  BY <1>2 DEF GrantedAt
<1>6. y.seq = N /\ y.action.kind = "Consumed" /\ y.action.grant = h
  BY <1>3 DEF ConsumedAt
<1>7. g.nonce = n /\ g.rec = r /\ g.blockers = b /\ h.nonce = n /\ h.rec = r
  BY DEF TheGrant
<1> HIDE DEF x, y, g, h
<1>8. GrantsOf({x}) = {g} /\ SpentOf({x}) = {} /\ GrantsOf({y}) = {} /\ SpentOf({y}) = {n}
  BY <1>5, <1>6, <1>7 DEF GrantsOf, SpentOf
<1> QED
  BY <1>1, <1>4, <1>5, <1>6, <1>7, <1>8 DEF x, y, g, IsGranted, IsConsumed

\* cand is env with one more risk event, the grant g.
Grants(env, cand, r, g) ==
    \E x : /\ IsGranted(x, EventCount(env) + 1, g)
           /\ Grown(env, cand, r, {}, {x}, 1) /\ HeadsKept(env, cand) /\ Increasing(cand)
           /\ cand.records = env.records

\* The candidate of append_risk_grant.
LEMMA GrantGrows ==
    ASSUME NEW env, StreamOK(env), NEW n \in Nonces, NEW r \in Records,
           NEW b \in SUBSET BlockerRow, NEW cand, cand = WithGrant(env, n, r, b),
           NEW g, g = TheGrant(n, r, b)
    PROVE  Grants(env, cand, r, g)
<1> DEFINE N == EventCount(env)
<1>1. N \in Nat /\ NextSequence(env) = N + 1 /\ N + 1 \in Nat
  BY StreamNumbers
<1>2. env \in Envelopes /\ IsFiniteSet(Places(env)) /\ Increasing(env)
  BY DEF StreamOK
<1> DEFINE x == GrantedAt(N + 1, n, r, b)
<1>3. cand = WithRisk(env, x)
  BY <1>1, <1>2 DEF WithGrant, WithRisk, Envelopes, GrantedAt
<1> HIDE DEF N
<1>4. IsGranted(x, N + 1, g)
  BY <1>1, RiskEventsBuilt
<1>7. x \in RiskEvent /\ x.seq = N + 1
  BY <1>4 DEF IsGranted
<1> HIDE DEF x
<1>5. /\ OneMore(env, cand, <<"risk", Len(env.risk_events) + 1, 0>>)
      /\ RiskOf(cand) = RiskOf(env) \cup {x} /\ cand.records = env.records
      /\ \A s : EventsOf(cand, s) = EventsOf(env, s)
      /\ HeadsKept(env, cand) /\ (Increasing(env) => Increasing(cand))
  BY <1>2, <1>3, <1>7, RiskAdded
<1>6. Grown(env, cand, r, {}, {x}, 1)
  <2>1. {d.seq : d \in {} \cup {x}} = {N + 1}
    BY <1>7
  <2>2. {N + 1} = (N + 1)..(N + 1)
    BY <1>1
  <2>3. EventsOf(cand, r) = EventsOf(env, r) \cup {}
    BY <1>5
  <2> QED
    BY <1>5, <1>7, <2>1, <2>2, <2>3 DEF Grown, N, OneMore
<1> QED
  BY <1>2, <1>4, <1>5, <1>6 DEF N, Grants

\* validate_replay accepts it exactly when the ledger's rule does, and it
\* replays to what the ledger's append gives.
LEMMA GrantJudged ==
    ASSUME NEW env, StreamOK(env), NEW n \in Nonces, NEW r \in Records,
           NEW b \in SUBSET BlockerRow, NEW cand, cand = WithGrant(env, n, r, b),
           NEW g, g = TheGrant(n, r, b)
    PROVE  /\ ValidateReplay(cand) <=> CanAppendGrant(Replayed(env), g)
           /\ ValidateReplay(cand) => /\ StreamOK(cand)
                                      /\ Replayed(cand) = AppendGrant(Replayed(env), g)
<1>1. PICK N \in Nat : N = EventCount(env)
  BY StreamNumbers
<1>0. PICK x : /\ IsGranted(x, EventCount(env) + 1, g)
               /\ Grown(env, cand, r, {}, {x}, 1) /\ HeadsKept(env, cand) /\ Increasing(cand)
               /\ cand.records = env.records
  <2>1. Grants(env, cand, r, g)
    BY GrantGrows
  <2> QED
    BY <2>1 DEF Grants
<1>2. /\ x \in RiskEvent /\ x.seq = EventCount(env) + 1
      /\ x.action.kind = "Granted" /\ x.action.grant = g
      /\ GrantsOf({x}) = {g} /\ SpentOf({x}) = {}
      /\ Grown(env, cand, r, {}, {x}, 1) /\ HeadsKept(env, cand) /\ Increasing(cand)
      /\ cand.records = env.records
  BY <1>0 DEF IsGranted
<1> DEFINE j == ReplayOf(env)
<1>3. /\ Replayed(env) = j /\ Replayed(cand) = ReplayOf(cand)
      /\ ReplayedTo(cand, EventCount(env)) = j /\ Contiguous(cand)
  BY <1>2, GrownReplay
<1>4. /\ \A e \in RiskOf(env) :
            IF e.action.kind = "Granted" THEN GrantFits(cand, e) ELSE ConsumptionFits(cand, e)
      /\ \A s \in ToSet(env.records), t \in ToSet(cand.records) :
            t.events[1] = s.events[1] => PreparedFits(cand, t)
  BY <1>2, OldEventsFit
<1>5. GrantFits(cand, x) <=> CanAppendGrant(j, g)
  <2>1. x.seq - 1 = EventCount(env)
    BY <1>1, <1>2
  <2>2. ReplayedTo(cand, x.seq - 1) = j
    BY <1>3, <2>1
  <2> HIDE DEF j
  <2> QED
    BY <1>2, <2>2 DEF GrantFits, CanAppendGrant
<1>6. ToSet(cand.risk_events) = RiskOf(env) \cup {x}
  BY <1>2 DEF Grown, RiskOf
<1>7. \A t \in ToSet(cand.records) : PreparedFits(cand, t)
  BY <1>2, <1>4
<1>8. /\ \A s \in ToSet(cand.records) : ValidStatic(s)
      /\ \A i, k \in DOMAIN cand.records : cand.records[i].id = cand.records[k].id => i = k
  BY <1>2 DEF StreamOK, ValidateReplay
<1>9. ValidateReplay(cand) <=> CanAppendGrant(j, g)
  <2>1. (\A e \in ToSet(cand.risk_events) :
            IF e.action.kind = "Granted" THEN GrantFits(cand, e) ELSE ConsumptionFits(cand, e))
          <=> GrantFits(cand, x)
    BY <1>2, <1>4, <1>6
  <2> HIDE DEF j
  <2> QED
    BY <1>3, <1>5, <1>7, <1>8, <2>1 DEF ValidateReplay
<1>10. ASSUME ValidateReplay(cand) PROVE StreamOK(cand)
  BY <1>2, <1>10 DEF StreamOK, Grown
<1>11. Replayed(cand) = AppendGrant(j, g)
  <2>1. LatestOf(EventsOf(env, r) \cup {}) = j.ev[r]
    <3>1. EventsOf(env, r) \cup {} = EventsOf(env, r)
      OBVIOUS
    <3> QED
      BY <3>1 DEF ReplayOf
  <2>2. j \in Journal
    BY ReplayType
  <2>3. ReplaysTo(env, cand, r, j.ev[r], GrantsOf({x}), SpentOf({x}))
    <3>1. PICK c \in {1, 2} : c = 1
      OBVIOUS
    <3>2. Grown(env, cand, r, {}, {x}, c)
      BY <1>2, <3>1
    <3>3. PICK v : v = j.ev[r]
      OBVIOUS
    <3> QED
      BY <2>1, <3>2, <3>3, ReplayGrown
  <2>4. ReplayOf(cand) = [ev |-> [j.ev EXCEPT ![r] = j.ev[r]],
                          grants |-> j.grants \cup {g}, spent |-> j.spent]
    BY <1>2, <2>3 DEF ReplaysTo
  <2> HIDE DEF j
  <2>5. [j.ev EXCEPT ![r] = j.ev[r]] = j.ev
    BY <2>2 DEF Journal
  <2> QED
    <3>1. AppendGrant(j, g) = [ev |-> j.ev, grants |-> j.grants \cup {g}, spent |-> j.spent]
      BY <2>2 DEF AppendGrant, Journal
    <3> QED
      BY <1>3, <2>4, <2>5, <3>1
<1> QED
  BY <1>3, <1>9, <1>10, <1>11

-----------------------------------------------------------------------------
(* append_consumption_and_prepared.                                        *)

\* cand is env with the consumption y and, right after it, the record of r.
Consumes(env, cand, n, r) ==
    \E m, x, y : /\ IsConsumed(y, EventCount(env) + 1, n, r) /\ Prepares(env, cand, r, m, x)
                 /\ x.seq = EventCount(env) + 2 /\ Grown(env, cand, r, {x}, {y}, 2)

\* The candidate of append_consumption_and_prepared.
LEMMA ConsumptionGrows ==
    ASSUME NEW env, StreamOK(env), NEW n \in Nonces, NEW r \in Records,
           NEW cand, cand = WithConsumption(env, n, r)
    PROVE  Consumes(env, cand, n, r)
<1> DEFINE N == EventCount(env)
<1>1. N \in Nat /\ NextSequence(env) = N + 1 /\ N + 1 \in Nat /\ N + 1 + 1 = N + 2 /\ N + 2 \in Nat
  BY StreamNumbers
<1>2. env \in Envelopes /\ IsFiniteSet(Places(env)) /\ Increasing(env)
  BY DEF StreamOK
<1> DEFINE y == ConsumedAt(N + 1, n, r)
<1>0. PICK mid : mid = WithRisk(env, y)
  OBVIOUS
<1>14. PICK M \in Nat : M = N + 2
  BY <1>1
<1> DEFINE x == [seq |-> M, ev |-> Prepared]
<1> DEFINE m == Len(mid.records) + 1
<1> DEFINE new == PreparedRecord(r, M)
<1>3. cand = WithRecord(mid, r, M)
  <2>1. NextSequence(env) + 1 = N + 2
    BY <1>1
  <2> QED
    BY <1>0, <1>1, <1>14, <2>1 DEF WithConsumption, WithRecord, WithRisk, ConsumedAt
<1> HIDE DEF N
<1>4. IsConsumed(y, N + 1, n, r)
  <2>1. {} \in SUBSET BlockerRow
    OBVIOUS
  <2> QED
    BY <1>1, <2>1, RiskEventsBuilt
<1> HIDE DEF y
<1>5. y \in RiskEvent /\ y.seq = N + 1
  BY <1>4 DEF IsConsumed
<1>6. /\ OneMore(env, mid, <<"risk", Len(env.risk_events) + 1, 0>>)
      /\ RiskOf(mid) = RiskOf(env) \cup {y} /\ mid.records = env.records
      /\ \A s : EventsOf(mid, s) = EventsOf(env, s)
      /\ HeadsKept(env, mid) /\ (Increasing(env) => Increasing(mid))
  BY <1>0, <1>2, <1>5, RiskAdded
<1>7. x \in Event /\ x.seq > N /\ x.seq = N + 2 /\ x.ev = Prepared
  BY <1>1, <1>14, BuiltEvidence DEF Event
<1>8. mid \in Envelopes /\ IsFiniteSet(Places(mid)) /\ EventCount(mid) = N + 1
  BY <1>6 DEF OneMore, N
<1>9. /\ OneMore(mid, cand, <<"record", m, 1>>)
      /\ Recorded(mid, cand, r, {x})
      /\ DOMAIN cand.records = DOMAIN mid.records \cup {m} /\ m \notin DOMAIN mid.records
      /\ \A i \in DOMAIN mid.records : cand.records[i] = mid.records[i]
      /\ cand.records[m] = new
      /\ cand.risk_events = mid.risk_events
      /\ ToSet(cand.records) = ToSet(mid.records) \cup {new}
      /\ HeadsKept(mid, cand) /\ (Increasing(mid) => Increasing(cand))
  BY <1>3, <1>8, RecordAdded
<1> HIDE DEF x, m, new
<1>10. Grown(env, cand, r, {x}, {y}, 2)
  <2>1. {e.seq : e \in {x} \cup {y}} = {N + 1, N + 2}
    BY <1>5, <1>7
  <2>2. {N + 1, N + 2} = (N + 1)..(N + 2)
    BY <1>1
  <2>3. RiskOf(cand) = RiskOf(env) \cup {y}
    BY <1>6, <1>9 DEF RiskOf
  <2>4. /\ EventsOf(cand, r) = EventsOf(env, r) \cup {x}
        /\ \A s \in Records \ {r} : EventsOf(cand, s) = EventsOf(env, s)
    BY <1>6, <1>9 DEF Recorded
  <2>5. cand \in Envelopes /\ IsFiniteSet(Places(cand)) /\ EventCount(cand) = N + 2
    BY <1>1, <1>8, <1>9 DEF OneMore
  <2> QED
    BY <1>5, <1>7, <2>1, <2>2, <2>3, <2>4, <2>5 DEF Grown, N
<1>11. new.id = r /\ Len(new.events) = 1 /\ new.events[1] = x
  <2>1. new.id = r /\ new.events = <<x>>
    BY DEF new, x, PreparedRecord
  <2>2. Len(<<x>>) = 1 /\ <<x>>[1] = x
    OBVIOUS
  <2> QED
    BY <2>1, <2>2
<1>12. HeadsKept(env, cand)
  BY <1>6, <1>9 DEF HeadsKept
<1>13. Prepares(env, cand, r, m, x)
  BY <1>2, <1>6, <1>7, <1>9, <1>11, <1>12 DEF Prepares, N
<1> QED
  BY <1>4, <1>7, <1>10, <1>13 DEF N, Consumes

\* append_consumption_and_prepared of the ledger, component by component.
LEMMA ConsumptionForm ==
    ASSUME NEW j \in Journal, NEW g \in Grant, NEW r \in Records, NEW n, g.rec = r, g.nonce = n
    PROVE  AppendConsumption(j, g)
             = [ev |-> [j.ev EXCEPT ![r] = Prepared], grants |-> j.grants, spent |-> j.spent \cup {n}]
<1>1. PICK k : k = AppendConsumption(j, g)
  OBVIOUS
<1>2. /\ k \in Journal /\ k.ev[r] = Prepared /\ \A s \in Records \ {r} : k.ev[s] = j.ev[s]
      /\ k.grants = j.grants /\ k.spent = j.spent \cup {n}
  BY <1>1, AppendConsumptionFacts
<1>3. k.ev = [j.ev EXCEPT ![r] = Prepared]
  <2>1. k.ev \in [Records -> Evidence \cup {Absent}] /\ j.ev \in [Records -> Evidence \cup {Absent}]
    BY <1>2 DEF Journal
  <2> QED
    BY <1>2, <2>1
<1>4. k = [ev |-> k.ev, grants |-> k.grants, spent |-> k.spent]
  BY <1>2 DEF Journal
<1> QED
  BY <1>1, <1>2, <1>3, <1>4

\* validate_replay accepts it exactly when the ledger's rule accepts one of the
\* grants, and it replays to what the ledger's append gives.
LEMMA ConsumptionJudged ==
    ASSUME NEW env, StreamOK(env), NEW n \in Nonces, NEW r \in Records,
           NEW cand, cand = WithConsumption(env, n, r)
    PROVE  /\ ValidateReplay(cand)
                <=> \E g \in Replayed(env).grants :
                       g.nonce = n /\ g.rec = r /\ CanAppendConsumption(Replayed(env), g)
           /\ ValidateReplay(cand) =>
                 /\ StreamOK(cand)
                 /\ \A g \in Replayed(env).grants :
                       g.nonce = n /\ g.rec = r => Replayed(cand) = AppendConsumption(Replayed(env), g)
<1>1. PICK N \in Nat : N = EventCount(env)
  BY StreamNumbers
<1>2. PICK m, x, y : /\ IsConsumed(y, EventCount(env) + 1, n, r) /\ Prepares(env, cand, r, m, x)
                     /\ x.seq = EventCount(env) + 2 /\ Grown(env, cand, r, {x}, {y}, 2)
  <2>1. Consumes(env, cand, n, r)
    BY ConsumptionGrows
  <2> QED
    BY <2>1 DEF Consumes
<1> DEFINE new == cand.records[m]
<1>3. /\ x \in Event /\ x.seq > EventCount(env) /\ x.ev = Prepared
      /\ HeadsKept(env, cand) /\ Increasing(cand)
      /\ ToSet(cand.records) = ToSet(env.records) \cup {new}
      /\ DOMAIN cand.records = DOMAIN env.records \cup {m} /\ m \notin DOMAIN env.records
      /\ \A i \in DOMAIN env.records : cand.records[i] = env.records[i]
      /\ new.id = r /\ Len(new.events) = 1 /\ new.events[1] = x
  BY <1>2 DEF Prepares
<1>4. /\ y.seq = N + 1 /\ y.action.kind = "Consumed" /\ y.action.grant.nonce = n
      /\ y.action.grant.rec = r /\ GrantsOf({y}) = {} /\ SpentOf({y}) = {n}
  BY <1>1, <1>2 DEF IsConsumed
<1>5. cand.records[m] = new
  OBVIOUS
<1> HIDE DEF new
<1> DEFINE j == ReplayOf(env)
<1>6. /\ Replayed(env) = j /\ Replayed(cand) = ReplayOf(cand)
      /\ ReplayedTo(cand, EventCount(env)) = j /\ Contiguous(cand)
  BY <1>2, GrownReplay
<1>7. /\ \A e \in RiskOf(env) :
            IF e.action.kind = "Granted" THEN GrantFits(cand, e) ELSE ConsumptionFits(cand, e)
      /\ \A s \in ToSet(env.records), t \in ToSet(cand.records) :
            t.events[1] = s.events[1] => PreparedFits(cand, t)
  BY <1>2, <1>3, OldEventsFit
<1>8. \A s \in ToSet(cand.records) : ValidStatic(s)
  <2>1. \A s \in ToSet(env.records) : ValidStatic(s)
    BY DEF StreamOK, ValidateReplay
  <2>2. ValidStatic(new)
    BY <1>3 DEF ValidStatic
  <2> QED
    BY <1>3, <2>1, <2>2
<1>9. (\A i, k \in DOMAIN cand.records : cand.records[i].id = cand.records[k].id => i = k)
          <=> \A i \in DOMAIN env.records : env.records[i].id # r
  <2>1. \A i, k \in DOMAIN env.records : env.records[i].id = env.records[k].id => i = k
    BY DEF StreamOK, ValidateReplay
  <2> QED
    BY <1>3, <1>5, <2>1, IdsStayUnique
<1>10. j.ev[r] = Absent <=> \A i \in DOMAIN env.records : env.records[i].id # r
  BY AbsentMeansNone DEF ReplayOf
<1>11. RiskOf(cand) = RiskOf(env) \cup {y} /\ RiskOf(cand) = ToSet(cand.risk_events)
  BY <1>2 DEF Grown, RiskOf
<1>12. \A t \in ToSet(cand.records) : PreparedFits(cand, t)
  <2>1. \A s \in ToSet(env.records) : PreparedFits(cand, s)
    BY <1>3, <1>7
  <2>2. y.seq + 1 = new.events[1].seq
    BY <1>1, <1>2, <1>3, <1>4
  <2>3. PreparedFits(cand, new)
    BY <1>4, <1>11, <2>2 DEF PreparedFits
  <2> QED
    BY <1>3, <2>1, <2>3
<1> DEFINE Granting == \E g \in j.grants : g.nonce = n /\ g.rec = r /\ g.blockers = BlockerRows(j)
<1>13. ConsumptionFits(cand, y) <=> Granting /\ n \notin j.spent
  <2>1. y.seq - 1 = EventCount(env) /\ x.seq = y.seq + 1
    BY <1>1, <1>2, <1>4
  <2>2. ReplayedTo(cand, y.seq - 1) = j
    BY <1>6, <2>1
  <2>3. \E t \in ToSet(cand.records) : t.id = y.action.grant.rec /\ t.events[1].seq = y.seq + 1
    BY <1>3, <1>4, <2>1
  <2> HIDE DEF j
  <2> QED
    BY <1>4, <2>2, <2>3 DEF ConsumptionFits
<1>14. (\A e \in ToSet(cand.risk_events) :
            IF e.action.kind = "Granted" THEN GrantFits(cand, e) ELSE ConsumptionFits(cand, e))
          <=> ConsumptionFits(cand, y)
  BY <1>4, <1>7, <1>11
<1>15. ValidateReplay(cand) <=> Granting /\ n \notin j.spent /\ j.ev[r] = Absent
  <2> HIDE DEF j, Granting
  <2> QED
    BY <1>6, <1>8, <1>9, <1>10, <1>12, <1>13, <1>14 DEF ValidateReplay
<1>16. ValidateReplay(cand)
          <=> \E g \in j.grants : g.nonce = n /\ g.rec = r /\ CanAppendConsumption(j, g)
  <2> HIDE DEF j
  <2> QED
    BY <1>15 DEF CanAppendConsumption
<1>17. ASSUME ValidateReplay(cand) PROVE StreamOK(cand)
  BY <1>2, <1>3, <1>17 DEF StreamOK, Grown
<1>18. ASSUME NEW g \in j.grants, g.nonce = n, g.rec = r
       PROVE  Replayed(cand) = AppendConsumption(j, g)
  <2>1. LatestOf(EventsOf(env, r) \cup {x}) = Prepared
    BY <1>3, LatestAdded
  <2>2. j \in Journal
    BY ReplayType
  <2>3. ReplaysTo(env, cand, r, Prepared, GrantsOf({y}), SpentOf({y}))
    <3>1. PICK c \in {1, 2} : c = 2
      OBVIOUS
    <3>2. Grown(env, cand, r, {x}, {y}, c)
      BY <1>2, <3>1
    <3> QED
      BY <2>1, <3>2, ReplayGrown
  <2>4. ReplayOf(cand) = [ev |-> [j.ev EXCEPT ![r] = Prepared],
                          grants |-> j.grants, spent |-> j.spent \cup {n}]
    BY <1>4, <2>3 DEF ReplaysTo
  <2> HIDE DEF j
  <2>5. AppendConsumption(j, g)
          = [ev |-> [j.ev EXCEPT ![r] = Prepared], grants |-> j.grants, spent |-> j.spent \cup {n}]
    <3>1. g \in Grant
      BY <1>18, <2>2 DEF Journal
    <3> QED
      BY <1>18, <2>2, <3>1, ConsumptionForm
  <2> QED
    BY <1>6, <2>4, <2>5
<1> QED
  BY <1>6, <1>16, <1>17, <1>18

-----------------------------------------------------------------------------
(* The theorems about the stored stream.                                   *)

\* The state replayed to the end is what all events together say.
LEMMA ReplayedIs ==
    ASSUME NEW env, StreamOK(env)
    PROVE  Replayed(env) = ReplayOf(env) /\ Replayed(env) \in Journal
<1>1. Replayed(env) = ReplayOf(env)
  BY StreamNumbers, WholeReplay DEF StreamOK, Replayed
<1> QED
  BY <1>1, ReplayType

\* The blockers a caller may have seen are rows of blockers.
LEMMA SeenAreRows ==
    ASSUME StreamOK(envelope)
    PROVE  SeenBlockers \subseteq SUBSET BlockerRow
<1>1. BlockerRows(Replayed(envelope)) \in SUBSET BlockerRow
  BY ReplayedIs, BlockerRowsType
<1> QED
  BY <1>1 DEF SeenBlockers

\* An envelope without events.
LEMMA EmptyStream ==
    /\ StreamOK(EmptyEnvelope) /\ Replayed(EmptyEnvelope) = EmptyJournal
<1> DEFINE env == EmptyEnvelope
<1>1. env \in Envelopes /\ env.records = <<>> /\ env.risk_events = <<>>
  BY DEF EmptyEnvelope, Envelopes
<1>2. DOMAIN env.records = {} /\ DOMAIN env.risk_events = {}
  BY <1>1
<1>3. ToSet(env.records) = {} /\ ToSet(env.risk_events) = {}
  BY <1>2 DEF ToSet
<1>4. Places(env) = {}
  BY <1>2, PlacesByIndex
<1>5. IsFiniteSet(Places(env)) /\ EventCount(env) = 0
  BY <1>4, FS_EmptySet DEF EventCount
<1>6. Contiguous(env)
  <2>1. SeqsUsed(env) = {}
    BY <1>4 DEF SeqsUsed
  <2>2. 1..0 = {}
    OBVIOUS
  <2> QED
    BY <1>5, <2>1, <2>2 DEF Contiguous
<1>7. ValidateReplay(env)
  BY <1>2, <1>3, <1>6 DEF ValidateReplay
<1>8. StreamOK(env)
  BY <1>1, <1>2, <1>5, <1>7 DEF StreamOK, Increasing
<1>9. ReplayOf(env) = EmptyJournal
  <2>1. ASSUME NEW r \in Records PROVE LatestOf(EventsOf(env, r)) = Absent
    BY <1>2, <1>8, AbsentMeansNone
  <2>2. RiskOf(env) = {}
    BY <1>3 DEF RiskOf
  <2> QED
    BY <2>1, <2>2 DEF ReplayOf, EmptyJournal
<1> QED
  BY <1>8, <1>9, ReplayedIs

\* What one operation on a valid stream does to the ledger it stands for.
Implemented(j, k) ==
    \/ \E r \in Records : CanAppendPrepared(j, r) /\ k = AppendPrepared(j, r)
    \/ \E r \in Records, e \in Evidence :
          CanAppendDelivery(j, r, e) /\ k = AppendDelivery(j, r, e)
    \/ \E n \in Nonces, r \in Records :
          LET g == TheGrant(n, r, BlockerRows(j)) IN CanAppendGrant(j, g) /\ k = AppendGrant(j, g)
    \/ \E g \in j.grants : CanAppendConsumption(j, g) /\ k = AppendConsumption(j, g)

\* Every operation keeps the stream valid and appends to the ledger.
LEMMA StreamStep ==
    ASSUME StreamOK(envelope), StreamNext
    PROVE  StreamOK(envelope') /\ Implemented(Replayed(envelope), Replayed(envelope'))
<1> DEFINE j == Replayed(envelope)
<1>1. ASSUME NEW r \in Records, AppendPreparedOp(r)
      PROVE  StreamOK(envelope') /\ Implemented(j, Replayed(envelope'))
  <2>1. envelope' = WithPrepared(envelope, r) /\ ValidateReplay(envelope')
    BY <1>1 DEF AppendPreparedOp, Keep
  <2>2. StreamOK(envelope') /\ CanAppendPrepared(j, r) /\ Replayed(envelope') = AppendPrepared(j, r)
    BY <2>1, PreparedJudged
  <2> QED
    BY <2>2 DEF Implemented
<1>2. ASSUME NEW k \in DOMAIN envelope.records, NEW e \in OfferedEvidence, AppendDeliveryOp(k, e)
      PROVE  StreamOK(envelope') /\ Implemented(j, Replayed(envelope'))
  <2>1. envelope' = WithDelivery(envelope, k, e) /\ ValidateReplay(envelope') /\ e \in Evidence
    BY <1>2 DEF AppendDeliveryOp, Keep, OfferedEvidence
  <2>2. PICK r \in Records : r = envelope.records[k].id
    BY EventTypes DEF StreamOK
  <2>3. /\ StreamOK(envelope') /\ CanAppendDelivery(j, r, e)
        /\ Replayed(envelope') = AppendDelivery(j, r, e)
    BY <2>1, <2>2, DeliveryJudged
  <2> QED
    BY <2>1, <2>3 DEF Implemented
<1>3. ASSUME NEW n \in Nonces, NEW r \in Records, NEW b \in SeenBlockers, AppendRiskGrant(n, r, b)
      PROVE  StreamOK(envelope') /\ Implemented(j, Replayed(envelope'))
  <2>1. envelope' = WithGrant(envelope, n, r, b) /\ ValidateReplay(envelope')
    BY <1>3 DEF AppendRiskGrant, Keep
  <2>2. b \in SUBSET BlockerRow
    BY SeenAreRows
  <2>3. PICK g : g = TheGrant(n, r, b)
    OBVIOUS
  <2>4. StreamOK(envelope') /\ CanAppendGrant(j, g) /\ Replayed(envelope') = AppendGrant(j, g)
    BY <2>1, <2>2, <2>3, GrantJudged
  <2>5. b = BlockerRows(j)
    BY <2>3, <2>4 DEF CanAppendGrant, TheGrant
  <2> QED
    BY <2>3, <2>4, <2>5 DEF Implemented
<1>4. ASSUME NEW n \in Nonces, NEW r \in Records, AppendConsumptionAndPrepared(n, r)
      PROVE  StreamOK(envelope') /\ Implemented(j, Replayed(envelope'))
  <2>1. envelope' = WithConsumption(envelope, n, r) /\ ValidateReplay(envelope')
    BY <1>4 DEF AppendConsumptionAndPrepared, Keep
  <2>2. /\ StreamOK(envelope')
        /\ \E g \in j.grants : g.nonce = n /\ g.rec = r /\ CanAppendConsumption(j, g)
        /\ \A g \in j.grants : g.nonce = n /\ g.rec = r => Replayed(envelope') = AppendConsumption(j, g)
    BY <2>1, ConsumptionJudged
  <2> HIDE DEF j
  <2> QED
    BY <2>2 DEF Implemented
<1> QED
  BY <1>1, <1>2, <1>3, <1>4 DEF StreamNext

(* The stream stays valid, and its numbers are the order of its events.    *)
THEOREM StreamInvariant == StreamSpec => []StreamOK(envelope)
<1>1. StreamInit => StreamOK(envelope)
  BY EmptyStream DEF StreamInit
<1>2. StreamOK(envelope) /\ [StreamNext]_envelope => StreamOK(envelope')
  BY StreamStep
<1>3. StreamOK(envelope') <=> StreamOK(envelope)'
  OBVIOUS
<1> QED
  BY <1>1, <1>2, <1>3, PTL DEF StreamSpec

\* Whether validate_replay accepts, and whether the rules do, is true or false.
LEMMA Judgements ==
    /\ \A env : ValidateReplay(env) \in BOOLEAN
    /\ \A j, r : CanAppendPrepared(j, r) \in BOOLEAN
    /\ \A j, r, e : CanAppendDelivery(j, r, e) \in BOOLEAN
    /\ \A j, g : CanAppendGrant(j, g) \in BOOLEAN
  BY DEF ValidateReplay, CanAppendPrepared, CanAppendDelivery, CanAppendGrant

\* Equivalent formulas are equal values.
LEMMA SameJudgement ==
    ASSUME NEW p \in BOOLEAN, NEW q \in BOOLEAN, p <=> q
    PROVE  p = q
  OBVIOUS

\* In a valid stream validate_replay accepts what the rules accept.
LEMMA StreamAcceptsRules ==
    ASSUME StreamOK(envelope)
    PROVE  AcceptsExactly
<1> DEFINE j == Replayed(envelope)
<1> DEFINE ids == {envelope.records[k].id : k \in DOMAIN envelope.records}
<1>1. ASSUME NEW r \in Records
      PROVE  ValidateReplay(WithPrepared(envelope, r)) = CanAppendPrepared(j, r)
  <2>1. ValidateReplay(WithPrepared(envelope, r)) <=> CanAppendPrepared(j, r)
    BY PreparedJudged
  <2> QED
    BY <2>1, Judgements, SameJudgement, Zenon
<1>2. ASSUME NEW r \in ids, NEW e \in OfferedEvidence
      PROVE  LET k == CHOOSE i \in DOMAIN envelope.records : envelope.records[i].id = r IN
             ValidateReplay(WithDelivery(envelope, k, e)) = CanAppendDelivery(j, r, e)
  <2>1. PICK k : k = CHOOSE i \in DOMAIN envelope.records : envelope.records[i].id = r
    OBVIOUS
  <2>2. k \in DOMAIN envelope.records /\ r = envelope.records[k].id
    BY <2>1
  <2>3. e \in Evidence
    BY DEF OfferedEvidence
  <2>4. ValidateReplay(WithDelivery(envelope, k, e)) <=> CanAppendDelivery(j, r, e)
    BY <2>2, <2>3, DeliveryJudged
  <2>5. ValidateReplay(WithDelivery(envelope, k, e)) = CanAppendDelivery(j, r, e)
    BY <2>4, Judgements, SameJudgement, Zenon
  <2> QED
    BY <2>1, <2>5, Zenon
<1>3. ASSUME NEW n \in Nonces, NEW r \in Records, NEW b \in SeenBlockers
      PROVE  ValidateReplay(WithGrant(envelope, n, r, b))
                = CanAppendGrant(j, [nonce |-> n, rec |-> r, blockers |-> b])
  <2>1. b \in SUBSET BlockerRow
    BY SeenAreRows
  <2>2. ValidateReplay(WithGrant(envelope, n, r, b)) <=> CanAppendGrant(j, TheGrant(n, r, b))
    BY <2>1, GrantJudged
  <2>3. ValidateReplay(WithGrant(envelope, n, r, b)) = CanAppendGrant(j, TheGrant(n, r, b))
    BY <2>2, Judgements, SameJudgement, Zenon
  <2> QED
    BY <2>3, Zenon DEF TheGrant
<1>4. ASSUME NEW n \in Nonces, NEW r \in Records
      PROVE  ValidateReplay(WithConsumption(envelope, n, r))
                = \E g \in j.grants : g.nonce = n /\ g.rec = r /\ CanAppendConsumption(j, g)
  <2>1. ValidateReplay(WithConsumption(envelope, n, r))
           <=> \E g \in j.grants : g.nonce = n /\ g.rec = r /\ CanAppendConsumption(j, g)
    BY ConsumptionJudged
  <2>2. ValidateReplay(WithConsumption(envelope, n, r)) \in BOOLEAN
    BY Judgements
  <2> QED
    BY <2>1, <2>2, Zenon
<1> HIDE DEF j
<1> QED
  BY <1>1, <1>2, <1>3, <1>4, Zenon DEF AcceptsExactly, j

(* validate_replay of a candidate accepts exactly the appends whose guard  *)
(* holds in the replayed ledger, whatever the stream holds.                *)
THEOREM StreamAccepts == StreamSpec => []AcceptsExactly
  BY StreamInvariant, StreamAcceptsRules, PTL

-----------------------------------------------------------------------------
(* The refinement.                                                         *)

\* The ledger's operators, as the instance names them.
LEMMA LedgerRules ==
    /\ Ledger!EmptyJournal = EmptyJournal
    /\ \A j, r : Ledger!CanAppendPrepared(j, r) <=> CanAppendPrepared(j, r)
    /\ \A j, r, e : Ledger!CanAppendDelivery(j, r, e) <=> CanAppendDelivery(j, r, e)
    /\ \A j, g : Ledger!CanAppendGrant(j, g) <=> CanAppendGrant(j, g)
    /\ \A j, g : Ledger!CanAppendConsumption(j, g) <=> CanAppendConsumption(j, g)
    /\ \A j, r : Ledger!AppendPrepared(j, r) = AppendPrepared(j, r)
    /\ \A j, r, e : Ledger!AppendDelivery(j, r, e) = AppendDelivery(j, r, e)
    /\ \A j, g : Ledger!AppendGrant(j, g) = AppendGrant(j, g)
    /\ \A j, g : Ledger!AppendConsumption(j, g) = AppendConsumption(j, g)
    /\ \A j : Ledger!BlockerRows(j) = BlockerRows(j)
<1>1. Ledger!Absent = Absent /\ Ledger!Prepared = Prepared
  BY DEF Ledger!Absent, Absent, Ledger!Prepared, Prepared, Ledger!Ev, Ev
<1>2. \A j : Ledger!Blocking(j) = Blocking(j)
  BY Zenon DEF Ledger!Blocking, Blocking, Ledger!IsBlocking, IsBlocking,
               Ledger!BlockingTags, BlockingTags
<1>3. \A j : Ledger!BlockerRows(j) = BlockerRows(j)
  BY <1>2, Zenon DEF Ledger!BlockerRows, BlockerRows
<1>4. Ledger!Evidence = Evidence
  BY Zenon DEF Ledger!Evidence, Evidence, Ledger!EvidenceTags, EvidenceTags,
               Ledger!BlockingTags, BlockingTags, Ledger!TerminalTags, TerminalTags,
               Ledger!AttemptTags, AttemptTags, Ledger!WellFormed, WellFormed
<1>5. \A p, n : Ledger!ValidDeliveryTransition(p, n) <=> ValidDeliveryTransition(p, n)
  BY Zenon DEF Ledger!ValidDeliveryTransition, ValidDeliveryTransition,
               Ledger!AttemptStarted, AttemptStarted, Ledger!Ev, Ev,
               Ledger!AttemptTags, AttemptTags, Ledger!EndpointTags, EndpointTags,
               Ledger!VerifiedTags, VerifiedTags
<1>6. Ledger!EmptyJournal = EmptyJournal
  BY <1>1 DEF Ledger!EmptyJournal, EmptyJournal
<1>7. \A j, r : Ledger!CanAppendPrepared(j, r) <=> CanAppendPrepared(j, r)
  BY <1>1, <1>2 DEF Ledger!CanAppendPrepared, CanAppendPrepared
<1>8. \A j, r, e : Ledger!CanAppendDelivery(j, r, e) <=> CanAppendDelivery(j, r, e)
  BY <1>1, <1>4, <1>5 DEF Ledger!CanAppendDelivery, CanAppendDelivery
<1>9. \A j, g : Ledger!CanAppendGrant(j, g) <=> CanAppendGrant(j, g)
  BY <1>3 DEF Ledger!CanAppendGrant, CanAppendGrant
<1>10. \A j, g : Ledger!CanAppendConsumption(j, g) <=> CanAppendConsumption(j, g)
  BY <1>1, <1>3 DEF Ledger!CanAppendConsumption, CanAppendConsumption
<1>11. /\ \A j, r : Ledger!AppendPrepared(j, r) = AppendPrepared(j, r)
       /\ \A j, g : Ledger!AppendConsumption(j, g) = AppendConsumption(j, g)
  BY <1>1, Zenon DEF Ledger!AppendPrepared, AppendPrepared, Ledger!AppendConsumption, AppendConsumption
<1>12. /\ \A j, r, e : Ledger!AppendDelivery(j, r, e) = AppendDelivery(j, r, e)
       /\ \A j, g : Ledger!AppendGrant(j, g) = AppendGrant(j, g)
  BY Zenon DEF Ledger!AppendDelivery, AppendDelivery, Ledger!AppendGrant, AppendGrant
<1> QED
  BY <1>3, <1>6, <1>7, <1>8, <1>9, <1>10, <1>11, <1>12

\* Legal evidence is evidence a caller of the ledger may offer.
LEMMA LegalIsOffered ==
    ASSUME NEW e \in Evidence, NEW p, ValidDeliveryTransition(p, e)
    PROVE  e \in Ledger!Offers
<1>1. /\ e.tag \in EvidenceTags /\ e.attempt \in 0..MaxAttemptNo
      /\ e = Ev(e.tag, e.attempt) /\ WellFormed(e)
  BY DEF Evidence, Ev
<1>2. e.tag # "Prepared"
  BY DEF ValidDeliveryTransition, AttemptStarted, Ev, EndpointTags, VerifiedTags
<1>3. CASE e.tag \in AttemptTags
  <2>1. e.attempt \in 1..MaxAttemptNo
    BY <1>1, <1>3 DEF WellFormed
  <2> QED
    BY <1>1, <1>3, <2>1 DEF Ledger!Offers, Ledger!Ev, Ev, Ledger!AttemptTags, AttemptTags
<1>4. CASE e.tag \notin AttemptTags
  <2>1. e.attempt = 0
    BY <1>1, <1>4 DEF WellFormed
  <2> QED
    BY <1>1, <1>2, <1>4, <2>1
       DEF Ledger!Offers, Ledger!Ev, Ev, Ledger!AttemptTags, AttemptTags,
           Ledger!EvidenceTags, EvidenceTags,
           Ledger!BlockingTags, BlockingTags, Ledger!TerminalTags, TerminalTags
<1> QED
  BY <1>3, <1>4

\* A step of the stream is a step of the ledger.
LEMMA LedgerStep ==
    ASSUME Implemented(Replayed(envelope), Replayed(envelope)')
    PROVE  Ledger!Next
<1> DEFINE j == Replayed(envelope)
<1> DEFINE k == Replayed(envelope)'
<1>1. ASSUME NEW r \in Records, CanAppendPrepared(j, r), k = AppendPrepared(j, r)
      PROVE  Ledger!Next
  BY <1>1, LedgerRules DEF Ledger!Next, Ledger!Prepare
<1>2. ASSUME NEW r \in Records, NEW e \in Evidence,
             CanAppendDelivery(j, r, e), k = AppendDelivery(j, r, e)
      PROVE  Ledger!Next
  <2>1. e \in Ledger!Offers
    BY <1>2, LegalIsOffered DEF CanAppendDelivery
  <2>2. Ledger!Deliver(r, e)
    BY <1>2, LedgerRules DEF Ledger!Deliver
  <2> QED
    BY <2>1, <2>2 DEF Ledger!Next
<1>3. ASSUME NEW n \in Nonces, NEW r \in Records, NEW g, g = TheGrant(n, r, BlockerRows(j)),
             CanAppendGrant(j, g), k = AppendGrant(j, g)
      PROVE  Ledger!Next
  <2>1. g = [nonce |-> n, rec |-> r, blockers |-> Ledger!BlockerRows(j)]
    BY <1>3, LedgerRules DEF TheGrant
  <2>2. Ledger!IssueGrant(g)
    BY <1>3, LedgerRules DEF Ledger!IssueGrant
  <2> QED
    BY <2>1, <2>2 DEF Ledger!Next
<1>4. ASSUME NEW g \in j.grants, CanAppendConsumption(j, g), k = AppendConsumption(j, g)
      PROVE  Ledger!Next
  <2>1. Ledger!PrepareOverride(g)
    BY <1>4, LedgerRules DEF Ledger!PrepareOverride
  <2> QED
    BY <2>1 DEF Ledger!Next
<1> HIDE DEF j, k
<1> QED
  BY <1>1, <1>2, <1>3, <1>4 DEF Implemented, j, k

(* The stored stream implements the ledger: every append that              *)
(* validate_replay lets through is one of the ledger's, with its guard.    *)
THEOREM StreamImplementsLedger == StreamSpec => ImplementsLedger
<1>1. StreamInit => Ledger!Init
  BY EmptyStream, LedgerRules DEF StreamInit, Ledger!Init
<1>2. StreamOK(envelope) /\ [StreamNext]_envelope => [Ledger!Next]_(Replayed(envelope))
  <2> SUFFICES ASSUME StreamOK(envelope), [StreamNext]_envelope
               PROVE  [Ledger!Next]_(Replayed(envelope))
    OBVIOUS
  <2>1. CASE StreamNext
    <3>1. Implemented(Replayed(envelope), Replayed(envelope'))
      BY <2>1, StreamStep
    <3>2. Replayed(envelope') = Replayed(envelope)'
      OBVIOUS
    <3>3. Ledger!Next
      BY <3>1, <3>2, LedgerStep
    <3> QED
      BY <3>3
  <2>2. CASE UNCHANGED envelope
    BY <2>2
  <2> QED
    BY <2>1, <2>2
<1> QED
  BY <1>1, <1>2, StreamInvariant, PTL DEF StreamSpec, ImplementsLedger, Ledger!Spec
=============================================================================
