------------------------- MODULE JournalRulesProofs -------------------------
(***************************************************************************)
(* Facts about the Journal's appends, for every set of records and nonces: *)
(* what each append returns, that it keeps the Journal well formed, and    *)
(* that it keeps unresolved records pairwise granted.                      *)
(***************************************************************************)
EXTENDS JournalRules, TLAPS

(* DeliveryEvidence::validate accepts every evidence value the handlers    *)
(* build.                                                                  *)
LEMMA BuiltEvidence ==
    /\ Prepared \in Evidence
    /\ NotBroadcast \in Evidence
    /\ \A n \in 1..MaxAttemptNo :
          /\ AttemptStarted(n) \in Evidence
          /\ MayHaveBroadcast(n) \in Evidence
          /\ NodeResponseObserved(n) \in Evidence
    /\ \A t \in EndpointTags \cup VerifiedTags : Ev(t, 0) \in Evidence
  BY MaxAttemptNoAssumption
     DEF Prepared, NotBroadcast, AttemptStarted, MayHaveBroadcast,
         NodeResponseObserved, Ev, Evidence, WellFormed, EvidenceTags,
         BlockingTags, TerminalTags, AttemptTags, EndpointTags, VerifiedTags

(* The rows under blocker_set_digest are blocker rows of the Journal.      *)
LEMMA BlockerRowsType ==
    ASSUME NEW j \in Journal
    PROVE  /\ BlockerRows(j) \in SUBSET BlockerRow
           /\ \A r \in Blocking(j) : \E b \in BlockerRows(j) : b.rec = r
  <1>1. BlockerRows(j) \in SUBSET BlockerRow
    BY DEF BlockerRows, BlockerRow, Blocking, IsBlocking
  <1>2. ASSUME NEW r \in Blocking(j)
        PROVE  \E b \in BlockerRows(j) : b.rec = r
    <2>1. [rec |-> r, tag |-> j.ev[r].tag] \in BlockerRows(j)
      BY DEF BlockerRows
    <2> QED
      BY <2>1
  <1> QED
    BY <1>1, <1>2

(* append_prepared: the new record blocks, all others are as they were.    *)
LEMMA AppendPreparedFacts ==
    ASSUME NEW j \in Journal, NEW r \in Records
    PROVE  LET k == AppendPrepared(j, r)
           IN  /\ k \in Journal
               /\ k.ev[r] = Prepared
               /\ \A s \in Records \ {r} : k.ev[s] = j.ev[s]
               /\ k.grants = j.grants /\ k.spent = j.spent
  BY BuiltEvidence DEF AppendPrepared, Journal

(* append_delivery: only the named record's evidence changes.              *)
LEMMA AppendDeliveryFacts ==
    ASSUME NEW j \in Journal, NEW r \in Records, NEW e \in Evidence
    PROVE  LET k == AppendDelivery(j, r, e)
           IN  /\ k \in Journal
               /\ k.ev[r] = e
               /\ \A s \in Records \ {r} : k.ev[s] = j.ev[s]
               /\ k.grants = j.grants /\ k.spent = j.spent
  BY DEF AppendDelivery, Journal

(* append_risk_grant: no record changes.                                   *)
LEMMA AppendGrantFacts ==
    ASSUME NEW j \in Journal, NEW g \in Grant
    PROVE  LET k == AppendGrant(j, g)
           IN  /\ k \in Journal
               /\ k.ev = j.ev
               /\ k.grants = j.grants \cup {g} /\ k.spent = j.spent
  BY DEF AppendGrant, Journal

(* append_consumption_and_prepared: one record and one spent nonce.        *)
LEMMA AppendConsumptionFacts ==
    ASSUME NEW j \in Journal, NEW g \in Grant
    PROVE  LET k == AppendConsumption(j, g)
           IN  /\ k \in Journal
               /\ k.ev[g.rec] = Prepared
               /\ \A s \in Records \ {g.rec} : k.ev[s] = j.ev[s]
               /\ k.grants = j.grants
               /\ k.spent = j.spent \cup {g.nonce}
  BY BuiltEvidence DEF AppendConsumption, Journal, Grant

(* A Journal that blocks no more records than another and forgets none of  *)
(* its grants is pairwise granted when the other is.                       *)
LEMMA GrantedStaysGranted ==
    ASSUME NEW j \in Journal, NEW k \in Journal, PairwiseGranted(j),
           Blocking(k) \subseteq Blocking(j),
           j.grants \subseteq k.grants, j.spent \subseteq k.spent
    PROVE  PairwiseGranted(k)
  BY DEF PairwiseGranted, GrantedBeside

(* valid_delivery_transition only leaves evidence that blocks.             *)
LEMMA TransitionsLeaveBlocking ==
    ASSUME NEW p, NEW n, ValidDeliveryTransition(p, n)
    PROVE  IsBlocking(p.tag)
  BY DEF ValidDeliveryTransition, IsBlocking, BlockingTags, AttemptTags,
         EndpointTags

(* An accepted ordinary record is the only unresolved one.                 *)
LEMMA PreparedKeepsGranted ==
    ASSUME NEW j \in Journal, NEW r \in Records, CanAppendPrepared(j, r)
    PROVE  PairwiseGranted(AppendPrepared(j, r))
  <1>1. Blocking(AppendPrepared(j, r)) \subseteq {r}
    BY AppendPreparedFacts DEF CanAppendPrepared, Blocking
  <1> QED
    BY <1>1 DEF PairwiseGranted

(* Accepted evidence never makes another record block.                     *)
LEMMA DeliveryKeepsGranted ==
    ASSUME NEW j \in Journal, NEW r \in Records, NEW e,
           CanAppendDelivery(j, r, e), PairwiseGranted(j)
    PROVE  /\ AppendDelivery(j, r, e) \in Journal
           /\ PairwiseGranted(AppendDelivery(j, r, e))
  <1> DEFINE k == AppendDelivery(j, r, e)
  <1>1. e \in Evidence /\ r \in Blocking(j)
    BY TransitionsLeaveBlocking DEF CanAppendDelivery, Blocking
  <1>2. k \in Journal /\ Blocking(k) \subseteq Blocking(j)
        /\ k.grants = j.grants /\ k.spent = j.spent
    BY <1>1, AppendDeliveryFacts DEF Blocking
  <1> QED
    BY <1>2, GrantedStaysGranted

(* A grant adds no record.                                                 *)
LEMMA GrantKeepsGranted ==
    ASSUME NEW j \in Journal, NEW g \in Grant, PairwiseGranted(j)
    PROVE  PairwiseGranted(AppendGrant(j, g))
  BY AppendGrantFacts, GrantedStaysGranted DEF Blocking

(* A record let in by a grant stands beside exactly the records the grant  *)
(* names.                                                                  *)
LEMMA ConsumptionKeepsGranted ==
    ASSUME NEW j \in Journal, NEW g \in Grant,
           CanAppendConsumption(j, g), PairwiseGranted(j)
    PROVE  PairwiseGranted(AppendConsumption(j, g))
  <1> DEFINE k == AppendConsumption(j, g)
  <1>1. /\ k \in Journal /\ k.grants = j.grants
        /\ k.spent = j.spent \cup {g.nonce}
        /\ Blocking(k) \subseteq Blocking(j) \cup {g.rec}
    BY AppendConsumptionFacts DEF Blocking
  <1>2. g.rec \in Records /\ g \in k.grants /\ g.nonce \in k.spent
    BY <1>1 DEF CanAppendConsumption, Grant
  <1>3. \A s \in Blocking(j) : GrantedBeside(k, g.rec, s)
    BY <1>2, BlockerRowsType DEF CanAppendConsumption, GrantedBeside
  <1>4. \A r, s \in Blocking(j) : GrantedBeside(j, r, s) => GrantedBeside(k, r, s)
    BY <1>1 DEF GrantedBeside
  <1> QED
    BY <1>1, <1>3, <1>4 DEF PairwiseGranted
=============================================================================
