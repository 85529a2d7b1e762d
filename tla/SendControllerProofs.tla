------------------------ MODULE SendControllerProofs ------------------------
(***************************************************************************)
(* The controller's safety properties, for every set of records, every     *)
(* route length, every message time and every number of sessions.          *)
(*                                                                         *)
(* AttemptIsDurableFirst, SettledMeansFinal and DoubleDebitNeedsGrant are  *)
(* not inductive.  The strengthening IInv says what a Journal - the one on *)
(* disk, and the one in memory while unlocked - owes to the messages that  *)
(* reached a socket or may reach one (Sound), and who owns an attempt that *)
(* has no outcome yet (Owned).  AppendsAreAccepted needs, besides, what    *)
(* the session's own fields promise while a ticket travels from the dialog *)
(* to the Journal (Accepting: KnownTickets, OneSend, ReviewHolds).         *)
(***************************************************************************)
EXTENDS SendController, JournalRulesProofs

\* Records whose message reached a socket or has a broadcast task.
Touched == wire \cup {c.rec : c \in calls}

\* Records whose message can no longer be executed for the first time.
Final == {r \in Records : executed[r] # "no" \/ CreatedAt[r] <= guard}

\* What Journal j owes to touched records R and final records F.
Sound(j, R, F) ==
    /\ j \in Journal
    /\ PairwiseGranted(j)
    /\ \A r \in R : j.ev[r].tag \in Attempted
    /\ \A r \in Records : j.ev[r].tag \in EndpointTags \cup VerifiedTags => r \in F

\* An attempt without an outcome belongs to one task of this session, and its
\* message is on the wire only if that task put it there.
Owned ==
    Unlocked => \A c \in calls :
        mem.ev[c.rec].tag = "AttemptStarted" =>
            /\ Live(c)
            /\ mem.ev[c.rec].attempt = c.idx + 1
            /\ \A d \in calls : d.rec = c.rec => d = c
            /\ c.rec \in wire => c.st \in {"sent", "may_have", "response"}

HealthyMeansSaved == Unlocked /\ health = "Ready" => mem = disk

\* Tasks carry the generation of the session that spawned them.
Generations ==
    /\ \A p \in prepares : p.gen <= session /\ (Live(p) => Unlocked)
    /\ \A c \in calls : c.gen <= session /\ (Live(c) => Unlocked)

IInv ==
    /\ TypeOK
    /\ HealthyMeansSaved
    /\ Sound(disk, Touched, Final)
    /\ Unlocked => Sound(mem, Touched, Final)
    /\ Owned

-----------------------------------------------------------------------------
(* Recovery keeps the Journal well formed and settles open attempts.       *)
LEMMA RecoveredFacts ==
    ASSUME NEW j \in Journal
    PROVE  LET k == Recovered(j)
           IN  /\ k \in Journal
               /\ \A r \in Records : k.ev[r] = RecoveredEvidence(j.ev[r])
               /\ k.grants = j.grants /\ k.spent = j.spent
  <1>1. ASSUME NEW e \in Evidence \cup {Absent}
        PROVE  RecoveredEvidence(e) \in Evidence \cup {Absent}
    BY BuiltEvidence DEF RecoveredEvidence, Evidence, WellFormed, AttemptTags,
       MayHaveBroadcast, Ev, Absent, EvidenceTags, BlockingTags, TerminalTags,
       VerifiedTags
  <1> QED
    BY <1>1 DEF Recovered, Journal

(* A Journal stays sound when fewer records are touched or more are final. *)
LEMMA SoundMonotone ==
    ASSUME NEW j, NEW R, NEW F, NEW S, NEW G, Sound(j, R, F),
           S \subseteq R, F \subseteq G
    PROVE  Sound(j, S, G)
  BY DEF Sound

(* The tags of open, endpoint-reported and verified evidence are disjoint  *)
(* from the tags of records that were never attempted.                     *)
LEMMA TagFacts ==
    /\ Absent.tag \notin Attempted \cup BlockingTags
    /\ Prepared.tag = "Prepared" /\ Prepared.tag \notin Attempted
    /\ NotBroadcast.tag = "NotBroadcast" /\ NotBroadcast.tag \notin Attempted
    /\ \A n : /\ AttemptStarted(n).tag = "AttemptStarted"
              /\ AttemptStarted(n).attempt = n
              /\ MayHaveBroadcast(n).tag = "MayHaveBroadcast"
              /\ NodeResponseObserved(n).tag = "NodeResponseObserved"
    /\ \A t : Ev(t, 0).tag = t
    /\ AttemptTags \subseteq Attempted
    /\ AttemptTags \cap (EndpointTags \cup VerifiedTags) = {}
    /\ EndpointTags \cup VerifiedTags \subseteq Attempted
    /\ "AttemptStarted" \in AttemptTags
    /\ "MayHaveBroadcast" \in AttemptTags
    /\ "NodeResponseObserved" \in AttemptTags
  BY DEF Absent, Attempted, BlockingTags, Prepared, NotBroadcast, AttemptStarted,
         MayHaveBroadcast, NodeResponseObserved, Ev, AttemptTags, EndpointTags,
         VerifiedTags

(* Evidence keeps a Journal sound when it does not unsay the attempt of a  *)
(* touched record and does not settle a record that is not final.          *)
LEMMA SoundDelivery ==
    ASSUME NEW j, NEW R \in SUBSET Records, NEW F, NEW r \in Records, NEW e,
           Sound(j, R, F), CanAppendDelivery(j, r, e),
           e.tag \in Attempted \/ r \notin R,
           e.tag \in EndpointTags \cup VerifiedTags => r \in F
    PROVE  /\ Sound(AppendDelivery(j, r, e), R, F)
           /\ e.tag \in Attempted => Sound(AppendDelivery(j, r, e), R \cup {r}, F)
  <1> DEFINE k == AppendDelivery(j, r, e)
  <1>1. k \in Journal /\ PairwiseGranted(k)
    BY DeliveryKeepsGranted DEF Sound
  <1>2. k.ev[r] = e /\ \A s \in Records \ {r} : k.ev[s] = j.ev[s]
    BY AppendDeliveryFacts DEF Sound, CanAppendDelivery
  <1> HIDE DEF k
  <1> QED
    BY <1>1, <1>2 DEF Sound, k

(* A new ordinary record was never attempted, so nothing of it is touched. *)
LEMMA SoundPrepared ==
    ASSUME NEW j, NEW R \in SUBSET Records, NEW F, NEW r \in Records,
           Sound(j, R, F), CanAppendPrepared(j, r)
    PROVE  Sound(AppendPrepared(j, r), R, F) /\ r \notin R
  <1> DEFINE k == AppendPrepared(j, r)
  <1>1. k \in Journal /\ PairwiseGranted(k)
    BY AppendPreparedFacts, PreparedKeepsGranted DEF Sound
  <1>2. k.ev[r] = Prepared /\ \A s \in Records \ {r} : k.ev[s] = j.ev[s]
    BY AppendPreparedFacts DEF Sound
  <1>3. r \notin R
    BY TagFacts DEF Sound, CanAppendPrepared
  <1> HIDE DEF k
  <1> QED
    BY <1>1, <1>2, <1>3, TagFacts DEF Sound, k

(* So is a record let in by a grant.                                       *)
LEMMA SoundConsumption ==
    ASSUME NEW j, NEW R \in SUBSET Records, NEW F, NEW g \in Grant,
           Sound(j, R, F), CanAppendConsumption(j, g)
    PROVE  Sound(AppendConsumption(j, g), R, F) /\ g.rec \notin R
  <1> DEFINE k == AppendConsumption(j, g)
  <1>0. g.rec \in Records
    BY DEF Grant
  <1>1. k \in Journal /\ PairwiseGranted(k)
    BY AppendConsumptionFacts, ConsumptionKeepsGranted DEF Sound
  <1>2. k.ev[g.rec] = Prepared /\ \A s \in Records \ {g.rec} : k.ev[s] = j.ev[s]
    BY AppendConsumptionFacts DEF Sound
  <1>3. g.rec \notin R
    BY TagFacts DEF Sound, CanAppendConsumption
  <1> HIDE DEF k
  <1> QED
    BY <1>0, <1>1, <1>2, <1>3, TagFacts DEF Sound, k

(* A grant changes no record.                                              *)
LEMMA SoundGrant ==
    ASSUME NEW j, NEW R, NEW F, NEW g \in Grant, Sound(j, R, F)
    PROVE  Sound(AppendGrant(j, g), R, F)
  BY AppendGrantFacts, GrantKeepsGranted DEF Sound

(* Recovery takes no attempt back, settles only what an endpoint reported, *)
(* and leaves no attempt open.                                             *)
LEMMA SoundRecovered ==
    ASSUME NEW j, NEW R \in SUBSET Records, NEW F, Sound(j, R, F)
    PROVE  /\ Sound(Recovered(j), R, F)
           /\ \A r \in Records : Recovered(j).ev[r].tag # "AttemptStarted"
  <1> DEFINE k == Recovered(j)
  <1>1. /\ k \in Journal /\ j \in Journal
        /\ \A r \in Records : k.ev[r] = RecoveredEvidence(j.ev[r])
        /\ k.grants = j.grants /\ k.spent = j.spent
    BY RecoveredFacts DEF Sound
  <1> HIDE DEF k
  <1>2. \A e :
          /\ e.tag \in Attempted => RecoveredEvidence(e).tag \in Attempted
          /\ RecoveredEvidence(e).tag \in EndpointTags \cup VerifiedTags
                => e.tag \in EndpointTags \cup VerifiedTags
          /\ IsBlocking(RecoveredEvidence(e).tag) => IsBlocking(e.tag)
          /\ RecoveredEvidence(e).tag # "AttemptStarted"
    BY DEF RecoveredEvidence, Attempted, AttemptTags, EndpointTags, VerifiedTags,
           IsBlocking, BlockingTags, NotBroadcast, MayHaveBroadcast, Ev
  <1>3. Blocking(k) \subseteq Blocking(j)
    BY <1>1, <1>2 DEF Blocking
  <1>4. PairwiseGranted(k)
    BY <1>1, <1>3, GrantedStaysGranted DEF Sound
  <1> QED
    BY <1>1, <1>2, <1>4 DEF Sound, k

-----------------------------------------------------------------------------
(* persist_journal_barrier: the file holds what it held or the new Journal,*)
(* and a healthy session has the new one.                                  *)
LEMMA BarrierFacts ==
    ASSUME NEW d, NEW h, NEW j, NEW ok \in BOOLEAN, Barrier(d, h, j, ok)
    PROVE  /\ mem' = j
           /\ disk' \in {d, j}
           /\ health' \in {"Ready", "Failed"}
           /\ health' = "Ready" => disk' = j /\ ok
  BY DEF Barrier

\* What a Finish may do to the Journals j in memory and d on disk.
FinishResult(d, j, r, e) ==
    \/ /\ CanAppendDelivery(j, r, e)
       /\ mem' = AppendDelivery(j, r, e)
       /\ disk' \in {d, AppendDelivery(j, r, e)}
    \/ mem' = j /\ disk' = d /\ health' = "Failed"

(* finish_locally_not_broadcast and finish_blocking_delivery.              *)
LEMMA FinishFacts ==
    ASSUME NEW d, NEW h, NEW j, NEW r, NEW e, NEW f, Finish(d, h, j, r, e, f)
    PROVE  /\ FinishResult(d, j, r, e)
           /\ health' \in {"Ready", "Failed"}
           /\ health' = "Ready" => mem' = disk'
           /\ inflight' \in {f, NoRec}
           /\ sending' \in {sending, FALSE}
           /\ rejected' \in {rejected, TRUE}
  <1>1. CASE CanAppendDelivery(j, r, e)
    <2> DEFINE k == AppendDelivery(j, r, e)
    <2>1. PICK ok \in BOOLEAN : /\ Barrier(d, h, k, ok)
                                /\ ClearInFlight(f, IF ok THEN {r} ELSE {})
      BY <1>1 DEF Finish
    <2>2. UNCHANGED rejected
      BY <1>1 DEF Finish
    <2> HIDE DEF k
    <2>3. /\ mem' = k /\ disk' \in {d, k} /\ health' \in {"Ready", "Failed"}
          /\ health' = "Ready" => disk' = k
      BY <2>1, BarrierFacts
    <2>4. inflight' \in {f, NoRec} /\ sending' \in {sending, FALSE}
      BY <2>1 DEF ClearInFlight
    <2> QED
      BY <1>1, <2>2, <2>3, <2>4 DEF k, FinishResult
  <1>2. CASE ~CanAppendDelivery(j, r, e)
    BY <1>2 DEF Finish, ClearInFlight, AppendRefused, FinishResult
  <1> QED
    BY <1>1, <1>2

\* The broadcast task start_prepared_candidate spawns.
NewCall(r, idx) == [gen |-> session, rec |-> r, idx |-> idx, st |-> "running"]

\* What a StartCandidate may do to the Journals and the tasks.
StartResult(d, j, r, idx, others) ==
    \/ FinishResult(d, j, r, NotBroadcast) /\ calls' = others
    \/ /\ CanAppendDelivery(j, r, AttemptStarted(idx + 1))
       /\ mem' = AppendDelivery(j, r, AttemptStarted(idx + 1))
       /\ \/ disk' \in {d, mem'} /\ calls' = others
          \/ disk' = mem' /\ calls' = others \cup {NewCall(r, idx)}

(* start_prepared_candidate: the message is given up, its new attempt has  *)
(* no durable record and no task, or the attempt is durable and has a task.*)
LEMMA StartCandidateFacts ==
    ASSUME NEW d, NEW h, NEW j, NEW r, NEW idx, NEW f, NEW others,
           StartCandidate(d, h, j, r, idx, f, others)
    PROVE  /\ StartResult(d, j, r, idx, others)
           /\ health' \in {"Ready", "Failed"}
           /\ health' = "Ready" => mem' = disk'
           /\ inflight' \in {f, NoRec}
           /\ sending' \in {sending, FALSE}
           /\ rejected' \in {rejected, TRUE}
           /\ awaiting' \in {awaiting, r}
  <1> DEFINE e == AttemptStarted(idx + 1)
             k == AppendDelivery(j, r, e)
  <1>1. CASE idx >= Candidates \/ r \in expired
    BY <1>1, FinishFacts DEF StartCandidate, StartResult
  <1>2. CASE ~(idx >= Candidates \/ r \in expired) /\ CanAppendDelivery(j, r, e)
    <2>1. PICK ok \in BOOLEAN :
            /\ Barrier(d, h, k, ok)
            /\ IF ok
               THEN awaiting' = r /\ calls' = others \cup {NewCall(r, idx)}
               ELSE calls' = others /\ UNCHANGED awaiting
      BY <1>2 DEF StartCandidate, NewCall
    <2>2. /\ mem' = k /\ disk' \in {d, k} /\ health' \in {"Ready", "Failed"}
          /\ health' = "Ready" => disk' = k
          /\ ok => disk' = k
      BY <2>1, BarrierFacts DEF Barrier
    <2> HIDE DEF k, e
    <2>3. UNCHANGED rejected /\ inflight' \in {f, NoRec} /\ sending' \in {sending, FALSE}
      BY <1>2 DEF StartCandidate, ClearInFlight, e
    <2> QED
      BY <1>2, <2>1, <2>2, <2>3 DEF k, e, StartResult
  <1>3. CASE ~(idx >= Candidates \/ r \in expired) /\ ~CanAppendDelivery(j, r, e)
    BY <1>3 DEF StartCandidate, AppendRefused, ClearInFlight, StartResult,
       FinishResult
  <1> QED
    BY <1>1, <1>2, <1>3

(* start_prepared_candidate spawns at most one task.                       *)
LEMMA StartCalls ==
    ASSUME NEW d, NEW h, NEW j, NEW r, NEW idx, NEW f, NEW others,
           StartCandidate(d, h, j, r, idx, f, others)
    PROVE  calls' \in {others, others \cup {NewCall(r, idx)}}
  <1>1. StartResult(d, j, r, idx, others)
    BY StartCandidateFacts, Zenon
  <1> QED
    BY <1>1 DEF StartResult

(* Both keep the Journals well formed.                                     *)
LEMMA FinishKeepsTypes ==
    ASSUME TypeOK, NEW d \in Journal, NEW j \in Journal, NEW h, NEW r \in Records,
           NEW e, NEW f \in Records \cup {NoRec}, Finish(d, h, j, r, e, f)
    PROVE  /\ mem' \in Journal /\ disk' \in Journal
           /\ health' \in {"Ready", "Failed"}
           /\ inflight' \in Records \cup {NoRec}
           /\ sending' \in BOOLEAN /\ rejected' \in BOOLEAN
  <1>1. CanAppendDelivery(j, r, e) => AppendDelivery(j, r, e) \in Journal
    BY AppendDeliveryFacts DEF CanAppendDelivery
  <1>0. FinishResult(d, j, r, e)
    BY FinishFacts
  <1>2. mem' \in Journal /\ disk' \in Journal
    BY <1>0, <1>1 DEF FinishResult
  <1> QED
    BY <1>2, FinishFacts DEF TypeOK

(* start_prepared_candidate keeps the Journals and the tasks well formed.  *)
LEMMA StartKeepsTypes ==
    ASSUME TypeOK, NEW d \in Journal, NEW j \in Journal, NEW h, NEW r \in Records,
           NEW idx \in Nat, NEW f \in Records \cup {NoRec},
           NEW others \in SUBSET Call,
           StartCandidate(d, h, j, r, idx, f, others)
    PROVE  /\ mem' \in Journal /\ disk' \in Journal
           /\ health' \in {"Ready", "Failed"} /\ calls' \subseteq Call
           /\ {inflight', awaiting'} \subseteq Records \cup {NoRec}
           /\ sending' \in BOOLEAN /\ rejected' \in BOOLEAN
  <1>1. \A e : CanAppendDelivery(j, r, e) => AppendDelivery(j, r, e) \in Journal
    BY AppendDeliveryFacts DEF CanAppendDelivery
  <1>2. NewCall(r, idx) \in Call
    BY DEF TypeOK, Call, OpenStates, NewCall
  <1>0. StartResult(d, j, r, idx, others)
    BY StartCandidateFacts, Zenon
  <1>3. mem' \in Journal /\ disk' \in Journal
    BY <1>0, <1>1 DEF StartResult, FinishResult
  <1>4. calls' \subseteq Call
    BY <1>0, <1>2 DEF StartResult
  <1> QED
    BY <1>3, <1>4, StartCandidateFacts DEF TypeOK

\* The Journal reconcile_endpoint_observations makes of a batch S.
HistoryJournal(S) ==
    [mem EXCEPT !.ev = [r \in Records |->
        IF r \in S \cap Blocking(mem) THEN HistoryTerminal(r) ELSE mem.ev[r]]]

(* It is a Journal.                                                        *)
LEMMA HistoryJournalType ==
    ASSUME TypeOK, NEW S \in SUBSET Records
    PROVE  HistoryJournal(S) \in Journal
  <1>1. \A r \in Records : HistoryTerminal(r) \in Evidence
    BY BuiltEvidence DEF HistoryTerminal, VerifiedTags
  <1> QED
    BY <1>1 DEF TypeOK, HistoryJournal, Journal

-----------------------------------------------------------------------------
(* Every handler, and everything the environment does, keeps the state     *)
(* well typed; in particular both Journals stay Journals.                  *)
LEMMA NextTypeOK == TypeOK /\ [Next]_vars => TypeOK'
  <1> SUFFICES ASSUME TypeOK, [Next]_vars PROVE TypeOK'
    OBVIOUS
  <1> USE DEF TypeOK, session_vars, task_vars, chain_vars
  <1>1. ASSUME NEW r \in Records, RequestSend(r) PROVE TypeOK'
    BY <1>1 DEF RequestSend
  <1>2. ASSUME NEW r \in Records, RequestRiskOverride(r) PROVE TypeOK'
    BY <1>2 DEF RequestRiskOverride
  <1>3. ASSUME NEW b \in BOOLEAN, ConfirmSend(b) PROVE TypeOK'
    <2>1. auth' \in Records \cup {NoRec} /\ sending' \in BOOLEAN
      BY <1>3 DEF ConfirmSend
    <2>2. prepares' \subseteq PrepareTask
      <3>1. auth \in Records
        BY <1>3 DEF ConfirmSend
      <3>2. [gen |-> session, rec |-> auth, risk |-> consumption = auth] \in PrepareTask
        BY <3>1 DEF PrepareTask
      <3> QED
        BY <1>3, <3>2 DEF ConfirmSend
    <2> QED
      BY <1>3, <2>1, <2>2 DEF ConfirmSend
  <1>4. ASSUME NEW b \in BOOLEAN, FinishRiskReconciliation(b) PROVE TypeOK'
    BY <1>4 DEF FinishRiskReconciliation, DropAuthorization, NoReview
  <1>5. ASSUME NEW b \in BOOLEAN, ApplyRiskContext(b) PROVE TypeOK'
    BY <1>5, BlockerRowsType DEF ApplyRiskContext, DropAuthorization, NoReview
  <1>6. CASE CancelAuthorization
    BY <1>6 DEF CancelAuthorization, DropAuthorization, NoReview
  <1>8. CASE Lock
    <2>1. session' \in Nat
      BY <1>8 DEF Lock
    <2> QED
      BY <1>8, <2>1 DEF Lock, ResetSession, DropAuthorization, NoReview
  <1>7. CASE ConfirmRiskOverride
    <2> DEFINE g == [nonce |-> review.rec, rec |-> review.rec,
                     blockers |-> review.blockers]
    <2>1. UNCHANGED <<phase, session, sending, inflight, awaiting, cooled,
                      prepares, calls, drawn, expired, wire, executed, guard>>
      BY <1>7 DEF ConfirmRiskOverride
    <2>2. CASE ~cooled \/ BlockerRows(mem) # review.blockers
      BY <1>7, <2>1, <2>2 DEF ConfirmRiskOverride, DropAuthorization, NoReview
    <2>3. CASE /\ ~(~cooled \/ BlockerRows(mem) # review.blockers)
               /\ ~CanAppendGrant(mem, g)
      BY <1>7, <2>1, <2>3
         DEF ConfirmRiskOverride, DropAuthorization, NoReview, AppendRefused
    <2>4. CASE /\ ~(~cooled \/ BlockerRows(mem) # review.blockers)
               /\ CanAppendGrant(mem, g)
      <3>1. review.rec \in Records /\ review.blockers \in SUBSET BlockerRow
        BY <1>7, <2>4 DEF ConfirmRiskOverride, NoReview, CanAppendGrant
      <3>2. g \in Grant
        BY <3>1, ControllerAssumptions DEF Grant
      <3>3. AppendGrant(mem, g) \in Journal
        BY <3>2, AppendGrantFacts
      <3>4. PICK ok \in BOOLEAN :
              /\ Barrier(disk, health, AppendGrant(mem, g), ok)
              /\ IF ok
                 THEN /\ consumption' = review.rec
                      /\ auth' = review.rec
                      /\ review' = NoReview
                      /\ UNCHANGED riskStage
                 ELSE DropAuthorization
        BY <1>7, <2>4 DEF ConfirmRiskOverride
      <3>5. UNCHANGED rejected
        BY <1>7, <2>4 DEF ConfirmRiskOverride
      <3>6. mem' \in Journal /\ disk' \in Journal /\ health' \in {"Ready", "Failed"}
        BY <3>3, <3>4, BarrierFacts
      <3> QED
        BY <2>1, <3>1, <3>4, <3>5, <3>6 DEF DropAuthorization, NoReview
    <2> QED
      BY <2>2, <2>3, <2>4
  <1>9. CASE Unlock
    <2>1. Recovered(disk) \in Journal
      BY RecoveredFacts
    <2>2. session' \in Nat
      BY <1>9 DEF Unlock
    <2>3. mem' \in Journal /\ disk' \in Journal /\ health' \in {"Ready", "Failed"}
      BY <1>9, <2>1, BarrierFacts DEF Unlock
    <2> QED
      BY <1>9, <2>2, <2>3 DEF Unlock, ResetSession, DropAuthorization, NoReview
  <1>10. ASSUME NEW p \in prepares, ApplySendFailed(p) PROVE TypeOK'
    BY <1>10 DEF ApplySendFailed
  <1>11. ASSUME NEW p \in prepares, ApplyPreparedSend(p) PROVE TypeOK'
    <2> DEFINE override == consumption = p.rec
               named == {h \in mem.grants : h.nonce = p.rec /\ h.rec = p.rec}
               g == CHOOSE h \in named : TRUE
               can == IF override THEN named # {} /\ CanAppendConsumption(mem, g)
                                  ELSE CanAppendPrepared(mem, p.rec)
               j == IF override THEN AppendConsumption(mem, g)
                                ELSE AppendPrepared(mem, p.rec)
    <2>1. /\ prepares' \subseteq PrepareTask
          /\ UNCHANGED <<phase, session, drawn, expired, wire, executed, guard>>
          /\ p.rec \in Records
      BY <1>11 DEF ApplyPreparedSend, PrepareTask
    <2>2. can => j \in Journal
      <3>1. can /\ override => g \in Grant
        BY DEF Journal
      <3> QED
        BY <2>1, <3>1, AppendConsumptionFacts, AppendPreparedFacts
    <2>3. CASE ~Live(p) /\ UNCHANGED <<mem, disk, health, rejected, session_vars, calls>>
      BY <2>1, <2>3
    <2>4. CASE /\ consumption' = NoRec
               /\ sending' = FALSE
               /\ UNCHANGED <<mem, disk, health, rejected, inflight, awaiting,
                              auth, riskStage, review, cooled, calls>>
      BY <2>1, <2>4
    <2>5. CASE /\ AppendRefused(disk, mem)
               /\ sending' = FALSE
               /\ UNCHANGED <<inflight, awaiting, auth, riskStage, review,
                              consumption, cooled, calls>>
      BY <2>1, <2>5 DEF AppendRefused
    <2>6. CASE /\ can
               /\ Barrier(disk, health, j, FALSE)
               /\ sending' = FALSE
               /\ consumption' = IF override THEN NoRec ELSE consumption
               /\ UNCHANGED <<rejected, inflight, awaiting, auth, riskStage,
                              review, cooled, calls>>
      <3>1. mem' \in Journal /\ disk' \in Journal /\ health' \in {"Ready", "Failed"}
        BY <2>2, <2>6, BarrierFacts
      <3> QED
        BY <2>1, <2>6, <3>1
    <2>7. CASE /\ can
               /\ StartCandidate(j, "Ready", j, p.rec, 0, p.rec, calls)
               /\ consumption' = IF override THEN NoRec ELSE consumption
               /\ cooled' = FALSE
               /\ UNCHANGED <<auth, riskStage, review>>
      <3> HIDE DEF j, can, override
      <3>1. j \in Journal
        BY <2>2, <2>7
      <3>2. /\ mem' \in Journal /\ disk' \in Journal
            /\ health' \in {"Ready", "Failed"} /\ calls' \subseteq Call
            /\ {inflight', awaiting'} \subseteq Records \cup {NoRec}
            /\ sending' \in BOOLEAN /\ rejected' \in BOOLEAN
        BY <2>1, <2>7, <3>1, StartKeepsTypes
      <3> QED
        BY <2>1, <2>7, <3>2
    <2> QED
      BY <1>11, <2>3, <2>4, <2>5, <2>6, <2>7 DEF ApplyPreparedSend
  <1>12. ASSUME NEW c \in calls, ApplyCandidateOutcome(c) PROVE TypeOK'
    <2> DEFINE n == c.idx + 1
               others == calls \ {c}
    <2>1. /\ UNCHANGED <<phase, session, auth, riskStage, review, consumption,
                         cooled, prepares, drawn, expired, wire, executed, guard>>
          /\ c.rec \in Records /\ others \subseteq Call
          /\ n \in Nat
      BY <1>12 DEF ApplyCandidateOutcome, Call
    <2> SUFFICES /\ mem' \in Journal /\ disk' \in Journal
                 /\ health' \in {"Ready", "Failed"} /\ calls' \subseteq Call
                 /\ {inflight', awaiting'} \subseteq Records \cup {NoRec}
                 /\ sending' \in BOOLEAN /\ rejected' \in BOOLEAN
      BY <2>1
    <2> HIDE DEF n, others
    <2>2. CASE /\ calls' = others
               /\ UNCHANGED <<mem, disk, health, rejected, sending, inflight, awaiting>>
      BY <2>1, <2>2
    <2>3. CASE /\ calls' = others
               /\ ClearInFlight(inflight, {c.rec})
               /\ UNCHANGED <<mem, disk, health, rejected, awaiting>>
      BY <2>1, <2>3 DEF ClearInFlight
    <2>4. CASE StartCandidate(disk, health, mem, c.rec, n, inflight, others)
      BY <2>1, <2>4, StartKeepsTypes
    <2>5. CASE /\ \E e : Finish(disk, health, mem, c.rec, e, inflight)
               /\ calls' = others
               /\ UNCHANGED awaiting
      BY <2>1, <2>5, FinishKeepsTypes
    <2> QED
      BY <1>12, <2>2, <2>3, <2>4, <2>5 DEF ApplyCandidateOutcome, n, others
  <1>13. ASSUME NEW S \in SUBSET Records, ReconcileEndpoint(S) PROVE TypeOK'
    <2>1. UNCHANGED <<phase, session, awaiting, cooled, prepares, calls, drawn,
                      expired, wire, executed, guard>>
      BY <1>13 DEF ReconcileEndpoint
    <2>2. CASE /\ AppendRefused(disk, mem)
               /\ UNCHANGED <<auth, riskStage, review, consumption, inflight, sending>>
      BY <2>1, <2>2 DEF AppendRefused
    <2>3. CASE /\ UNCHANGED rejected
               /\ InvalidatePendingRisk
               /\ \E ok \in BOOLEAN : \E T :
                     /\ Barrier(disk, health, HistoryJournal(S), ok)
                     /\ ClearInFlight(inflight, T)
      <3>1. mem' \in Journal /\ disk' \in Journal /\ health' \in {"Ready", "Failed"}
        BY <2>3, BarrierFacts, HistoryJournalType
      <3>2. inflight' \in Records \cup {NoRec} /\ sending' \in BOOLEAN
        BY <2>3 DEF ClearInFlight
      <3> QED
        BY <2>1, <2>3, <3>1, <3>2 DEF InvalidatePendingRisk, DropAuthorization, NoReview
    <2> QED
      BY <1>13, <2>2, <2>3 DEF ReconcileEndpoint, HistoryJournal
  <1>23. CASE ReconcileReplayGuard
    <2> DEFINE e == Ev("VerifiedTerminalSuccess", 0)
    <2>1. /\ UNCHANGED <<phase, session, cooled, prepares, calls, drawn, expired,
                         wire, executed, guard>>
          /\ awaiting' \in {awaiting, NoRec}
      BY <1>23 DEF ReconcileReplayGuard
    <2>2. CASE UNCHANGED <<mem, disk, health, rejected, sending, inflight, auth,
                           riskStage, review, consumption>>
      BY <2>1, <2>2
    <2>3. CASE /\ AppendRefused(disk, mem)
               /\ UNCHANGED <<awaiting, sending, inflight, auth, riskStage, review,
                              consumption>>
      BY <2>1, <2>3 DEF AppendRefused
    <2>4. CASE /\ awaiting \in Records
               /\ UNCHANGED rejected
               /\ InvalidatePendingRisk
               /\ \E ok \in BOOLEAN : \E T :
                     /\ Barrier(disk, health, AppendDelivery(mem, awaiting, e), ok)
                     /\ ClearInFlight(inflight, T)
      <3>1. e \in Evidence
        BY BuiltEvidence DEF VerifiedTags
      <3>2. mem' \in Journal /\ disk' \in Journal /\ health' \in {"Ready", "Failed"}
        <4>1. AppendDelivery(mem, awaiting, e) \in Journal
          BY <2>4, <3>1, AppendDeliveryFacts
        <4> QED
          BY <2>4, <4>1, BarrierFacts
      <3>3. inflight' \in Records \cup {NoRec} /\ sending' \in BOOLEAN
        BY <2>4 DEF ClearInFlight
      <3> QED
        BY <2>1, <2>4, <3>2, <3>3 DEF InvalidatePendingRisk, DropAuthorization, NoReview
    <2> QED
      BY <1>23, <2>2, <2>3, <2>4 DEF ReconcileReplayGuard
  <1>14. CASE Cool
    BY <1>14 DEF Cool
  <1>15. CASE ResumeFromSuspend
    BY <1>15 DEF ResumeFromSuspend
  <1>16. ASSUME NEW r \in Records, Expire(r) PROVE TypeOK'
    BY <1>16 DEF Expire
  <1>17. ASSUME NEW c \in calls, Transmit(c) PROVE TypeOK'
    BY <1>17 DEF Transmit, SetCall, Call, OpenStates
  <1>18. ASSUME NEW c \in calls, NEW o \in Outcomes, CallEnds(c, o) PROVE TypeOK'
    BY <1>18 DEF CallEnds, SetCall, Call
  <1>19. ASSUME NEW r \in Records, NEW fate \in {"success", "failed"},
                ChainExecutes(r, fate)
         PROVE  TypeOK'
    BY <1>19, ControllerAssumptions DEF ChainExecutes
  <1>20. ASSUME NEW t \in OtherTimes, ChainExecutesOther(t) PROVE TypeOK'
    BY <1>20, ControllerAssumptions DEF ChainExecutesOther
  <1>21. CASE Crash
    <2>1. EmptyJournal \in Journal
      BY DEF EmptyJournal, Journal
    <2> QED
      BY <1>21, <2>1 DEF Crash, ResetSession, DropAuthorization, NoReview
  <1>22. CASE UNCHANGED vars
    BY <1>22 DEF vars
  <1> QED
    BY <1>1, <1>2, <1>3, <1>4, <1>5, <1>6, <1>7, <1>8, <1>9, <1>10, <1>11,
       <1>12, <1>13, <1>14, <1>15, <1>16, <1>17, <1>18, <1>19, <1>20, <1>21,
       <1>22, <1>23
       DEF Next, TaskEnds

(* So are the initial states.                                              *)
LEMMA ControllerInitType == Init => TypeOK
  <1>1. EmptyJournal \in Journal
    BY DEF EmptyJournal, Journal
  <1>2. Init => /\ executed \in [Records -> {"no", "success", "failed"}]
                /\ session \in Nat /\ guard \in Nat
    BY DEF Init
  <1> QED
    BY <1>1, <1>2 DEF Init, TypeOK

(* The type invariant holds in every reachable state.                      *)
THEOREM ControllerTypeCorrect == Spec => []TypeOK
  BY ControllerInitType, NextTypeOK, PTL DEF Spec

(* Every task belongs to this session or an older one, and to this one     *)
(* only while the wallet is unlocked: request_lock advances the session    *)
(* generation before anything of the next session can start.               *)
THEOREM StaleTasksAreRecognised == Spec => []Generations
  <1>1. Init => Generations
    BY DEF Init, Generations
  <1>2. TypeOK /\ TypeOK' /\ Generations /\ [Next]_vars => Generations'
    <2> SUFFICES ASSUME TypeOK, TypeOK', Generations, [Next]_vars PROVE Generations'
      OBVIOUS
    <2> USE DEF Generations, Unlocked, Live, session_vars, task_vars, chain_vars
    <2>t. /\ session \in Nat /\ \A p \in prepares : p.gen \in Nat
          /\ \A c \in calls : c.gen \in Nat
      BY DEF TypeOK, PrepareTask, Call
    <2>1. CASE UNCHANGED <<phase, session, prepares, calls>>
      BY <2>1
    <2>2. ASSUME NEW b \in BOOLEAN, ConfirmSend(b) PROVE Generations'
      <3>1. /\ Unlocked /\ UNCHANGED <<phase, session, calls>>
            /\ prepares' \in {prepares, prepares \cup
                  {[gen |-> session, rec |-> auth, risk |-> consumption = auth]}}
        BY <2>2 DEF ConfirmSend
      <3> QED
        BY <2>t, <3>1
    <2>3. CASE Lock
      BY <2>t, <2>3 DEF Lock
    <2>4. CASE Unlock
      BY <2>t, <2>4 DEF Unlock
    <2>5. ASSUME NEW p \in prepares, ApplySendFailed(p) PROVE Generations'
      BY <2>5 DEF ApplySendFailed
    <2>6. ASSUME NEW p \in prepares, ApplyPreparedSend(p) PROVE Generations'
      <3>1. UNCHANGED <<phase, session>> /\ prepares' \subseteq prepares
        BY <2>6 DEF ApplyPreparedSend
      <3>2. \/ UNCHANGED calls
            \/ Live(p) /\ calls' \in {calls, calls \cup {NewCall(p.rec, 0)}}
        BY <2>6, StartCalls DEF ApplyPreparedSend
      <3> QED
        BY <2>t, <3>1, <3>2 DEF NewCall
    <2>7. ASSUME NEW c \in calls, ApplyCandidateOutcome(c) PROVE Generations'
      <3>1. UNCHANGED <<phase, session, prepares>>
        BY <2>7 DEF ApplyCandidateOutcome
      <3>2. \/ calls' \subseteq calls
            \/ Live(c) /\ calls' \subseteq calls \cup {NewCall(c.rec, c.idx + 1)}
        BY <2>7, StartCalls DEF ApplyCandidateOutcome
      <3> QED
        BY <2>t, <3>1, <3>2 DEF NewCall
    <2>8. ASSUME NEW c \in calls, NEW st, SetCall(c, st),
                 UNCHANGED <<phase, session, prepares>>
          PROVE  Generations'
      <3>1. [c EXCEPT !.st = st].gen = c.gen
        BY DEF TypeOK, Call
      <3> QED
        BY <2>8, <3>1 DEF SetCall
    <2>9. CASE Crash
      BY <2>9 DEF Crash
    <2> QED
      BY <2>1, <2>2, <2>3, <2>4, <2>5, <2>6, <2>7, <2>8, <2>9
         DEF Next, TaskEnds, vars, RequestSend, RequestRiskOverride,
             FinishRiskReconciliation, ApplyRiskContext, CancelAuthorization,
             ConfirmRiskOverride, ReconcileEndpoint, ReconcileReplayGuard, Cool,
             ResumeFromSuspend, Expire, Transmit, CallEnds, ChainExecutes,
             ChainExecutesOther
  <1> QED
    BY <1>1, <1>2, ControllerTypeCorrect, PTL DEF Spec

-----------------------------------------------------------------------------
(* A step that leaves Journals, tasks and chain alone keeps IInv.          *)
LEMMA FrameKeepsIInv ==
    ASSUME IInv, TypeOK',
           UNCHANGED <<phase, session, mem, disk, health, calls, chain_vars>>
    PROVE  IInv'
  BY DEF IInv, HealthyMeansSaved, Sound, Touched, Final, Owned, Unlocked, Live,
         chain_vars

(* Open attempts stay owned when tasks only end and no attempt opens.      *)
LEMMA OwnedShrinks ==
    ASSUME TypeOK, Owned, UNCHANGED <<phase, session, wire>>, calls' \subseteq calls,
           \A s \in Records : mem'.ev[s].tag = "AttemptStarted"
                                  => mem'.ev[s] = mem.ev[s]
    PROVE  Owned'
  <1>1. \A c \in calls : c.rec \in Records
    BY DEF TypeOK, Call
  <1> QED
    BY <1>1 DEF Owned, Unlocked, Live

(* Touched records are records.                                            *)
LEMMA TouchedType == TypeOK => Touched \in SUBSET Records
  BY DEF TypeOK, Touched, Call

(* Finishing keeps both Journals sound for any touched records R that the  *)
(* evidence does not unsay.                                                *)
LEMMA FinishSound ==
    ASSUME NEW d, NEW j, NEW R \in SUBSET Records, NEW F, NEW r \in Records, NEW e,
           Sound(d, R, F), Sound(j, R, F), FinishResult(d, j, r, e),
           e.tag \in Attempted \/ r \notin R,
           e.tag \notin EndpointTags \cup VerifiedTags
    PROVE  Sound(disk', R, F) /\ Sound(mem', R, F)
  BY SoundDelivery DEF FinishResult

(* A finished record's evidence is not an open attempt.                    *)
LEMMA FinishClosesAttempt ==
    ASSUME NEW d, NEW j \in Journal, NEW r \in Records, NEW e,
           FinishResult(d, j, r, e), e.tag # "AttemptStarted"
    PROVE  \A s \in Records : mem'.ev[s].tag = "AttemptStarted"
                                   => mem'.ev[s] = j.ev[s]
  <1>1. CanAppendDelivery(j, r, e) => e \in Evidence
    BY DEF CanAppendDelivery
  <1> QED
    BY <1>1, AppendDeliveryFacts DEF FinishResult

(* Starting a candidate for a record nobody else touches keeps both        *)
(* Journals sound and the new attempt owned.                               *)
LEMMA StartSound ==
    ASSUME TypeOK, Owned, NEW d, NEW j, NEW R \in SUBSET Records,
           NEW r \in Records \ R, NEW idx \in Nat, NEW others \in SUBSET calls,
           R = wire \cup {c.rec : c \in others},
           Sound(d, R, Final), Sound(j, R, Final),
           \A s \in Records \ {r} : j.ev[s] = mem.ev[s],
           UNCHANGED <<phase, session, chain_vars>>,
           StartResult(d, j, r, idx, others)
    PROVE  Sound(disk, Touched, Final)' /\ Sound(mem, Touched, Final)' /\ Owned'
  <1> DEFINE e == AttemptStarted(idx + 1)
             k == AppendDelivery(j, r, e)
  <1>a. \A c \in others : c.rec \in Records /\ c.rec # r
    BY DEF TypeOK, Call
  <1>b. Final' = Final /\ UNCHANGED wire
    BY DEF Final, chain_vars
  <1>1. CASE FinishResult(d, j, r, NotBroadcast) /\ calls' = others
    <2>1. Touched' = R
      BY <1>1, <1>b DEF Touched
    <2>2. Sound(disk', R, Final) /\ Sound(mem', R, Final)
      BY <1>1, FinishSound, TagFacts DEF Attempted
    <2>3. \A s \in Records : mem'.ev[s].tag = "AttemptStarted" => mem'.ev[s] = j.ev[s]
      BY <1>1, FinishClosesAttempt, TagFacts DEF Sound
    <2>4. Owned'
      BY <1>1, <1>a, <1>b, <2>3 DEF Owned, Unlocked, Live
    <2> QED
      BY <1>b, <2>1, <2>2, <2>4 DEF Sound
  <1>2. CASE /\ CanAppendDelivery(j, r, e)
             /\ mem' = k
             /\ disk' \in {d, k} /\ calls' = others
    <2>1. Touched' = R
      BY <1>2, <1>b DEF Touched
    <2>2. Sound(k, R, Final)
      BY <1>2, SoundDelivery, TagFacts
    <2>3. Sound(disk', R, Final) /\ Sound(mem', R, Final)
      BY <1>2, <2>2
    <2>4. \A s \in Records \ {r} : mem'.ev[s] = mem.ev[s]
      BY <1>2, AppendDeliveryFacts DEF CanAppendDelivery, Sound
    <2>5. Owned'
      BY <1>2, <1>a, <1>b, <2>4 DEF Owned, Unlocked, Live
    <2> QED
      BY <1>b, <2>1, <2>3, <2>5 DEF Sound
  <1>3. CASE /\ CanAppendDelivery(j, r, e)
             /\ mem' = k
             /\ disk' = k /\ calls' = others \cup {NewCall(r, idx)}
    <2>0. NewCall(r, idx).rec = r
      BY DEF NewCall
    <2>1. Touched' \subseteq R \cup {r}
      BY <1>3, <1>b, <2>0 DEF Touched
    <2>2. Sound(k, R \cup {r}, Final)
      BY <1>3, SoundDelivery, TagFacts
    <2>3. /\ mem'.ev[r] = e
          /\ \A s \in Records \ {r} : mem'.ev[s] = mem.ev[s]
      BY <1>3, AppendDeliveryFacts DEF CanAppendDelivery, Sound
    <2>4. /\ NewCall(r, idx).gen = session /\ NewCall(r, idx).rec = r
          /\ NewCall(r, idx).idx = idx
      BY DEF NewCall
    <2>5. e.attempt = idx + 1 /\ r \notin wire
      BY TagFacts
    <2> HIDE DEF e, k
    <2>6. Owned'
      BY <1>3, <1>a, <1>b, <2>3, <2>4, <2>5 DEF Owned, Unlocked, Live
    <2> QED
      BY <1>3, <1>b, <2>1, <2>2, <2>6 DEF Sound
  <1> QED
    BY <1>1, <1>2, <1>3 DEF StartResult

-----------------------------------------------------------------------------
(* The inductive step, one lemma per action that touches a Journal, a task *)
(* or the chain.                                                           *)

(* finish_lock drops the session; stale tasks keep their records marked.   *)
LEMMA LockKeepsIInv == ASSUME IInv, TypeOK', Lock PROVE IInv'
  <1>1. /\ phase' = "Locked"
        /\ UNCHANGED <<disk, calls, wire, executed, guard>>
    BY DEF Lock, task_vars, chain_vars
  <1>2. Touched' = Touched /\ Final' = Final /\ ~Unlocked'
    BY <1>1 DEF Touched, Final, Unlocked
  <1> QED
    BY <1>1, <1>2 DEF IInv, HealthyMeansSaved, Sound, Owned

(* A crash forgets tasks and memory, never the disk.                       *)
LEMMA CrashKeepsIInv == ASSUME IInv, TypeOK', Crash PROVE IInv'
  <1>1. /\ phase' = "Locked" /\ calls' = {}
        /\ UNCHANGED <<disk, wire, executed, guard>>
    BY DEF Crash, chain_vars
  <1>2. Touched' \subseteq Touched /\ Final' = Final /\ ~Unlocked'
    BY <1>1 DEF Touched, Final, Unlocked
  <1> QED
    BY <1>1, <1>2 DEF IInv, HealthyMeansSaved, Sound, Owned

(* Recovery closes every attempt, so no stale task owns one.               *)
LEMMA UnlockKeepsIInv == ASSUME IInv, TypeOK', Unlock PROVE IInv'
  <1> DEFINE k == Recovered(disk)
  <1>1. UNCHANGED <<calls, wire, executed, guard>>
    BY DEF Unlock, task_vars, chain_vars
  <1>2. Touched' = Touched /\ Final' = Final
    BY <1>1 DEF Touched, Final
  <1>3. /\ Sound(k, Touched, Final)
        /\ \A r \in Records : k.ev[r].tag # "AttemptStarted"
    BY SoundRecovered, TouchedType DEF IInv
  <1> HIDE DEF k
  <1>4. /\ mem' = k /\ disk' \in {disk, k}
        /\ health' = "Ready" => disk' = k
    BY BarrierFacts DEF Unlock, k
  <1>5. Owned'
    <2>1. \A c \in calls' : c.rec \in Records
      BY DEF TypeOK, Call
    <2> QED
      BY <1>3, <1>4, <2>1 DEF Owned
  <1> QED
    BY <1>2, <1>3, <1>4, <1>5 DEF IInv, HealthyMeansSaved, Sound

(* A message reaches the wire through the task that owns its attempt.      *)
LEMMA TransmitKeepsIInv ==
    ASSUME IInv, TypeOK', NEW c \in calls, Transmit(c) PROVE IInv'
  <1> DEFINE d == [c EXCEPT !.st = "sent"]
  <1>1. /\ UNCHANGED <<phase, session, mem, disk, health, executed, guard>>
        /\ wire' = wire \cup {c.rec}
        /\ calls' = (calls \ {c}) \cup {d}
    BY DEF Transmit, SetCall
  <1>2. d.rec = c.rec /\ d.idx = c.idx /\ d.gen = c.gen /\ d.st = "sent"
    BY DEF IInv, TypeOK, Call
  <1> HIDE DEF d
  <1>3. Touched' \subseteq Touched /\ Final' = Final
    BY <1>1, <1>2 DEF Touched, Final
  <1>4. Owned'
    BY <1>1, <1>2 DEF IInv, Owned, Unlocked, Live
  <1> QED
    BY <1>1, <1>3, <1>4 DEF IInv, HealthyMeansSaved, Sound, Unlocked

(* NotTransmitted is only classified before the socket was written.        *)
LEMMA CallEndsKeepsIInv ==
    ASSUME IInv, TypeOK', NEW c \in calls, NEW o \in Outcomes, CallEnds(c, o)
    PROVE  IInv'
  <1> DEFINE d == [c EXCEPT !.st = o]
  <1>1. /\ UNCHANGED <<phase, session, mem, disk, health, wire, executed, guard>>
        /\ calls' = (calls \ {c}) \cup {d}
        /\ c.st = "sent" => o \in {"may_have", "response"}
        /\ c.st \in {"running", "sent"}
    BY DEF CallEnds, SetCall, chain_vars
  <1>2. d.rec = c.rec /\ d.idx = c.idx /\ d.gen = c.gen /\ d.st = o
    BY DEF IInv, TypeOK, Call
  <1> HIDE DEF d
  <1>3. Touched' \subseteq Touched /\ Final' = Final
    BY <1>1, <1>2 DEF Touched, Final
  <1>4. Owned'
    BY <1>1, <1>2 DEF IInv, Owned, Unlocked, Live
  <1> QED
    BY <1>1, <1>3, <1>4 DEF IInv, HealthyMeansSaved, Sound, Unlocked

(* The replay guard only advances and a fate is never taken back.          *)
LEMMA ChainKeepsIInv ==
    ASSUME IInv, TypeOK',
           \/ \E r \in Records, fate \in {"success", "failed"} : ChainExecutes(r, fate)
           \/ \E t \in OtherTimes : ChainExecutesOther(t)
    PROVE  IInv'
  <1>1. UNCHANGED <<phase, session, mem, disk, health, calls, wire>>
    BY DEF ChainExecutes, ChainExecutesOther, task_vars
  <1>2. /\ guard' \in Nat /\ guard \in Nat /\ guard <= guard'
        /\ \A r \in Records : executed[r] # "no" => executed'[r] # "no"
    BY ControllerAssumptions DEF ChainExecutes, ChainExecutesOther, IInv, TypeOK
  <1>3. Touched' = Touched /\ Final \subseteq Final'
    BY <1>1, <1>2, ControllerAssumptions DEF Touched, Final
  <1> QED
    BY <1>1, <1>3 DEF IInv, HealthyMeansSaved, Sound, Owned, Unlocked, Live

(* confirm_risk_override appends a grant and touches no record.            *)
LEMMA ConfirmRiskOverrideKeepsIInv ==
    ASSUME IInv, TypeOK', ConfirmRiskOverride PROVE IInv'
  <1> DEFINE g == [nonce |-> review.rec, rec |-> review.rec,
                   blockers |-> review.blockers]
  <1>1. /\ UNCHANGED <<phase, session, calls, wire, executed, guard>>
        /\ Unlocked /\ review # NoReview
    BY DEF ConfirmRiskOverride, task_vars, chain_vars
  <1>2. Touched' = Touched /\ Final' = Final
    BY <1>1 DEF Touched, Final
  <1>3. g \in Grant
    <2>1. review.rec \in Records /\ review.blockers \in SUBSET BlockerRow
      BY <1>1 DEF IInv, TypeOK
    <2> QED
      BY <2>1, ControllerAssumptions DEF Grant
  <1>4. Sound(mem, Touched, Final) /\ Sound(disk, Touched, Final)
    BY <1>1 DEF IInv
  <1>5. Sound(AppendGrant(mem, g), Touched, Final) /\ AppendGrant(mem, g).ev = mem.ev
    BY <1>3, <1>4, SoundGrant, AppendGrantFacts DEF Sound
  <1>6. /\ mem' \in {mem, AppendGrant(mem, g)}
        /\ disk' \in {disk, AppendGrant(mem, g)}
        /\ health' = "Ready" => \/ mem' = disk'
                                \/ UNCHANGED <<mem, disk, health>>
    BY BarrierFacts DEF ConfirmRiskOverride, AppendRefused
  <1> HIDE DEF g
  <1>7. Owned'
    BY <1>1, <1>5, <1>6 DEF IInv, Owned, Unlocked, Live
  <1> QED
    BY <1>1, <1>2, <1>4, <1>5, <1>6, <1>7 DEF IInv, HealthyMeansSaved, Sound, Unlocked

(* apply_prepared_send: the new record was never attempted, and it is      *)
(* attempted only once Prepared and AttemptStarted are durable.            *)
LEMMA ApplyPreparedSendKeepsIInv ==
    ASSUME IInv, TypeOK', NEW p \in prepares, ApplyPreparedSend(p), Unlocked
    PROVE  IInv'
  <1> DEFINE override == consumption = p.rec
             named == {h \in mem.grants : h.nonce = p.rec /\ h.rec = p.rec}
             g == CHOOSE h \in named : TRUE
             can == IF override THEN named # {} /\ CanAppendConsumption(mem, g)
                                ELSE CanAppendPrepared(mem, p.rec)
             j == IF override THEN AppendConsumption(mem, g)
                              ELSE AppendPrepared(mem, p.rec)
  <1>1. UNCHANGED <<phase, session, wire, executed, guard>>
    BY DEF ApplyPreparedSend, chain_vars
  <1>2. Final' = Final /\ Unlocked'
    BY <1>1 DEF Final, Unlocked
  <1>3. Sound(mem, Touched, Final) /\ Sound(disk, Touched, Final)
        /\ Touched \in SUBSET Records /\ p.rec \in Records
    BY TouchedType DEF IInv, TypeOK, PrepareTask
  <1>4. CASE UNCHANGED <<mem, disk, health, calls>>
    BY <1>1, <1>4, FrameKeepsIInv DEF chain_vars
  <1>5. CASE AppendRefused(disk, mem) /\ UNCHANGED calls
    <2>1. UNCHANGED <<mem, disk, Touched>> /\ health' = "Failed"
      BY <1>1, <1>5 DEF AppendRefused, Touched
    <2>2. Owned'
      BY <1>1, <1>5, <2>1 DEF IInv, Owned, Unlocked, Live
    <2> QED
      BY <1>2, <1>3, <2>1, <2>2 DEF IInv, HealthyMeansSaved, Sound
  <1>6. ASSUME can
        PROVE  /\ Sound(j, Touched, Final)
               /\ p.rec \notin Touched
               /\ \A s \in Records \ {p.rec} : j.ev[s] = mem.ev[s]
    <2>1. CASE override
      <3>1. g \in Grant /\ g.rec = p.rec /\ CanAppendConsumption(mem, g)
        BY <1>3, <1>6, <2>1 DEF Sound, Journal
      <3> HIDE DEF g
      <3>2. j = AppendConsumption(mem, g)
        BY <2>1
      <3>3. Sound(AppendConsumption(mem, g), Touched, Final) /\ g.rec \notin Touched
        BY <1>3, <3>1, SoundConsumption
      <3>4. \A s \in Records \ {g.rec} : AppendConsumption(mem, g).ev[s] = mem.ev[s]
        BY <1>3, <3>1, AppendConsumptionFacts DEF Sound
      <3> QED
        BY <3>1, <3>2, <3>3, <3>4
    <2>2. CASE ~override
      <3>1. j = AppendPrepared(mem, p.rec) /\ CanAppendPrepared(mem, p.rec)
        BY <1>6, <2>2
      <3>2. Sound(AppendPrepared(mem, p.rec), Touched, Final) /\ p.rec \notin Touched
        BY <1>3, <3>1, SoundPrepared
      <3>3. \A s \in Records \ {p.rec} : AppendPrepared(mem, p.rec).ev[s] = mem.ev[s]
        BY <1>3, AppendPreparedFacts DEF Sound
      <3> QED
        BY <3>1, <3>2, <3>3
    <2> QED
      BY <2>1, <2>2
  <1>7. CASE can /\ Barrier(disk, health, j, FALSE) /\ UNCHANGED calls
    <2> HIDE DEF j, can
    <2>1. mem' = j /\ disk' \in {disk, j} /\ health' = "Failed" /\ Touched' = Touched
      BY <1>1, <1>7, BarrierFacts DEF Touched
    <2>2. \A c \in calls : c.rec \in Records \ {p.rec}
      BY <1>3, <1>6, <1>7 DEF Touched
    <2>3. Owned'
      BY <1>1, <1>6, <1>7, <2>1, <2>2 DEF IInv, Owned, Unlocked, Live
    <2> QED
      BY <1>2, <1>3, <1>6, <1>7, <2>1, <2>3 DEF IInv, HealthyMeansSaved, Sound
  <1>8. CASE can /\ StartCandidate(j, "Ready", j, p.rec, 0, p.rec, calls)
    <2> HIDE DEF j, can
    <2>1. /\ StartResult(j, j, p.rec, 0, calls)
          /\ health' = "Ready" => mem' = disk'
      BY <1>8, StartCandidateFacts, Zenon
    <2>2. /\ TypeOK /\ Owned /\ 0 \in Nat /\ calls \in SUBSET calls
          /\ Touched = wire \cup {c.rec : c \in calls}
          /\ UNCHANGED <<phase, session, chain_vars>>
      BY <1>1 DEF IInv, Touched, chain_vars
    <2>3. Sound(disk, Touched, Final)' /\ Sound(mem, Touched, Final)' /\ Owned'
      BY <1>3, <1>6, <1>8, <2>1, <2>2, StartSound
    <2> QED
      BY <2>1, <2>3 DEF IInv, HealthyMeansSaved
  <1> QED
    BY <1>4, <1>5, <1>7, <1>8 DEF ApplyPreparedSend, session_vars

(* apply_candidate_outcome: only the outcome of the task that owns the     *)
(* open attempt is recorded, and it gives the message up only when that    *)
(* task never wrote to a socket.                                           *)
LEMMA ApplyCandidateOutcomeKeepsIInv ==
    ASSUME IInv, TypeOK', NEW c \in calls, ApplyCandidateOutcome(c), Unlocked
    PROVE  IInv'
  <1> DEFINE n == c.idx + 1
             others == calls \ {c}
             R == wire \cup {d.rec : d \in others}
  <1>1. UNCHANGED <<phase, session, wire, executed, guard>>
    BY DEF ApplyCandidateOutcome, chain_vars
  <1>2. Final' = Final /\ Unlocked'
    BY <1>1 DEF Final, Unlocked
  <1>3. /\ Sound(mem, Touched, Final) /\ Sound(disk, Touched, Final)
        /\ c.rec \in Records /\ n \in Nat /\ R \subseteq Touched
        /\ Touched \in SUBSET Records /\ TypeOK /\ Owned
    BY TouchedType DEF IInv, TypeOK, Call, Touched
  <1>4. Sound(mem, R, Final) /\ Sound(disk, R, Final) /\ R \in SUBSET Records
    BY <1>3, SoundMonotone
  <1>5. CASE calls' = others /\ UNCHANGED <<mem, disk, health>>
    <2>1. Touched' = R
      BY <1>1, <1>5 DEF Touched
    <2>2. Owned'
      BY <1>1, <1>3, <1>5, OwnedShrinks
    <2> QED
      BY <1>2, <1>4, <1>5, <2>1, <2>2 DEF IInv, HealthyMeansSaved, Sound, Unlocked
  <1>6. ASSUME mem.ev[c.rec] = AttemptStarted(n),
               c.st \in {"not_transmitted", "not_transmitted_retry"}
        PROVE  c.rec \notin R
    <2>1. mem.ev[c.rec].tag = "AttemptStarted"
      BY <1>6, TagFacts
    <2> QED
      BY <1>3, <1>6, <2>1 DEF Owned
  <1>7. ASSUME NEW e, Finish(disk, health, mem, c.rec, e, inflight), calls' = others,
               e.tag \in Attempted \/ c.rec \notin R,
               e.tag \notin EndpointTags \cup VerifiedTags,
               e.tag # "AttemptStarted"
        PROVE  IInv'
    <2>1. /\ FinishResult(disk, mem, c.rec, e)
          /\ health' = "Ready" => mem' = disk'
      BY <1>7, FinishFacts, Zenon
    <2>2. Touched' = R
      BY <1>1, <1>7 DEF Touched
    <2>3. Sound(disk', R, Final) /\ Sound(mem', R, Final)
      BY <1>3, <1>4, <1>7, <2>1, FinishSound
    <2>4. \A s \in Records : mem'.ev[s].tag = "AttemptStarted" => mem'.ev[s] = mem.ev[s]
      BY <1>3, <1>7, <2>1, FinishClosesAttempt DEF Sound
    <2>5. Owned'
      BY <1>1, <1>3, <1>7, <2>4, OwnedShrinks
    <2> QED
      BY <1>2, <2>1, <2>2, <2>3, <2>5 DEF IInv, HealthyMeansSaved, Sound
  <1>8. ASSUME c.rec \notin R,
               StartCandidate(disk, health, mem, c.rec, n, inflight, others)
        PROVE  IInv'
    <2> HIDE DEF n
    <2>1. /\ StartResult(disk, mem, c.rec, n, others)
          /\ health' = "Ready" => mem' = disk'
      BY <1>8, StartCandidateFacts, Zenon
    <2>2. UNCHANGED <<phase, session, chain_vars>> /\ others \in SUBSET calls
      BY <1>1 DEF chain_vars
    <2>3. Sound(disk, Touched, Final)' /\ Sound(mem, Touched, Final)' /\ Owned'
      BY <1>3, <1>4, <1>8, <2>1, <2>2, StartSound
    <2> QED
      BY <2>1, <2>3 DEF IInv, HealthyMeansSaved
  <1>9. /\ NotBroadcast.tag \notin EndpointTags \cup VerifiedTags
        /\ NotBroadcast.tag # "AttemptStarted"
        /\ \A e \in {MayHaveBroadcast(n), NodeResponseObserved(n)} :
              /\ e.tag \in Attempted /\ e.tag # "AttemptStarted"
              /\ e.tag \notin EndpointTags \cup VerifiedTags
    BY TagFacts
  <1>10. CASE /\ mem.ev[c.rec] = AttemptStarted(n)
              /\ c.st = "not_transmitted_retry"
              /\ StartCandidate(disk, health, mem, c.rec, n, inflight, others)
    BY <1>6, <1>8, <1>10
  <1>11. CASE /\ mem.ev[c.rec] = AttemptStarted(n)
              /\ c.st \in {"not_transmitted", "not_transmitted_retry"}
              /\ Finish(disk, health, mem, c.rec, NotBroadcast, inflight)
              /\ calls' = others
    BY <1>6, <1>7, <1>9, <1>11
  <1>12. CASE /\ \/ Finish(disk, health, mem, c.rec, MayHaveBroadcast(n), inflight)
                 \/ Finish(disk, health, mem, c.rec, NodeResponseObserved(n), inflight)
              /\ calls' = others
    BY <1>7, <1>9, <1>12
  <1> QED
    BY <1>5, <1>10, <1>11, <1>12 DEF ApplyCandidateOutcome

(* reconcile_endpoint_observations settles only executed messages.         *)
LEMMA ReconcileEndpointKeepsIInv ==
    ASSUME IInv, TypeOK', NEW S \in SUBSET Records, ReconcileEndpoint(S)
    PROVE  IInv'
  <1> DEFINE k == HistoryJournal(S)
  <1>1. /\ UNCHANGED <<phase, session, calls, wire, executed, guard>>
        /\ Unlocked /\ \A r \in S : executed[r] # "no"
    BY DEF ReconcileEndpoint, task_vars, chain_vars
  <1>2. Touched' = Touched /\ Final' = Final
    BY <1>1 DEF Touched, Final
  <1>3. /\ Sound(mem, Touched, Final) /\ Sound(disk, Touched, Final)
        /\ TypeOK /\ Owned /\ Touched \in SUBSET Records
    BY <1>1, TouchedType DEF IInv
  <1>4. /\ k \in Journal /\ k.grants = mem.grants /\ k.spent = mem.spent
        /\ \A r \in Records :
              k.ev[r] = IF r \in S \cap Blocking(mem) THEN HistoryTerminal(r)
                                                       ELSE mem.ev[r]
    <2>1. k \in Journal
      BY <1>3, HistoryJournalType
    <2> QED
      BY <1>3, <2>1 DEF HistoryJournal, Sound, Journal
  <1> HIDE DEF k
  <1>5. \A r \in Records : /\ HistoryTerminal(r).tag \in VerifiedTags
                           /\ ~IsBlocking(HistoryTerminal(r).tag)
                           /\ HistoryTerminal(r).tag # "AttemptStarted"
    BY DEF HistoryTerminal, Ev, VerifiedTags, IsBlocking, BlockingTags
  <1>6. Blocking(k) \subseteq Blocking(mem)
    BY <1>4, <1>5 DEF Blocking
  <1>7. PairwiseGranted(k)
    BY <1>3, <1>4, <1>6, GrantedStaysGranted DEF Sound
  <1>8. \A r \in S : r \in Final
    BY <1>1 DEF Final
  <1>9. Sound(k, Touched, Final)
    BY <1>3, <1>4, <1>5, <1>7, <1>8, TagFacts DEF Sound
  <1>10. /\ mem' \in {mem, k} /\ disk' \in {disk, k}
         /\ health' = "Ready" => mem' = disk'
    <2>1. CASE AppendRefused(disk, mem)
      BY <2>1 DEF AppendRefused
    <2>2. CASE \E ok \in BOOLEAN : Barrier(disk, health, k, ok)
      BY <2>2, BarrierFacts
    <2> QED
      BY <2>1, <2>2 DEF ReconcileEndpoint, HistoryJournal, k
  <1>11. \A s \in Records : mem'.ev[s].tag = "AttemptStarted" => mem'.ev[s] = mem.ev[s]
    BY <1>4, <1>5, <1>10
  <1>12. Owned'
    BY <1>1, <1>3, <1>11, OwnedShrinks
  <1> QED
    BY <1>2, <1>3, <1>9, <1>10, <1>12 DEF IInv, HealthyMeansSaved, Sound

(* reconcile_from_replay_guard settles only what the guard has passed.     *)
LEMMA ReconcileReplayGuardKeepsIInv ==
    ASSUME IInv, TypeOK', ReconcileReplayGuard PROVE IInv'
  <1> DEFINE e == Ev("VerifiedTerminalSuccess", 0)
             k == AppendDelivery(mem, awaiting, e)
  <1>1. /\ UNCHANGED <<phase, session, calls, wire, executed, guard>>
        /\ Unlocked /\ awaiting # NoRec
    BY DEF ReconcileReplayGuard, task_vars, chain_vars
  <1>2. Touched' = Touched /\ Final' = Final
    BY <1>1 DEF Touched, Final
  <1>3. /\ Sound(mem, Touched, Final) /\ Sound(disk, Touched, Final)
        /\ TypeOK /\ Owned /\ Touched \in SUBSET Records
        /\ awaiting \in Records
    BY <1>1, TouchedType DEF IInv, TypeOK
  <1>4. CASE UNCHANGED <<mem, disk, health>>
    BY <1>1, <1>4, FrameKeepsIInv DEF chain_vars
  <1>5. CASE AppendRefused(disk, mem)
    <2>1. UNCHANGED <<mem, disk>> /\ health' = "Failed"
      BY <1>5 DEF AppendRefused
    <2>2. Owned'
      BY <1>1, <1>3, <2>1, OwnedShrinks
    <2> QED
      BY <1>2, <1>3, <2>1, <2>2 DEF IInv, HealthyMeansSaved, Sound
  <1>6. CASE /\ CanAppendDelivery(mem, awaiting, e)
             /\ CreatedAt[awaiting] <= guard
             /\ \E ok \in BOOLEAN : Barrier(disk, health, k, ok)
    <2>1. awaiting \in Final
      BY <1>3, <1>6 DEF Final
    <2>2. e.tag \in VerifiedTags /\ e.tag \in Attempted /\ e.tag # "AttemptStarted"
      BY DEF Ev, VerifiedTags, Attempted
    <2>3. /\ Sound(k, Touched, Final)
          /\ k.ev[awaiting] = e
          /\ \A s \in Records \ {awaiting} : k.ev[s] = mem.ev[s]
      <3>1. mem \in Journal /\ e \in Evidence
        BY <1>3, <1>6 DEF CanAppendDelivery, Sound
      <3> HIDE DEF e
      <3>2. Sound(AppendDelivery(mem, awaiting, e), Touched, Final)
        BY <1>3, <1>6, <2>1, <2>2, SoundDelivery
      <3> QED
        BY <1>3, <3>1, <3>2, AppendDeliveryFacts
    <2> HIDE DEF k, e
    <2>4. /\ mem' = k /\ disk' \in {disk, k}
          /\ health' = "Ready" => mem' = disk'
      BY <1>6, BarrierFacts
    <2>5. Owned'
      BY <1>1, <1>3, <2>2, <2>3, <2>4, OwnedShrinks
    <2> QED
      BY <1>2, <1>3, <2>3, <2>4, <2>5 DEF IInv, HealthyMeansSaved, Sound
  <1> QED
    BY <1>4, <1>5, <1>6 DEF ReconcileReplayGuard

(* IInv is inductive for the steps of a session whose stale tasks are      *)
(* recognised by their generation.                                         *)
LEMMA NextKeepsIInv == IInv /\ Generations /\ TypeOK' /\ [Next]_vars => IInv'
  <1> SUFFICES ASSUME IInv, Generations, TypeOK', [Next]_vars PROVE IInv'
    OBVIOUS
  <1>1. CASE UNCHANGED <<phase, session, mem, disk, health, calls, chain_vars>>
    BY <1>1, FrameKeepsIInv
  <1>2. ASSUME NEW p \in prepares, ApplyPreparedSend(p) PROVE IInv'
    <2>1. CASE Live(p)
      BY <1>2, <2>1, ApplyPreparedSendKeepsIInv DEF Generations
    <2>2. CASE ~Live(p)
      BY <1>1, <1>2, <2>2 DEF ApplyPreparedSend
    <2> QED
      BY <2>1, <2>2
  <1>3. ASSUME NEW c \in calls, ApplyCandidateOutcome(c) PROVE IInv'
    <2>1. CASE Unlocked
      BY <1>3, <2>1, ApplyCandidateOutcomeKeepsIInv
    <2>2. CASE ~Unlocked
      <3>1. /\ UNCHANGED <<phase, session, mem, disk, health, wire, executed, guard>>
            /\ calls' \subseteq calls
        BY <1>3, <2>2 DEF ApplyCandidateOutcome, Generations, chain_vars
      <3>2. Touched' \subseteq Touched /\ Final' = Final /\ ~Unlocked'
        BY <2>2, <3>1 DEF Touched, Final, Unlocked
      <3> QED
        BY <3>1, <3>2 DEF IInv, HealthyMeansSaved, Sound, Owned
    <2> QED
      BY <2>1, <2>2
  <1>4. CASE Next
    BY <1>1, <1>2, <1>3, <1>4, LockKeepsIInv, CrashKeepsIInv, UnlockKeepsIInv,
       TransmitKeepsIInv, CallEndsKeepsIInv, ChainKeepsIInv,
       ConfirmRiskOverrideKeepsIInv, ReconcileEndpointKeepsIInv,
       ReconcileReplayGuardKeepsIInv
       DEF Next, TaskEnds, task_vars, session_vars, RequestSend,
           RequestRiskOverride, ConfirmSend, FinishRiskReconciliation,
           ApplyRiskContext, CancelAuthorization, Cool, ResumeFromSuspend,
           Expire, ApplySendFailed
  <1>5. CASE UNCHANGED vars
    BY <1>1, <1>5 DEF vars, session_vars, task_vars, chain_vars
  <1> QED
    BY <1>4, <1>5

(* The strengthened invariant holds in every reachable state.              *)
THEOREM ControllerInvariant == Spec => []IInv
  <1>1. Init => IInv
    <2> SUFFICES ASSUME Init PROVE IInv
      OBVIOUS
    <2>1. TypeOK
      BY ControllerInitType
    <2>2. disk = EmptyJournal /\ calls = {} /\ wire = {} /\ ~Unlocked
      BY DEF Init, Unlocked
    <2>3. Sound(EmptyJournal, {}, Final)
      BY DEF Sound, EmptyJournal, Journal, PairwiseGranted, Blocking, IsBlocking,
             BlockingTags, Absent, EndpointTags, VerifiedTags
    <2> QED
      BY <2>1, <2>2, <2>3 DEF IInv, HealthyMeansSaved, Owned, Sound, Touched
  <1> QED
    BY <1>1, NextKeepsIInv, NextTypeOK, ControllerTypeCorrect,
       StaleTasksAreRecognised, PTL DEF Spec

-----------------------------------------------------------------------------
(* No message reaches a socket, or a task that may write to one, before    *)
(* its attempt is on disk: start_prepared_candidate's barrier.             *)
THEOREM ControllerDurableFirst == Spec => []AttemptIsDurableFirst
  <1>1. IInv => AttemptIsDurableFirst
    BY DEF IInv, Sound, Touched, AttemptIsDurableFirst
  <1> QED
    BY <1>1, ControllerInvariant, PTL

(* The message of a settled record can no longer debit the wallet.         *)
THEOREM ControllerSettledIsFinal == Spec => []SettledMeansFinal
  <1>1. IInv => SettledMeansFinal
    <2> SUFFICES ASSUME IInv, NEW r \in Records, Settled(r), CanStillDebit(r)
                 PROVE  FALSE
      BY DEF SettledMeansFinal
    <2>1. r \in Touched /\ r \notin Final
      <3>1. CreatedAt[r] \in Nat /\ guard \in Nat
        BY ControllerAssumptions DEF IInv, TypeOK
      <3> QED
        BY <3>1 DEF CanStillDebit, Touched, Final
    <2>2. PICK j : /\ Sound(j, Touched, Final)
                   /\ j.ev[r].tag \in TerminalTags
      BY DEF IInv, Settled
    <2> QED
      BY <2>1, <2>2 DEF Sound, Attempted, TerminalTags, AttemptTags, EndpointTags,
         VerifiedTags
  <1> QED
    BY <1>1, ControllerInvariant, PTL

(* Two messages that may both still debit were let in by a durable grant   *)
(* naming the pair.                                                        *)
THEOREM ControllerDoubleDebit == Spec => []DoubleDebitNeedsGrant
  <1>1. IInv => DoubleDebitNeedsGrant
    <2> SUFFICES ASSUME IInv, NEW r \in Records, NEW s \in Records, r # s,
                        CanStillDebit(r), CanStillDebit(s)
                 PROVE  GrantedBeside(disk, r, s) \/ GrantedBeside(disk, s, r)
      BY DEF DoubleDebitNeedsGrant
    <2>1. \A q \in Records : CanStillDebit(q) => q \in Touched /\ q \notin Final
      <3>1. CreatedAt \in [Records -> Nat] /\ guard \in Nat
        BY ControllerAssumptions DEF IInv, TypeOK
      <3> QED
        BY <3>1 DEF CanStillDebit, Touched, Final
    <2>2. Sound(disk, Touched, Final)
      BY DEF IInv
    <2>3. disk.ev[r].tag \in AttemptTags /\ disk.ev[s].tag \in AttemptTags
      BY <2>1, <2>2 DEF Sound, Attempted
    <2>4. r \in Blocking(disk) /\ s \in Blocking(disk)
      BY <2>3 DEF Blocking, IsBlocking, BlockingTags, AttemptTags
    <2> QED
      BY <2>2, <2>4 DEF Sound, PairwiseGranted
  <1> QED
    BY <1>1, ControllerInvariant, PTL

-----------------------------------------------------------------------------
(* What a healthy session knows after a handler, and what a handler may    *)
(* write.                                                                  *)

(* Only a session that was healthy before stays healthy, and then the      *)
(* evidence was appended; the file holds what it held or the new Journal.  *)
LEMMA FinishOutcome ==
    ASSUME NEW d, NEW h, NEW j, NEW r, NEW e, NEW f, Finish(d, h, j, r, e, f)
    PROVE  /\ health' = "Ready" => /\ h = "Ready"
                                   /\ CanAppendDelivery(j, r, e)
                                   /\ mem' = AppendDelivery(j, r, e)
           /\ disk' # d => /\ h = "Ready"
                           /\ CanAppendDelivery(j, r, e)
                           /\ disk' = AppendDelivery(j, r, e)
  <1>1. CASE CanAppendDelivery(j, r, e)
    <2> DEFINE k == AppendDelivery(j, r, e)
    <2>1. PICK ok \in BOOLEAN : Barrier(d, h, k, ok)
      BY <1>1 DEF Finish
    <2> HIDE DEF k
    <2>2. /\ mem' = k
          /\ health' = "Ready" => h = "Ready"
          /\ disk' # d => h = "Ready" /\ disk' = k
      BY <2>1 DEF Barrier
    <2> QED
      BY <1>1, <2>2 DEF k
  <1>2. CASE ~CanAppendDelivery(j, r, e)
    BY <1>2 DEF Finish, AppendRefused
  <1> QED
    BY <1>1, <1>2

(* The same of start_prepared_candidate: a session that stays healthy has  *)
(* given the message up or has a task for its new attempt.                 *)
LEMMA StartOutcome ==
    ASSUME NEW d, NEW h, NEW j, NEW r, NEW idx, NEW f, NEW others,
           StartCandidate(d, h, j, r, idx, f, others)
    PROVE  /\ health' = "Ready" =>
                /\ h = "Ready"
                /\ \/ /\ CanAppendDelivery(j, r, NotBroadcast)
                      /\ mem' = AppendDelivery(j, r, NotBroadcast)
                      /\ calls' = others
                   \/ /\ CanAppendDelivery(j, r, AttemptStarted(idx + 1))
                      /\ mem' = AppendDelivery(j, r, AttemptStarted(idx + 1))
                      /\ calls' = others \cup {NewCall(r, idx)}
           /\ disk' # d =>
                /\ h = "Ready"
                /\ \E e : CanAppendDelivery(j, r, e) /\ disk' = AppendDelivery(j, r, e)
  <1> DEFINE e == AttemptStarted(idx + 1)
             k == AppendDelivery(j, r, e)
  <1>1. CASE idx >= Candidates \/ r \in expired
    <2>1. Finish(d, h, j, r, NotBroadcast, f) /\ calls' = others
      BY <1>1 DEF StartCandidate
    <2> QED
      BY <2>1, FinishOutcome
  <1>2. CASE ~(idx >= Candidates \/ r \in expired) /\ CanAppendDelivery(j, r, e)
    <2>1. PICK ok \in BOOLEAN :
            /\ Barrier(d, h, k, ok)
            /\ ok => calls' = others \cup {NewCall(r, idx)}
      BY <1>2 DEF StartCandidate, NewCall
    <2> HIDE DEF k, e
    <2>2. /\ mem' = k
          /\ health' = "Ready" => h = "Ready" /\ ok
          /\ disk' # d => h = "Ready" /\ disk' = k
      BY <2>1 DEF Barrier
    <2> QED
      BY <1>2, <2>1, <2>2 DEF k, e
  <1>3. CASE ~(idx >= Candidates \/ r \in expired) /\ ~CanAppendDelivery(j, r, e)
    BY <1>3 DEF StartCandidate, AppendRefused
  <1> QED
    BY <1>1, <1>2, <1>3

-----------------------------------------------------------------------------
(* What the disk says is not taken back.                                   *)

\* Journal k keeps what Journal d says: settled records, attempts, grants.
Keeps(d, k) ==
    /\ \A r \in Records :
         /\ d.ev[r].tag \in TerminalTags => k.ev[r] = d.ev[r]
         /\ d.ev[r].tag \in Attempted => k.ev[r].tag \in Attempted \cup {"NotBroadcast"}
    /\ d.grants \subseteq k.grants
    /\ d.spent \subseteq k.spent

(* Two appends in a row keep what the first Journal says: a message given  *)
(* up is settled.                                                          *)
LEMMA KeepsTransitive ==
    ASSUME NEW i, NEW j, NEW k, Keeps(i, j), Keeps(j, k) PROVE Keeps(i, k)
  <1>1. "NotBroadcast" \in TerminalTags
    BY DEF TerminalTags
  <1> QED
    BY <1>1 DEF Keeps

(* append_delivery: valid_delivery_transition leaves terminal evidence     *)
(* alone and goes from an attempt to an attempt or to its end.             *)
LEMMA DeliveryKeeps ==
    ASSUME NEW j \in Journal, NEW r \in Records, NEW e, CanAppendDelivery(j, r, e)
    PROVE  Keeps(j, AppendDelivery(j, r, e))
  <1> DEFINE k == AppendDelivery(j, r, e)
             p == j.ev[r]
  <1>1. ValidDeliveryTransition(p, e) /\ e \in Evidence
    BY DEF CanAppendDelivery
  <1>2. /\ k.ev[r] = e
        /\ \A s \in Records \ {r} : k.ev[s] = j.ev[s]
        /\ k.grants = j.grants /\ k.spent = j.spent
    BY <1>1, AppendDeliveryFacts
  <1>3. p.tag \notin TerminalTags
    BY <1>1, TransitionsLeaveBlocking DEF IsBlocking, BlockingTags, TerminalTags
  <1>4. p.tag \in Attempted => e.tag \in Attempted \cup {"NotBroadcast"}
    BY <1>1 DEF ValidDeliveryTransition, Attempted, AttemptTags, EndpointTags,
       VerifiedTags
  <1> HIDE DEF k, p
  <1> QED
    BY <1>2, <1>3, <1>4 DEF Keeps, k, p

(* A new record had no evidence.                                           *)
LEMMA NewRecordKeeps ==
    ASSUME NEW j \in Journal
    PROVE  /\ \A r \in Records : CanAppendPrepared(j, r) => Keeps(j, AppendPrepared(j, r))
           /\ \A g \in Grant : /\ CanAppendConsumption(j, g)
                                  => Keeps(j, AppendConsumption(j, g))
                               /\ Keeps(j, AppendGrant(j, g))
  <1>1. Absent.tag \notin TerminalTags \cup Attempted
    BY DEF Absent, TerminalTags, Attempted, AttemptTags, EndpointTags, VerifiedTags
  <1>2. ASSUME NEW r \in Records, CanAppendPrepared(j, r)
        PROVE  Keeps(j, AppendPrepared(j, r))
    BY <1>1, <1>2, AppendPreparedFacts DEF Keeps, CanAppendPrepared
  <1>3. ASSUME NEW g \in Grant, CanAppendConsumption(j, g)
        PROVE  Keeps(j, AppendConsumption(j, g))
    BY <1>1, <1>3, AppendConsumptionFacts DEF Keeps, CanAppendConsumption
  <1>4. ASSUME NEW g \in Grant PROVE Keeps(j, AppendGrant(j, g))
    BY AppendGrantFacts DEF Keeps
  <1> QED
    BY <1>2, <1>3, <1>4

(* Recovery settles and never unsettles.                                   *)
LEMMA RecoveredKeeps ==
    ASSUME NEW j \in Journal PROVE Keeps(j, Recovered(j))
  <1>1. \A e : /\ e.tag \in TerminalTags => RecoveredEvidence(e) = e
               /\ e.tag \in Attempted => RecoveredEvidence(e).tag \in Attempted
    BY DEF RecoveredEvidence, TerminalTags, Attempted, AttemptTags, EndpointTags,
           VerifiedTags, MayHaveBroadcast, Ev
  <1> QED
    BY <1>1, RecoveredFacts DEF Keeps

(* A report of the history settles what blocks.                            *)
LEMMA HistoryKeeps ==
    ASSUME TypeOK, NEW S \in SUBSET Records
    PROVE  Keeps(mem, HistoryJournal(S))
  <1> DEFINE k == HistoryJournal(S)
  <1>1. /\ k.grants = mem.grants /\ k.spent = mem.spent
        /\ \A r \in Records :
              k.ev[r] = IF r \in S \cap Blocking(mem) THEN HistoryTerminal(r)
                                                       ELSE mem.ev[r]
    BY HistoryJournalType DEF HistoryJournal, TypeOK, Journal
  <1>2. \A r \in Records : HistoryTerminal(r).tag \in Attempted
    BY DEF HistoryTerminal, Ev, Attempted, VerifiedTags
  <1>3. \A r \in Blocking(mem) : mem.ev[r].tag \notin TerminalTags
    BY DEF Blocking, IsBlocking, BlockingTags, TerminalTags
  <1> HIDE DEF k
  <1> QED
    BY <1>1, <1>2, <1>3 DEF Keeps, k

(* apply_prepared_send writes at most the new record and what             *)
(* start_prepared_candidate adds to it, and only from a healthy session.   *)
LEMMA PreparedSendKeeps ==
    ASSUME TypeOK, HealthyMeansSaved, Unlocked, NEW p \in prepares, ApplyPreparedSend(p)
    PROVE  Keeps(disk, disk')
  <1> DEFINE override == consumption = p.rec
             named == {h \in mem.grants : h.nonce = p.rec /\ h.rec = p.rec}
             g == CHOOSE h \in named : TRUE
             can == IF override THEN named # {} /\ CanAppendConsumption(mem, g)
                                ELSE CanAppendPrepared(mem, p.rec)
             j == IF override THEN AppendConsumption(mem, g)
                              ELSE AppendPrepared(mem, p.rec)
  <1>0. mem \in Journal /\ p.rec \in Records
    BY DEF TypeOK, PrepareTask
  <1>1. can => j \in Journal /\ Keeps(mem, j)
    <2>1. CASE override
      <3>1. can => g \in Grant
        BY <1>0, <2>1 DEF Journal
      <3> QED
        BY <1>0, <2>1, <3>1, NewRecordKeeps, AppendConsumptionFacts
    <2>2. CASE ~override
      BY <1>0, <2>2, NewRecordKeeps, AppendPreparedFacts
    <2> QED
      BY <2>1, <2>2
  <1>2. CASE UNCHANGED disk
    BY <1>2 DEF Keeps
  <1>3. CASE can /\ Barrier(disk, health, j, FALSE)
    <2> HIDE DEF j, can
    <2>1. disk' = disk \/ (health = "Ready" /\ disk' = j)
      BY <1>3 DEF Barrier
    <2> QED
      BY <1>1, <1>2, <1>3, <2>1 DEF HealthyMeansSaved
  <1>4. CASE /\ can /\ health = "Ready"
             /\ StartCandidate(j, "Ready", j, p.rec, 0, p.rec, calls)
    <2> HIDE DEF j, can
    <2>1. \/ disk' = j
          \/ \E e : CanAppendDelivery(j, p.rec, e) /\ disk' = AppendDelivery(j, p.rec, e)
      BY <1>4, StartOutcome
    <2>2. j \in Journal /\ Keeps(disk, j)
      BY <1>1, <1>4 DEF HealthyMeansSaved
    <2>3. Keeps(j, disk')
      <3>1. Keeps(j, j)
        BY DEF Keeps
      <3> QED
        BY <1>0, <2>1, <2>2, <3>1, DeliveryKeeps
    <2> QED
      BY <2>2, <2>3, KeepsTransitive
  <1> QED
    BY <1>2, <1>3, <1>4 DEF ApplyPreparedSend, AppendRefused

(* No handler, no failing save, no lock, crash or recovery takes back what *)
(* the disk says: whatever persist_journal_barrier writes, it writes from  *)
(* a session whose Journal is the one on disk plus legal appends.          *)
THEOREM ControllerNeverRegresses == Spec => DiskNeverRegresses
  <1>1. IInv /\ Generations /\ [Next]_vars => [Keeps(disk, disk')]_vars
    <2> SUFFICES ASSUME IInv, Generations, Next PROVE Keeps(disk, disk')
      OBVIOUS
    <2>0. mem \in Journal /\ disk \in Journal /\ TypeOK /\ HealthyMeansSaved
      BY DEF IInv, TypeOK
    <2>1. CASE UNCHANGED disk
      BY <2>1 DEF Keeps
    <2>2. CASE ConfirmRiskOverride
      <3> DEFINE g == [nonce |-> review.rec, rec |-> review.rec,
                       blockers |-> review.blockers]
      <3>1. Unlocked /\ review.rec \in Records /\ review.blockers \in SUBSET BlockerRow
        BY <2>0, <2>2 DEF ConfirmRiskOverride, TypeOK
      <3>2. g \in Grant
        BY <3>1, ControllerAssumptions DEF Grant
      <3> HIDE DEF g
      <3>3. disk' = disk \/ (health = "Ready" /\ disk' = AppendGrant(mem, g))
        BY <2>2 DEF ConfirmRiskOverride, AppendRefused, Barrier, g
      <3> QED
        BY <2>0, <2>1, <3>1, <3>2, <3>3, NewRecordKeeps DEF HealthyMeansSaved
    <2>3. CASE Unlock
      <3>1. disk' \in {disk, Recovered(disk)}
        BY <2>3, BarrierFacts DEF Unlock
      <3> QED
        BY <2>0, <2>1, <3>1, RecoveredKeeps
    <2>4. ASSUME NEW p \in prepares, ApplyPreparedSend(p) PROVE Keeps(disk, disk')
      <3>1. CASE Live(p)
        BY <2>0, <2>4, <3>1, PreparedSendKeeps DEF Generations
      <3>2. CASE ~Live(p)
        BY <2>1, <2>4, <3>2 DEF ApplyPreparedSend
      <3> QED
        BY <3>1, <3>2
    <2>5. ASSUME NEW c \in calls, ApplyCandidateOutcome(c) PROVE Keeps(disk, disk')
      <3>0. c.rec \in Records /\ (Live(c) => Unlocked)
        BY <2>0 DEF TypeOK, Call, Generations
      <3>1. \/ disk' = disk
            \/ /\ Live(c) /\ health = "Ready"
               /\ \E e : CanAppendDelivery(mem, c.rec, e)
                         /\ disk' = AppendDelivery(mem, c.rec, e)
        BY <2>5, FinishOutcome, StartOutcome DEF ApplyCandidateOutcome
      <3> QED
        BY <2>0, <2>1, <3>0, <3>1, DeliveryKeeps DEF HealthyMeansSaved
    <2>6. ASSUME NEW S \in SUBSET Records, ReconcileEndpoint(S) PROVE Keeps(disk, disk')
      <3>1. Unlocked
        BY <2>6 DEF ReconcileEndpoint
      <3>2. disk' = disk \/ (health = "Ready" /\ disk' = HistoryJournal(S))
        BY <2>6 DEF ReconcileEndpoint, HistoryJournal, AppendRefused, Barrier
      <3> QED
        BY <2>0, <2>1, <3>1, <3>2, HistoryKeeps DEF HealthyMeansSaved
    <2>7. CASE ReconcileReplayGuard
      <3> DEFINE e == Ev("VerifiedTerminalSuccess", 0)
      <3>1. Unlocked /\ awaiting \in Records
        BY <2>0, <2>7 DEF ReconcileReplayGuard, TypeOK
      <3>2. \/ disk' = disk
            \/ /\ health = "Ready" /\ CanAppendDelivery(mem, awaiting, e)
               /\ disk' = AppendDelivery(mem, awaiting, e)
        BY <2>7 DEF ReconcileReplayGuard, AppendRefused, Barrier
      <3> HIDE DEF e
      <3> QED
        BY <2>0, <2>1, <3>1, <3>2, DeliveryKeeps DEF HealthyMeansSaved
    <2> QED
      BY <2>1, <2>2, <2>3, <2>4, <2>5, <2>6, <2>7
         DEF Next, TaskEnds, RequestSend, RequestRiskOverride, ConfirmSend,
             FinishRiskReconciliation, ApplyRiskContext, CancelAuthorization, Lock,
             ApplySendFailed, Cool, ResumeFromSuspend, Expire, Transmit, CallEnds,
             ChainExecutes, ChainExecutesOther, Crash
  <1> QED
    BY <1>1, ControllerInvariant, StaleTasksAreRecognised, PTL
       DEF Spec, DiskNeverRegresses, Keeps

-----------------------------------------------------------------------------
(* Recovery, or a task of the session, takes care of every open record.    *)

(* Evidence that ends an attempt leaves no open record behind.             *)
LEMMA ClosingTags ==
    /\ NotBroadcast.tag \notin {"Prepared", "AttemptStarted"}
    /\ \A n : /\ MayHaveBroadcast(n).tag \notin {"Prepared", "AttemptStarted"}
              /\ NodeResponseObserved(n).tag \notin {"Prepared", "AttemptStarted"}
    /\ \A t \in EndpointTags \cup VerifiedTags :
          Ev(t, 0).tag \notin {"Prepared", "AttemptStarted"}
    /\ \A e : RecoveredEvidence(e).tag \notin {"Prepared", "AttemptStarted"}
  BY DEF NotBroadcast, MayHaveBroadcast, NodeResponseObserved, Ev, EndpointTags,
         VerifiedTags, RecoveredEvidence

(* Records that were tended stay tended when no call of this session ends  *)
(* and no record opens.                                                    *)
LEMMA TendedFrame ==
    ASSUME TypeOK, NoOrphanAttempt, UNCHANGED <<phase, session>>,
           health' = "Ready" => health = "Ready",
           \A c \in calls : Live(c) => \E d \in calls' :
              d.gen = c.gen /\ d.rec = c.rec /\ d.idx = c.idx,
           \A r \in Records : mem'.ev[r].tag \in {"Prepared", "AttemptStarted"}
                                 => mem'.ev[r] = mem.ev[r]
    PROVE  NoOrphanAttempt'
  BY DEF NoOrphanAttempt, Unlocked, Live

(* apply_prepared_send: the new record gets a task, or is given up.        *)
LEMMA PreparedSendTends ==
    ASSUME TypeOK, NoOrphanAttempt, NEW p \in prepares, ApplyPreparedSend(p)
    PROVE  NoOrphanAttempt'
  <1> DEFINE override == consumption = p.rec
             named == {h \in mem.grants : h.nonce = p.rec /\ h.rec = p.rec}
             g == CHOOSE h \in named : TRUE
             can == IF override THEN named # {} /\ CanAppendConsumption(mem, g)
                                ELSE CanAppendPrepared(mem, p.rec)
             j == IF override THEN AppendConsumption(mem, g)
                              ELSE AppendPrepared(mem, p.rec)
  <1>0. mem \in Journal /\ p.rec \in Records /\ UNCHANGED <<phase, session>>
    BY DEF TypeOK, PrepareTask, ApplyPreparedSend
  <1>1. can => /\ j \in Journal
               /\ \A s \in Records \ {p.rec} : j.ev[s] = mem.ev[s]
    <2>1. CASE override
      <3>1. can => g \in Grant /\ g.rec = p.rec
        BY <1>0, <2>1 DEF Journal
      <3> HIDE DEF g
      <3> QED
        BY <1>0, <2>1, <3>1, AppendConsumptionFacts
    <2>2. CASE ~override
      BY <1>0, <2>2, AppendPreparedFacts
    <2> QED
      BY <2>1, <2>2
  <1>2. CASE UNCHANGED <<mem, health, calls>>
    BY <1>0, <1>2, TendedFrame
  <1>3. CASE health' = "Failed"
    BY <1>3 DEF NoOrphanAttempt
  <1>4. CASE /\ can /\ health = "Ready"
             /\ StartCandidate(j, "Ready", j, p.rec, 0, p.rec, calls)
    <2> HIDE DEF j, can
    <2> SUFFICES ASSUME Unlocked', health' = "Ready" PROVE NoOrphanAttempt'
      BY DEF NoOrphanAttempt
    <2>1. \/ /\ CanAppendDelivery(j, p.rec, NotBroadcast)
             /\ mem' = AppendDelivery(j, p.rec, NotBroadcast)
             /\ calls' = calls
          \/ /\ CanAppendDelivery(j, p.rec, AttemptStarted(0 + 1))
             /\ mem' = AppendDelivery(j, p.rec, AttemptStarted(0 + 1))
             /\ calls' = calls \cup {NewCall(p.rec, 0)}
      BY <1>4, StartOutcome
    <2>2. \A s \in Records \ {p.rec} : mem'.ev[s] = mem.ev[s]
      BY <1>0, <1>1, <1>4, <2>1, AppendDeliveryFacts DEF CanAppendDelivery
    <2>3. \/ mem'.ev[p.rec] = NotBroadcast
          \/ /\ mem'.ev[p.rec] = AttemptStarted(0 + 1)
             /\ NewCall(p.rec, 0) \in calls'
      BY <1>0, <1>1, <1>4, <2>1, AppendDeliveryFacts DEF CanAppendDelivery
    <2>4. /\ NewCall(p.rec, 0).gen = session' /\ NewCall(p.rec, 0).rec = p.rec
          /\ NewCall(p.rec, 0).idx = 0
      BY <1>0 DEF NewCall
    <2>5. calls \subseteq calls'
      BY <2>1
    <2>6. \A s \in Records \ {p.rec} :
            mem'.ev[s].tag \in {"Prepared", "AttemptStarted"} =>
                \E c \in calls' : /\ c.gen = session' /\ c.rec = s
                                  /\ mem'.ev[s] = AttemptStarted(c.idx + 1)
      BY <1>0, <1>4, <2>2, <2>5 DEF NoOrphanAttempt, Unlocked, Live
    <2>7. mem'.ev[p.rec].tag \in {"Prepared", "AttemptStarted"} =>
                \E c \in calls' : /\ c.gen = session' /\ c.rec = p.rec
                                  /\ mem'.ev[p.rec] = AttemptStarted(c.idx + 1)
      BY <2>3, <2>4, ClosingTags
    <2> QED
      BY <2>6, <2>7 DEF NoOrphanAttempt, Live
  <1>5. CASE can /\ Barrier(disk, health, j, FALSE)
    BY <1>3, <1>5 DEF Barrier
  <1> QED
    BY <1>2, <1>3, <1>4, <1>5 DEF ApplyPreparedSend, session_vars, AppendRefused

(* apply_candidate_outcome: the record of the handled call is finished,    *)
(* handed to the next call, or was no longer this call's to finish.        *)
LEMMA CandidateOutcomeTends ==
    ASSUME TypeOK, NoOrphanAttempt, NEW c \in calls, ApplyCandidateOutcome(c)
    PROVE  NoOrphanAttempt'
  <1> DEFINE n == c.idx + 1
             others == calls \ {c}
             Tended(s) == mem'.ev[s].tag \in {"Prepared", "AttemptStarted"} =>
                \E d \in calls' : /\ d.gen = session' /\ d.rec = s
                                  /\ mem'.ev[s] = AttemptStarted(d.idx + 1)
  <1>0. mem \in Journal /\ c.rec \in Records /\ UNCHANGED <<phase, session>>
    BY DEF TypeOK, Call, ApplyCandidateOutcome
  <1> SUFFICES ASSUME Unlocked, health' = "Ready"
               PROVE  \A s \in Records : Tended(s)
    BY <1>0 DEF NoOrphanAttempt, Unlocked, Live
  <1>1. ASSUME UNCHANGED mem, health = "Ready", calls' = others,
               ~Live(c) \/ mem.ev[c.rec] # AttemptStarted(n)
        PROVE  \A s \in Records : Tended(s)
    BY <1>0, <1>1 DEF NoOrphanAttempt, Live
  <1>2. ASSUME health = "Ready", others \subseteq calls', NEW e, e \in Evidence,
               mem' = AppendDelivery(mem, c.rec, e)
        PROVE  \A s \in Records \ {c.rec} : Tended(s)
    <2>1. \A s \in Records \ {c.rec} : mem'.ev[s] = mem.ev[s]
      BY <1>0, <1>2, AppendDeliveryFacts
    <2> QED
      BY <1>0, <1>2, <2>1 DEF NoOrphanAttempt, Live
  <1>3. ASSUME NEW e, Finish(disk, health, mem, c.rec, e, inflight), calls' = others,
               e.tag \notin {"Prepared", "AttemptStarted"}
        PROVE  \A s \in Records : Tended(s)
    <2>1. /\ health = "Ready" /\ e \in Evidence
          /\ mem' = AppendDelivery(mem, c.rec, e)
      BY <1>3, FinishOutcome DEF CanAppendDelivery
    <2>2. mem'.ev[c.rec] = e
      BY <1>0, <2>1, AppendDeliveryFacts
    <2> QED
      BY <1>2, <1>3, <2>1, <2>2
  <1>4. ASSUME StartCandidate(disk, health, mem, c.rec, n, inflight, others)
        PROVE  \A s \in Records : Tended(s)
    <2> DEFINE d == NewCall(c.rec, n)
    <2>1. /\ d.gen = session' /\ d.rec = c.rec /\ d.idx = n
      BY <1>0 DEF NewCall
    <2> HIDE DEF n
    <2>2. /\ health = "Ready"
          /\ \/ /\ CanAppendDelivery(mem, c.rec, NotBroadcast)
                /\ mem' = AppendDelivery(mem, c.rec, NotBroadcast)
                /\ calls' = others
             \/ /\ CanAppendDelivery(mem, c.rec, AttemptStarted(n + 1))
                /\ mem' = AppendDelivery(mem, c.rec, AttemptStarted(n + 1))
                /\ calls' = others \cup {d}
      BY <1>4, StartOutcome
    <2>3. PICK e \in Evidence :
            /\ mem' = AppendDelivery(mem, c.rec, e)
            /\ \/ e = NotBroadcast
               \/ e = AttemptStarted(n + 1) /\ d \in calls'
      BY <2>2 DEF CanAppendDelivery
    <2>4. mem'.ev[c.rec] = e
      BY <1>0, <2>3, AppendDeliveryFacts
    <2>5. \A s \in Records \ {c.rec} : Tended(s)
      BY <1>2, <2>2, <2>3
    <2>6. Tended(c.rec)
      BY <2>1, <2>3, <2>4, ClosingTags
    <2> QED
      BY <2>5, <2>6
  <1> QED
    BY <1>1, <1>3, <1>4, ClosingTags DEF ApplyCandidateOutcome

(* Whenever an unlocked wallet is healthy, a record in Prepared or         *)
(* AttemptStarted has a task of this very session that will finish it:     *)
(* recover_restored_delivery_state leaves none open, and every handler     *)
(* either spawns the task or closes the record.                            *)
THEOREM ControllerNoOrphan == Spec => []NoOrphanAttempt
  <1>1. Init => NoOrphanAttempt
    BY DEF Init, NoOrphanAttempt, Unlocked
  <1>2. TypeOK /\ NoOrphanAttempt /\ [Next]_vars => NoOrphanAttempt'
    <2> SUFFICES ASSUME TypeOK, NoOrphanAttempt, [Next]_vars PROVE NoOrphanAttempt'
      OBVIOUS
    <2>0. mem \in Journal
      BY DEF TypeOK
    <2>1. CASE UNCHANGED <<phase, session, mem, health, calls>>
      BY <2>1, TendedFrame
    <2>2. CASE Lock \/ Crash
      BY <2>2 DEF Lock, Crash, NoOrphanAttempt, Unlocked
    <2>3. CASE Unlock
      <3>1. mem' = Recovered(disk)
        BY <2>3, BarrierFacts DEF Unlock
      <3>2. \A r \in Records : mem'.ev[r] = RecoveredEvidence(disk.ev[r])
        BY <3>1, RecoveredFacts DEF TypeOK
      <3> QED
        BY <3>2, ClosingTags DEF NoOrphanAttempt
    <2>4. CASE ConfirmRiskOverride
      <3> DEFINE g == [nonce |-> review.rec, rec |-> review.rec,
                       blockers |-> review.blockers]
      <3>1. review.rec \in Records /\ review.blockers \in SUBSET BlockerRow
        BY <2>4 DEF ConfirmRiskOverride, TypeOK
      <3>2. g \in Grant
        BY <3>1, ControllerAssumptions DEF Grant
      <3> HIDE DEF g
      <3>3. /\ UNCHANGED <<phase, session, calls>>
            /\ mem' \in {mem, AppendGrant(mem, g)}
            /\ health' = "Ready" => health = "Ready"
        BY <2>4 DEF ConfirmRiskOverride, AppendRefused, Barrier, task_vars, g
      <3>4. mem'.ev = mem.ev
        BY <2>0, <3>2, <3>3, AppendGrantFacts
      <3> QED
        BY <3>3, <3>4, TendedFrame
    <2>5. ASSUME NEW p \in prepares, ApplyPreparedSend(p) PROVE NoOrphanAttempt'
      BY <2>5, PreparedSendTends
    <2>6. ASSUME NEW c \in calls, ApplyCandidateOutcome(c) PROVE NoOrphanAttempt'
      BY <2>6, CandidateOutcomeTends
    <2>7. ASSUME NEW S \in SUBSET Records, ReconcileEndpoint(S) PROVE NoOrphanAttempt'
      <3>1. /\ UNCHANGED <<phase, session, calls>>
            /\ mem' \in {mem, HistoryJournal(S)}
            /\ health' = "Ready" => health = "Ready"
        BY <2>7 DEF ReconcileEndpoint, AppendRefused, Barrier, HistoryJournal, task_vars
      <3>2. \A r \in Records : HistoryJournal(S).ev[r] \in {mem.ev[r], HistoryTerminal(r)}
        BY <2>0 DEF HistoryJournal, Journal
      <3>3. \A r \in Records : HistoryTerminal(r).tag \notin {"Prepared", "AttemptStarted"}
        BY DEF HistoryTerminal, Ev
      <3> QED
        BY <3>1, <3>2, <3>3, TendedFrame
    <2>8. CASE ReconcileReplayGuard
      <3> DEFINE e == Ev("VerifiedTerminalSuccess", 0)
      <3>1. /\ UNCHANGED <<phase, session, calls>> /\ awaiting \in Records
            /\ mem' \in {mem, AppendDelivery(mem, awaiting, e)}
            /\ health' = "Ready" => health = "Ready"
        BY <2>8 DEF ReconcileReplayGuard, AppendRefused, Barrier, task_vars, TypeOK
      <3>2. e \in Evidence /\ e.tag \notin {"Prepared", "AttemptStarted"}
        BY BuiltEvidence, ClosingTags DEF VerifiedTags
      <3> HIDE DEF e
      <3>3. \A r \in Records : mem'.ev[r] \in {mem.ev[r], e}
        BY <2>0, <3>1, <3>2, AppendDeliveryFacts
      <3> QED
        BY <3>1, <3>2, <3>3, TendedFrame
    <2>9. ASSUME NEW c \in calls, NEW st, SetCall(c, st),
                 UNCHANGED <<phase, session, mem, health>>
          PROVE  NoOrphanAttempt'
      <3> DEFINE d == [c EXCEPT !.st = st]
      <3>1. d.rec = c.rec /\ d.idx = c.idx /\ d.gen = c.gen
        BY DEF TypeOK, Call
      <3>2. calls' = (calls \ {c}) \cup {d}
        BY <2>9 DEF SetCall
      <3> HIDE DEF d
      <3> QED
        BY <2>9, <3>1, <3>2, TendedFrame
    <2> QED
      BY <2>1, <2>2, <2>3, <2>4, <2>5, <2>6, <2>7, <2>8, <2>9
         DEF Next, TaskEnds, vars, session_vars, task_vars, RequestSend,
             RequestRiskOverride, ConfirmSend, FinishRiskReconciliation,
             ApplyRiskContext, CancelAuthorization, ApplySendFailed, Cool,
             ResumeFromSuspend, Expire, Transmit, CallEnds, ChainExecutes,
             ChainExecutesOther
  <1> QED
    BY <1>1, <1>2, ControllerTypeCorrect, PTL DEF Spec

-----------------------------------------------------------------------------
(* Why the Journal never refuses a handler.                                *)

Ungranted(j, n) == \A g \in j.grants : g.nonce # n

\* Journal j knows only drawn tickets, and spends only nonces it granted.
KnownTickets(j) ==
    /\ \A r \in Records \ drawn : j.ev[r] = Absent /\ Ungranted(j, r)
    /\ \A n \in j.spent : ~Ungranted(j, n)

\* One transfer is on its way at a time: while it is, nothing is asked of the
\* user, and until its record is in the Journal nothing there blocks it that
\* its grant does not name.
OneSend ==
    /\ inflight # NoRec => sending
    /\ sending => auth = NoRec /\ review = NoReview /\ riskStage = "none"
    /\ \A p \in prepares : Live(p) =>
          /\ sending /\ inflight = NoRec
          /\ p.rec \in drawn /\ mem.ev[p.rec] = Absent
          /\ p.risk \/ Blocking(mem) = {}
          /\ \A q \in prepares : Live(q) => q = p
    /\ \A c \in calls : mem.ev[c.rec].tag = "AttemptStarted" => inflight = c.rec
    /\ awaiting # NoRec => mem.ev[awaiting].tag \notin {"Absent", "Prepared"}

\* The grant confirm_risk_override wrote for record r.
Named(j, r) == {g \in j.grants : g.nonce = r /\ g.rec = r}

\* What the user was asked is about a new record, and a confirmed override
\* still names exactly the records that block.
ReviewHolds ==
    /\ auth # NoRec => auth \in drawn /\ mem.ev[auth] = Absent
    /\ riskStage # "none" \/ review # NoReview => Blocking(mem) # {}
    /\ riskStage # "none" /\ auth # NoRec => Ungranted(mem, auth)
    /\ review # NoReview =>
          /\ auth = NoRec /\ riskStage = "none"
          /\ review.rec \in drawn /\ mem.ev[review.rec] = Absent
          /\ Ungranted(mem, review.rec)
          /\ review.blockers # {}
    /\ consumption # NoRec =>
          /\ inflight = NoRec
          /\ mem.ev[consumption] = Absent /\ consumption \notin mem.spent
          /\ Named(mem, consumption) # {}
          /\ \A g \in Named(mem, consumption) :
                g.blockers = BlockerRows(mem) /\ g.blockers # {}

Accepting ==
    /\ ~rejected
    /\ \A r \in Records : executed[r] # "no" => r \in wire
    /\ KnownTickets(disk)
    /\ Unlocked => KnownTickets(mem) /\ OneSend /\ ReviewHolds

(* Evidence for a known record introduces no ticket, and no blocker.       *)
LEMMA DeliveryKnown ==
    ASSUME NEW j \in Journal, NEW r \in Records, NEW e,
           CanAppendDelivery(j, r, e), KnownTickets(j)
    PROVE  LET k == AppendDelivery(j, r, e)
           IN  /\ KnownTickets(k)
               /\ k.ev[r] = e /\ e \in Evidence /\ j.ev[r] # Absent
               /\ \A s \in Records \ {r} : k.ev[s] = j.ev[s]
               /\ Blocking(k) \subseteq Blocking(j)
  <1> DEFINE k == AppendDelivery(j, r, e)
  <1>1. e \in Evidence /\ j.ev[r] # Absent /\ IsBlocking(j.ev[r].tag)
    BY TransitionsLeaveBlocking DEF CanAppendDelivery
  <1>2. /\ k.ev[r] = e
        /\ \A s \in Records \ {r} : k.ev[s] = j.ev[s]
        /\ k.grants = j.grants /\ k.spent = j.spent
    BY <1>1, AppendDeliveryFacts
  <1> HIDE DEF k
  <1>3. KnownTickets(k)
    BY <1>1, <1>2 DEF KnownTickets, Ungranted
  <1>4. Blocking(k) \subseteq Blocking(j)
    BY <1>1, <1>2 DEF Blocking
  <1> QED
    BY <1>1, <1>2, <1>3, <1>4 DEF k

\* The in-flight send f goes on, or is over.
GoesOnOrEnds(f) ==
    \/ inflight' = f /\ UNCHANGED sending
    \/ inflight' = NoRec /\ sending' = FALSE

(* A finish whose evidence is legal.                                       *)
LEMMA FinishAccepted ==
    ASSUME NEW d, NEW h, NEW j, NEW r, NEW e, NEW f, Finish(d, h, j, r, e, f),
           CanAppendDelivery(j, r, e)
    PROVE  /\ UNCHANGED rejected
           /\ mem' = AppendDelivery(j, r, e)
           /\ disk' \in {d, mem'}
           /\ GoesOnOrEnds(f)
  <1> DEFINE k == AppendDelivery(j, r, e)
  <1>1. UNCHANGED rejected
    BY DEF Finish
  <1>2. PICK ok \in BOOLEAN : /\ Barrier(d, h, k, ok)
                              /\ ClearInFlight(f, IF ok THEN {r} ELSE {})
    BY DEF Finish
  <1> HIDE DEF k
  <1>3. mem' = k /\ disk' \in {d, mem'}
    BY <1>2, BarrierFacts
  <1>4. GoesOnOrEnds(f)
    BY <1>2 DEF ClearInFlight, GoesOnOrEnds
  <1> QED
    BY <1>1, <1>3, <1>4 DEF k

(* A start whose message may be given up or attempted: the Journal accepts *)
(* what it appends, and an attempt stays the one in flight.                *)
LEMMA StartAccepted ==
    ASSUME NEW d, NEW h, NEW j, NEW r, NEW idx, NEW f, NEW others,
           StartCandidate(d, h, j, r, idx, f, others),
           CanAppendDelivery(j, r, NotBroadcast),
           idx >= Candidates \/ CanAppendDelivery(j, r, AttemptStarted(idx + 1))
    PROVE  /\ UNCHANGED rejected
           /\ \/ /\ mem' = AppendDelivery(j, r, NotBroadcast)
                 /\ calls' = others
                 /\ UNCHANGED awaiting
                 /\ GoesOnOrEnds(f)
              \/ /\ CanAppendDelivery(j, r, AttemptStarted(idx + 1))
                 /\ mem' = AppendDelivery(j, r, AttemptStarted(idx + 1))
                 /\ calls' \subseteq others \cup {NewCall(r, idx)}
                 /\ awaiting' \in {awaiting, r}
                 /\ inflight' = f /\ UNCHANGED sending
           /\ disk' \in {d, mem'}
  <1> DEFINE e == AttemptStarted(idx + 1)
             k == AppendDelivery(j, r, e)
  <1>1. CASE idx >= Candidates \/ r \in expired
    <2>1. /\ Finish(d, h, j, r, NotBroadcast, f) /\ calls' = others
          /\ UNCHANGED awaiting
      BY <1>1 DEF StartCandidate
    <2> QED
      BY <2>1, FinishAccepted
  <1>2. CASE ~(idx >= Candidates \/ r \in expired)
    <2>1. UNCHANGED rejected /\ ClearInFlight(f, {})
      BY <1>2 DEF StartCandidate
    <2>2. PICK ok \in BOOLEAN :
            /\ Barrier(d, h, k, ok)
            /\ IF ok
               THEN awaiting' = r /\ calls' = others \cup {NewCall(r, idx)}
               ELSE calls' = others /\ UNCHANGED awaiting
      BY <1>2 DEF StartCandidate, NewCall
    <2>3. CanAppendDelivery(j, r, e)
      BY <1>2
    <2> HIDE DEF k, e
    <2>4. mem' = k /\ disk' \in {d, mem'}
      BY <2>2, BarrierFacts
    <2>5. inflight' = f /\ UNCHANGED sending
      BY <2>1 DEF ClearInFlight
    <2>6. calls' \subseteq others \cup {NewCall(r, idx)} /\ awaiting' \in {awaiting, r}
      BY <2>2
    <2> QED
      BY <2>1, <2>3, <2>4, <2>5, <2>6 DEF k, e
  <1> QED
    BY <1>1, <1>2

(* invalidate_pending_risk_after_journal_change leaves nothing reviewed.   *)
LEMMA InvalidateFacts ==
    ASSUME InvalidatePendingRisk
    PROVE  /\ riskStage' = "none" /\ review' = NoReview /\ consumption' = NoRec
           /\ auth' \in {auth, NoRec}
  BY DEF InvalidatePendingRisk, DropAuthorization

(* Two Journals with the same evidence block the same records.             *)
LEMMA SameBlocking ==
    ASSUME NEW j, NEW k, \A r \in Records : j.ev[r] = k.ev[r]
    PROVE  Blocking(j) = Blocking(k) /\ BlockerRows(j) = BlockerRows(k)
  <1>1. Blocking(j) = Blocking(k)
    BY DEF Blocking
  <1> QED
    BY <1>1 DEF BlockerRows, Blocking

(* A Journal without blocking records has no blocker rows.                 *)
LEMMA RowsOfBlocking ==
    ASSUME NEW j PROVE BlockerRows(j) = {} <=> Blocking(j) = {}
  BY DEF BlockerRows

(* A step that leaves the session, the Journals and the prepare tasks      *)
(* alone, and starts no call, keeps everything accepted.                   *)
LEMMA AcceptingFrame ==
    ASSUME TypeOK, Accepting,
           UNCHANGED <<phase, session, mem, disk, sending, inflight, awaiting, auth,
                       riskStage, review, consumption, prepares, drawn, rejected>>,
           \A d \in calls' : \E c \in calls : c.rec = d.rec,
           \A r \in Records : executed'[r] # "no" => r \in wire'
    PROVE  Accepting'
  <1>1. KnownTickets(disk)' /\ (Unlocked' => KnownTickets(mem)')
    BY DEF Accepting, KnownTickets, Ungranted, Unlocked
  <1>2. Unlocked' => OneSend'
    BY DEF Accepting, OneSend, Unlocked, Live, NoReview, Blocking
  <1>3. Unlocked' => ReviewHolds'
    BY DEF Accepting, ReviewHolds, Unlocked, Ungranted, Named, Blocking, BlockerRows,
       NoReview
  <1> QED
    BY <1>1, <1>2, <1>3 DEF Accepting

(* request_send: a fresh ticket, asked for while nothing blocks.           *)
LEMMA RequestSendAccepted ==
    ASSUME TypeOK, Accepting, NEW r \in Records, RequestSend(r) PROVE Accepting'
  <1>1. /\ UNCHANGED <<phase, session, mem, disk, sending, inflight, awaiting,
                       riskStage, review, consumption, prepares, calls, wire,
                       executed, rejected>>
        /\ Unlocked /\ ~sending /\ r \notin drawn /\ auth' = r
        /\ drawn' = drawn \cup {r} /\ Blocking(mem) = {}
    BY DEF RequestSend, chain_vars
  <1>2. /\ KnownTickets(disk) /\ KnownTickets(mem) /\ OneSend /\ ReviewHolds
        /\ mem.ev[r] = Absent
    BY <1>1 DEF Accepting, KnownTickets
  <1>3. KnownTickets(disk)' /\ KnownTickets(mem)'
    BY <1>1, <1>2 DEF KnownTickets, Ungranted
  <1>4. OneSend'
    BY <1>1, <1>2 DEF OneSend, Live, NoReview, Blocking
  <1>5. ReviewHolds'
    BY <1>1, <1>2 DEF ReviewHolds, Ungranted, Named, NoReview, Blocking, BlockerRows
  <1> QED
    BY <1>1, <1>3, <1>4, <1>5 DEF Accepting

(* request_risk_override: a fresh ticket, never granted.                   *)
LEMMA RequestRiskOverrideAccepted ==
    ASSUME TypeOK, Accepting, NEW r \in Records, RequestRiskOverride(r) PROVE Accepting'
  <1>1. /\ UNCHANGED <<phase, session, mem, disk, sending, inflight, awaiting,
                       review, consumption, prepares, calls, wire, executed, rejected>>
        /\ Unlocked /\ ~sending /\ r \notin drawn /\ auth' = r
        /\ drawn' = drawn \cup {r} /\ Blocking(mem) # {}
        /\ review = NoReview /\ riskStage' = "reconciling"
    BY DEF RequestRiskOverride, chain_vars
  <1>2. /\ KnownTickets(disk) /\ KnownTickets(mem) /\ OneSend /\ ReviewHolds
        /\ mem.ev[r] = Absent /\ Ungranted(mem, r)
    BY <1>1 DEF Accepting, KnownTickets
  <1>3. KnownTickets(disk)' /\ KnownTickets(mem)'
    BY <1>1, <1>2 DEF KnownTickets, Ungranted
  <1>4. OneSend'
    BY <1>1, <1>2 DEF OneSend, Live, NoReview, Blocking
  <1>5. ReviewHolds'
    BY <1>1, <1>2 DEF ReviewHolds, Ungranted, Named, NoReview, Blocking, BlockerRows
  <1> QED
    BY <1>1, <1>3, <1>4, <1>5 DEF Accepting

(* send_authorized_transaction: a transfer is prepared only while no other *)
(* is on its way, and unless overridden only while nothing blocks.         *)
LEMMA ConfirmSendAccepted ==
    ASSUME TypeOK, Accepting, NEW b \in BOOLEAN, ConfirmSend(b) PROVE Accepting'
  <1> DEFINE p == [gen |-> session, rec |-> auth, risk |-> consumption = auth]
  <1>1. /\ UNCHANGED <<phase, session, mem, disk, inflight, awaiting, riskStage,
                       review, consumption, calls, drawn, wire, executed, rejected>>
        /\ Unlocked /\ auth # NoRec /\ auth' = NoRec
        /\ \/ UNCHANGED <<sending, prepares>>
           \/ /\ ~sending /\ sending' = TRUE
              /\ Blocking(mem) = {} \/ consumption = auth
              /\ prepares' = prepares \cup {p}
    BY DEF ConfirmSend, chain_vars
  <1>2. KnownTickets(disk) /\ KnownTickets(mem) /\ OneSend /\ ReviewHolds
    BY <1>1 DEF Accepting
  <1>3. KnownTickets(disk)' /\ KnownTickets(mem)'
    BY <1>1, <1>2 DEF KnownTickets, Ungranted
  <1>4. ReviewHolds'
    BY <1>1, <1>2 DEF ReviewHolds, Ungranted, Named, NoReview, Blocking, BlockerRows
  <1>5. OneSend'
    <2>1. CASE UNCHANGED <<sending, prepares>>
      BY <1>1, <1>2, <2>1 DEF OneSend, Live, NoReview, Blocking
    <2>2. CASE /\ ~sending /\ sending' = TRUE
               /\ Blocking(mem) = {} \/ consumption = auth
               /\ prepares' = prepares \cup {p}
      <3>1. p.gen = session /\ p.rec = auth /\ p.risk = (consumption = auth)
        OBVIOUS
      <3> HIDE DEF p
      <3>2. inflight = NoRec /\ \A q \in prepares : ~Live(q)
        BY <1>2, <2>2 DEF OneSend
      <3>3. auth \in drawn /\ mem.ev[auth] = Absent
        BY <1>1, <1>2 DEF ReviewHolds
      <3>4. review = NoReview /\ riskStage = "none"
        <4>1. review # NoReview => auth = NoRec
          BY <1>2 DEF ReviewHolds
        <4>2. riskStage # "none" => Blocking(mem) # {} /\ Ungranted(mem, auth)
          BY <1>1, <1>2 DEF ReviewHolds
        <4>3. consumption = auth => ~Ungranted(mem, auth)
          BY <1>1, <1>2 DEF ReviewHolds, Named, Ungranted
        <4> QED
          BY <1>1, <2>2, <4>1, <4>2, <4>3
      <3>5. /\ \A q \in prepares' : Live(q)' => q = p
            /\ p.risk \/ Blocking(mem) = {}
        BY <1>1, <2>2, <3>1, <3>2 DEF Live
      <3>6. /\ \A c \in calls : mem.ev[c.rec].tag = "AttemptStarted" => inflight = c.rec
            /\ awaiting # NoRec => mem.ev[awaiting].tag \notin {"Absent", "Prepared"}
        BY <1>2 DEF OneSend
      <3> QED
        BY <1>1, <2>2, <3>1, <3>2, <3>3, <3>4, <3>5, <3>6 DEF OneSend, NoReview, Blocking
    <2> QED
      BY <1>1, <2>1, <2>2
  <1> QED
    BY <1>1, <1>3, <1>4, <1>5 DEF Accepting

(* Dropping or advancing what was asked keeps the rest.                    *)
LEMMA AskingAccepted ==
    ASSUME TypeOK, Accepting,
           \/ CancelAuthorization
           \/ \E b \in BOOLEAN : FinishRiskReconciliation(b) \/ ApplyRiskContext(b)
    PROVE  Accepting'
  <1>1. /\ UNCHANGED <<phase, session, mem, disk, sending, inflight, awaiting,
                       prepares, calls, drawn, wire, executed, rejected>>
        /\ Unlocked
        /\ \/ DropAuthorization
           \/ /\ riskStage = "reconciling" /\ riskStage' = "loading"
              /\ UNCHANGED <<auth, review, consumption>>
           \/ /\ riskStage = "loading" /\ riskStage' = "none"
              /\ auth # NoRec /\ auth' = NoRec /\ Blocking(mem) # {}
              /\ review' = [rec |-> auth, blockers |-> BlockerRows(mem)]
              /\ UNCHANGED consumption
    BY DEF CancelAuthorization, FinishRiskReconciliation, ApplyRiskContext,
           task_vars, chain_vars
  <1>2. KnownTickets(disk) /\ KnownTickets(mem) /\ OneSend /\ ReviewHolds
    BY <1>1 DEF Accepting
  <1>3. KnownTickets(disk)' /\ KnownTickets(mem)'
    BY <1>1, <1>2 DEF KnownTickets, Ungranted
  <1>4. CASE DropAuthorization
    <2>1. OneSend'
      BY <1>1, <1>2, <1>4 DEF OneSend, Live, NoReview, Blocking, DropAuthorization
    <2>2. ReviewHolds'
      BY <1>1, <1>2, <1>4 DEF ReviewHolds, NoReview, DropAuthorization
    <2> QED
      BY <1>1, <1>3, <2>1, <2>2 DEF Accepting
  <1>5. CASE /\ riskStage = "reconciling" /\ riskStage' = "loading"
             /\ UNCHANGED <<auth, review, consumption>>
    <2>1. OneSend'
      BY <1>1, <1>2, <1>5 DEF OneSend, Live, NoReview, Blocking
    <2>2. ReviewHolds'
      BY <1>1, <1>2, <1>5
         DEF ReviewHolds, NoReview, Ungranted, Named, Blocking, BlockerRows
    <2> QED
      BY <1>1, <1>3, <2>1, <2>2 DEF Accepting
  <1>6. CASE /\ riskStage = "loading" /\ riskStage' = "none"
             /\ auth # NoRec /\ auth' = NoRec /\ Blocking(mem) # {}
             /\ review' = [rec |-> auth, blockers |-> BlockerRows(mem)]
             /\ UNCHANGED consumption
    <2>0. /\ review'.rec = auth /\ review'.blockers = BlockerRows(mem)
          /\ BlockerRows(mem) # {} /\ ~sending
          /\ auth \in drawn /\ mem.ev[auth] = Absent /\ Ungranted(mem, auth)
      BY <1>1, <1>2, <1>6, RowsOfBlocking DEF ReviewHolds, OneSend
    <2>1. OneSend'
      BY <1>1, <1>2, <1>6, <2>0 DEF OneSend, Live, NoReview, Blocking
    <2>2. ReviewHolds'
      <3>1. Blocking(mem)' = Blocking(mem) /\ BlockerRows(mem)' = BlockerRows(mem)
        BY <1>1
      <3> QED
        BY <1>1, <1>2, <1>6, <2>0, <3>1 DEF ReviewHolds, Ungranted, Named
    <2> QED
      BY <1>1, <1>3, <2>1, <2>2 DEF Accepting
  <1> QED
    BY <1>1, <1>4, <1>5, <1>6

(* confirm_risk_override: the reviewed blockers are the Journal's and the  *)
(* nonce is new, so the grant is accepted, and it names what blocks.       *)
LEMMA ConfirmRiskOverrideAccepted ==
    ASSUME TypeOK, Accepting, ConfirmRiskOverride PROVE Accepting'
  <1> DEFINE g == [nonce |-> review.rec, rec |-> review.rec,
                   blockers |-> review.blockers]
             k == AppendGrant(mem, g)
  <1>1. /\ UNCHANGED <<phase, session, sending, inflight, awaiting, prepares, calls,
                       drawn, wire, executed>>
        /\ Unlocked /\ review # NoReview
    BY DEF ConfirmRiskOverride, task_vars, chain_vars
  <1>2. /\ KnownTickets(disk) /\ KnownTickets(mem) /\ OneSend /\ ReviewHolds
        /\ mem \in Journal /\ ~sending
        /\ review.rec \in drawn /\ mem.ev[review.rec] = Absent
        /\ Ungranted(mem, review.rec) /\ review.blockers # {}
        /\ riskStage = "none" /\ inflight = NoRec
    BY <1>1 DEF Accepting, OneSend, ReviewHolds, TypeOK
  <1>3. review.rec \in Records /\ review.blockers \in SUBSET BlockerRow
    BY <1>1 DEF TypeOK
  <1>4. g \in Grant /\ g.nonce = review.rec /\ g.rec = review.rec
        /\ g.blockers = review.blockers
    BY <1>3, ControllerAssumptions DEF Grant
  <1> HIDE DEF g
  <1>5. CASE ~cooled \/ BlockerRows(mem) # review.blockers
    <2>1. DropAuthorization /\ UNCHANGED <<mem, disk, rejected>>
      BY <1>5 DEF ConfirmRiskOverride
    <2>2. KnownTickets(disk)' /\ KnownTickets(mem)'
      BY <1>1, <1>2, <2>1 DEF KnownTickets, Ungranted
    <2>3. OneSend'
      BY <1>1, <1>2, <2>1 DEF OneSend, Live, NoReview, Blocking, DropAuthorization
    <2>4. ReviewHolds'
      BY <2>1 DEF ReviewHolds, NoReview, DropAuthorization
    <2> QED
      BY <1>1, <2>1, <2>2, <2>3, <2>4 DEF Accepting
  <1>6. CASE ~(~cooled \/ BlockerRows(mem) # review.blockers)
    <2>1. CanAppendGrant(mem, g)
      BY <1>2, <1>4, <1>6 DEF CanAppendGrant, Ungranted
    <2>2. UNCHANGED rejected
      BY <1>6, <2>1 DEF ConfirmRiskOverride, g
    <2>3. PICK ok \in BOOLEAN :
            /\ Barrier(disk, health, k, ok)
            /\ IF ok
               THEN /\ consumption' = review.rec /\ auth' = review.rec
                    /\ review' = NoReview /\ UNCHANGED riskStage
               ELSE DropAuthorization
      BY <1>6, <2>1 DEF ConfirmRiskOverride, g
    <2>4. /\ k.ev = mem.ev /\ k.spent = mem.spent /\ k.grants = mem.grants \cup {g}
      BY <1>2, <1>4, AppendGrantFacts
    <2> HIDE DEF k
    <2>5. mem' = k /\ disk' \in {disk, k}
      BY <2>3, BarrierFacts
    <2>6. KnownTickets(mem)'
      BY <1>1, <1>2, <1>4, <2>4, <2>5 DEF KnownTickets, Ungranted
    <2>7. KnownTickets(disk)'
      BY <1>1, <1>2, <2>5, <2>6 DEF KnownTickets, Ungranted
    <2>8. Blocking(mem)' = Blocking(mem) /\ BlockerRows(mem)' = BlockerRows(mem)
      BY <2>4, <2>5, SameBlocking
    <2>9. review' = NoReview /\ riskStage' = "none"
      BY <1>2, <2>3 DEF DropAuthorization
    <2>10. OneSend'
      <3>1. \A q \in prepares : ~Live(q)
        BY <1>2 DEF OneSend
      <3> QED
        BY <1>1, <1>2, <2>4, <2>5, <2>9, <3>1 DEF OneSend, Live
    <2>11. ReviewHolds'
      <3>1. CASE ok
        <4>1. auth' = review.rec /\ consumption' = review.rec
          BY <2>3, <3>1
        <4>2. Named(mem, consumption)' = {g}
          BY <1>2, <1>4, <2>4, <2>5, <4>1 DEF Named, Ungranted
        <4>3. review.rec \notin mem.spent
          BY <1>2 DEF KnownTickets
        <4> QED
          BY <1>1, <1>2, <1>4, <1>6, <2>4, <2>5, <2>8, <2>9, <4>1, <4>2, <4>3
             DEF ReviewHolds
      <3>2. CASE ~ok
        BY <2>3, <3>2 DEF ReviewHolds, NoReview, DropAuthorization
      <3> QED
        BY <3>1, <3>2
    <2> QED
      BY <1>1, <2>2, <2>6, <2>7, <2>10, <2>11 DEF Accepting
  <1> QED
    BY <1>5, <1>6

(* finish_lock and a crash leave the disk as it is.                        *)
LEMMA LockAccepted ==
    ASSUME TypeOK, Accepting, Lock \/ Crash PROVE Accepting'
  <1>1. UNCHANGED <<disk, drawn, wire, executed, rejected>> /\ ~Unlocked'
    BY DEF Lock, Crash, task_vars, chain_vars, Unlocked
  <1> QED
    BY <1>1 DEF Accepting, KnownTickets, Ungranted

(* enter_app: recovery invents no ticket, and no task of an older session  *)
(* is taken for one of this session.                                       *)
LEMMA UnlockAccepted ==
    ASSUME TypeOK, TypeOK', Generations, Owned', Accepting, Unlock PROVE Accepting'
  <1> DEFINE k == Recovered(disk)
  <1>1. /\ UNCHANGED <<prepares, calls, drawn, wire, executed, rejected>>
        /\ session' = session + 1
        /\ ResetSession
    BY DEF Unlock, task_vars, chain_vars
  <1>2. mem' = k /\ disk' \in {disk, k}
    BY BarrierFacts DEF Unlock
  <1>3. /\ \A r \in Records : k.ev[r] = RecoveredEvidence(disk.ev[r])
        /\ k.grants = disk.grants /\ k.spent = disk.spent
    BY RecoveredFacts DEF TypeOK
  <1> HIDE DEF k
  <1>4. RecoveredEvidence(Absent) = Absent
    BY DEF RecoveredEvidence, Absent
  <1>5. KnownTickets(k)
    BY <1>3, <1>4 DEF Accepting, KnownTickets, Ungranted
  <1>6. KnownTickets(disk)' /\ KnownTickets(mem)'
    BY <1>1, <1>2, <1>5 DEF Accepting, KnownTickets, Ungranted
  <1>7. \A p \in prepares' : ~Live(p)'
    <2>1. \A p \in prepares : p.gen \in Nat /\ p.gen <= session /\ session \in Nat
      BY DEF Generations, TypeOK, PrepareTask
    <2> QED
      BY <1>1, <2>1 DEF Live
  <1>8. \A c \in calls' : mem'.ev[c.rec].tag # "AttemptStarted"
    BY <1>1, <1>2, <1>3, ClosingTags DEF TypeOK, Call
  <1>9. OneSend'
    BY <1>1, <1>7, <1>8 DEF OneSend, ResetSession, DropAuthorization
  <1>10. ReviewHolds'
    BY <1>1 DEF ReviewHolds, ResetSession, DropAuthorization, NoReview
  <1> QED
    BY <1>1, <1>6, <1>9, <1>10 DEF Accepting

(* AppEvent::SendFailed ends the transfer that was on its way.             *)
LEMMA SendFailedAccepted ==
    ASSUME TypeOK, Generations, Accepting, NEW p \in prepares, ApplySendFailed(p)
    PROVE  Accepting'
  <1>1. /\ UNCHANGED <<phase, session, mem, disk, inflight, awaiting, auth, riskStage,
                       review, calls, drawn, wire, executed, rejected>>
        /\ prepares' = prepares \ {p}
        /\ IF Live(p) THEN sending' = FALSE /\ consumption' = NoRec
                      ELSE UNCHANGED <<sending, consumption>>
    BY DEF ApplySendFailed, chain_vars
  <1>2. KnownTickets(disk)' /\ (Unlocked' => KnownTickets(mem)')
    BY <1>1 DEF Accepting, KnownTickets, Ungranted, Unlocked
  <1>3. ASSUME Unlocked PROVE OneSend'
    <2>1. OneSend
      BY <1>3 DEF Accepting
    <2> QED
      BY <1>1, <2>1 DEF OneSend, Live, NoReview, Blocking
  <1>4. ASSUME Unlocked PROVE ReviewHolds'
    <2>1. ReviewHolds
      BY <1>4 DEF Accepting
    <2> QED
      BY <1>1, <2>1 DEF ReviewHolds, NoReview, Ungranted, Named, Blocking, BlockerRows
  <1> QED
    BY <1>1, <1>2, <1>3, <1>4 DEF Accepting, Unlocked

(* apply_prepared_send of this session is accepted: nothing was let in     *)
(* since the transfer was confirmed, and a spendable grant names what      *)
(* blocks.  What it then appends is a legal successor of Prepared.         *)
LEMMA PreparedSendAccepted ==
    ASSUME TypeOK, TypeOK', Accepting, Unlocked, NEW p \in prepares, Live(p),
           ApplyPreparedSend(p)
    PROVE  Accepting'
  <1> DEFINE override == consumption = p.rec
             named == {h \in mem.grants : h.nonce = p.rec /\ h.rec = p.rec}
             g == CHOOSE h \in named : TRUE
             can == IF override THEN named # {} /\ CanAppendConsumption(mem, g)
                                ELSE CanAppendPrepared(mem, p.rec)
             j == IF override THEN AppendConsumption(mem, g)
                              ELSE AppendPrepared(mem, p.rec)
  <1>1. /\ UNCHANGED <<phase, session, drawn, wire, executed>>
        /\ prepares' = prepares \ {p}
    BY DEF ApplyPreparedSend, chain_vars
  <1>2. /\ KnownTickets(disk) /\ KnownTickets(mem) /\ OneSend /\ ReviewHolds
        /\ mem \in Journal /\ p.rec \in Records /\ p.rec # NoRec
    BY ControllerAssumptions DEF Accepting, TypeOK, PrepareTask
  <1>3. /\ sending /\ inflight = NoRec /\ p.rec \in drawn /\ mem.ev[p.rec] = Absent
        /\ p.risk \/ Blocking(mem) = {}
        /\ auth = NoRec /\ review = NoReview /\ riskStage = "none"
        /\ \A q \in prepares' : ~Live(q)
        /\ \A c \in calls : /\ mem.ev[c.rec].tag # "AttemptStarted"
                            /\ c.rec \in Records
        /\ awaiting # NoRec => mem.ev[awaiting].tag \notin {"Absent", "Prepared"}
    <2>1. \A c \in calls : c.rec \in Records /\ c.rec # NoRec
      BY ControllerAssumptions DEF TypeOK, Call
    <2> QED
      BY <1>1, <1>2, <2>1 DEF OneSend
  <1>4. Blocking(mem) = {} => consumption = NoRec
    BY <1>2, RowsOfBlocking DEF ReviewHolds
  <1>5. ASSUME p.risk => override
        PROVE  /\ can
               /\ j \in Journal /\ j.ev[p.rec] = Prepared
               /\ \A s \in Records \ {p.rec} : j.ev[s] = mem.ev[s]
               /\ KnownTickets(j)
    <2>1. CASE override
      <3>1. /\ named # {} /\ consumption \notin mem.spent
            /\ \A h \in named : h.blockers = BlockerRows(mem)
        BY <1>2, <2>1 DEF ReviewHolds, Named
      <3>2. /\ g \in mem.grants /\ g.nonce = p.rec /\ g.rec = p.rec
            /\ g.blockers = BlockerRows(mem)
        BY <3>1
      <3>3. g \in Grant
        BY <1>2, <3>2 DEF Journal
      <3> HIDE DEF g
      <3>4. CanAppendConsumption(mem, g)
        BY <1>3, <2>1, <3>1, <3>2 DEF CanAppendConsumption
      <3>5. LET k == AppendConsumption(mem, g)
            IN  /\ k \in Journal
                /\ k.ev[g.rec] = Prepared
                /\ \A s \in Records \ {g.rec} : k.ev[s] = mem.ev[s]
                /\ k.grants = mem.grants
                /\ k.spent = mem.spent \cup {g.nonce}
        BY <1>2, <3>3, AppendConsumptionFacts
      <3>6. j = AppendConsumption(mem, g)
        BY <2>1
      <3> HIDE DEF j
      <3>7. KnownTickets(j)
        BY <1>2, <1>3, <3>2, <3>5, <3>6 DEF KnownTickets, Ungranted
      <3> QED
        BY <2>1, <3>1, <3>2, <3>4, <3>5, <3>6, <3>7
    <2>2. CASE ~override
      <3>1. CanAppendPrepared(mem, p.rec)
        BY <1>3, <1>5, <2>2 DEF CanAppendPrepared
      <3>2. LET k == AppendPrepared(mem, p.rec)
            IN  /\ k \in Journal
                /\ k.ev[p.rec] = Prepared
                /\ \A s \in Records \ {p.rec} : k.ev[s] = mem.ev[s]
                /\ k.grants = mem.grants /\ k.spent = mem.spent
        BY <1>2, AppendPreparedFacts
      <3>3. j = AppendPrepared(mem, p.rec)
        BY <2>2
      <3> HIDE DEF j
      <3>4. KnownTickets(j)
        BY <1>2, <1>3, <3>2, <3>3 DEF KnownTickets, Ungranted
      <3> QED
        BY <2>2, <3>1, <3>2, <3>3, <3>4
    <2> QED
      BY <2>1, <2>2
  <1>6. ASSUME p.risk => override
        PROVE  override \/ consumption = NoRec
    BY <1>3, <1>4, <1>6
  <1>7. CASE /\ consumption' = NoRec
             /\ sending' = FALSE
             /\ UNCHANGED <<mem, disk, rejected, inflight, awaiting, auth, riskStage,
                            review, calls>>
    <2>1. KnownTickets(disk)' /\ KnownTickets(mem)'
      BY <1>1, <1>2, <1>7 DEF KnownTickets, Ungranted
    <2>2. OneSend'
      BY <1>1, <1>3, <1>7 DEF OneSend, Live
    <2>3. ReviewHolds'
      BY <1>3, <1>7 DEF ReviewHolds, NoReview
    <2> QED
      BY <1>1, <1>7, <2>1, <2>2, <2>3 DEF Accepting
  <1>8. CASE /\ p.risk => override
             /\ Barrier(disk, health, j, FALSE)
             /\ sending' = FALSE
             /\ consumption' = IF override THEN NoRec ELSE consumption
             /\ UNCHANGED <<rejected, inflight, awaiting, auth, riskStage, review, calls>>
    <2>1. /\ j \in Journal /\ j.ev[p.rec] = Prepared
          /\ \A s \in Records \ {p.rec} : j.ev[s] = mem.ev[s]
          /\ KnownTickets(j) /\ consumption' = NoRec
      BY <1>5, <1>6, <1>8
    <2> HIDE DEF j
    <2>2. mem' = j /\ disk' \in {disk, j}
      BY <1>8 DEF Barrier
    <2>3. KnownTickets(disk)' /\ KnownTickets(mem)'
      BY <1>1, <1>2, <2>1, <2>2 DEF KnownTickets, Ungranted
    <2>4. /\ \A c \in calls : mem'.ev[c.rec].tag # "AttemptStarted"
          /\ awaiting # NoRec => mem'.ev[awaiting].tag \notin {"Absent", "Prepared"}
      <3>1. awaiting # NoRec => awaiting \in Records /\ awaiting # p.rec
        BY <1>3 DEF TypeOK, Absent
      <3> QED
        BY <1>3, <2>1, <2>2, <3>1, TagFacts
    <2>5. OneSend'
      BY <1>1, <1>3, <1>8, <2>4 DEF OneSend, Live
    <2>6. ReviewHolds'
      BY <1>3, <1>8, <2>1 DEF ReviewHolds, NoReview
    <2> QED
      BY <1>1, <1>8, <2>3, <2>5, <2>6 DEF Accepting
  <1>9. CASE /\ p.risk => override
             /\ StartCandidate(j, "Ready", j, p.rec, 0, p.rec, calls)
             /\ consumption' = IF override THEN NoRec ELSE consumption
             /\ UNCHANGED <<auth, riskStage, review>>
    <2>1. /\ j \in Journal /\ j.ev[p.rec] = Prepared
          /\ \A s \in Records \ {p.rec} : j.ev[s] = mem.ev[s]
          /\ KnownTickets(j) /\ consumption' = NoRec
      BY <1>5, <1>6, <1>9
    <2> HIDE DEF j
    <2> DEFINE e == AttemptStarted(0 + 1)
               d == NewCall(p.rec, 0)
    <2>2. CanAppendDelivery(j, p.rec, NotBroadcast) /\ CanAppendDelivery(j, p.rec, e)
      <3>1. Prepared # Absent /\ Prepared.tag = "Prepared"
        BY DEF Prepared, Absent, Ev
      <3>2. AttemptStarted(0 + 1) = AttemptStarted(1)
        OBVIOUS
      <3>3. NotBroadcast \in Evidence /\ AttemptStarted(1) \in Evidence
        BY BuiltEvidence, MaxAttemptNoAssumption
      <3> QED
        BY <2>1, <3>1, <3>2, <3>3, TagFacts DEF CanAppendDelivery, ValidDeliveryTransition
    <2>3. /\ UNCHANGED rejected
          /\ \/ /\ mem' = AppendDelivery(j, p.rec, NotBroadcast)
                /\ calls' = calls
                /\ UNCHANGED awaiting
                /\ GoesOnOrEnds(p.rec)
             \/ /\ mem' = AppendDelivery(j, p.rec, e)
                /\ calls' \subseteq calls \cup {d}
                /\ awaiting' \in {awaiting, p.rec}
                /\ inflight' = p.rec /\ UNCHANGED sending
          /\ disk' \in {j, mem'}
      BY <1>9, <2>2, StartAccepted
    <2>4. d.rec = p.rec
      BY DEF NewCall
    <2>5. PICK a \in {NotBroadcast, e} :
            /\ mem' = AppendDelivery(j, p.rec, a)
            /\ calls' \subseteq calls \cup {d}
            /\ a = e => inflight' = p.rec
            /\ a = NotBroadcast => calls' \subseteq calls
      <3>1. e # NotBroadcast
        BY DEF AttemptStarted, NotBroadcast, Ev
      <3> QED
        BY <2>3, <3>1
    <2>6. /\ KnownTickets(mem') /\ mem'.ev[p.rec] = a
          /\ \A s \in Records \ {p.rec} : mem'.ev[s] = j.ev[s]
      <3>1. CanAppendDelivery(j, p.rec, a)
        BY <2>2
      <3> QED
        BY <1>2, <2>1, <2>5, <3>1, DeliveryKnown
    <2>7. a.tag \in {"NotBroadcast", "AttemptStarted"}
          /\ (a.tag = "AttemptStarted" => a = e)
      BY TagFacts
    <2> HIDE DEF e, d
    <2>8. KnownTickets(disk)' /\ KnownTickets(mem)'
      BY <1>1, <2>1, <2>3, <2>6 DEF KnownTickets, Ungranted
    <2>9. \A c \in calls' : mem'.ev[c.rec].tag = "AttemptStarted" => inflight' = c.rec
      BY <1>3, <2>1, <2>4, <2>5, <2>6, <2>7
    <2>10. awaiting' # NoRec => mem'.ev[awaiting'].tag \notin {"Absent", "Prepared"}
      <3>1. awaiting' \in {awaiting, p.rec}
        BY <2>3
      <3>2. awaiting # NoRec => awaiting \in Records
        BY DEF TypeOK
      <3> QED
        BY <1>3, <2>1, <2>6, <2>7, <3>1, <3>2
    <2>11. inflight' # NoRec => sending'
      BY <1>3, <2>3 DEF GoesOnOrEnds
    <2>12. OneSend'
      BY <1>1, <1>3, <1>9, <2>9, <2>10, <2>11 DEF OneSend, Live, NoReview
    <2>13. ReviewHolds'
      BY <1>3, <1>9, <2>1 DEF ReviewHolds, NoReview
    <2> QED
      BY <1>1, <2>3, <2>8, <2>12, <2>13 DEF Accepting
  <1> QED
    BY <1>5, <1>7, <1>8, <1>9 DEF ApplyPreparedSend

(* apply_candidate_outcome: the owner of an open attempt records a legal   *)
(* successor of it; while it does, nothing was asked and nothing prepared. *)
LEMMA CandidateOutcomeAccepted ==
    ASSUME TypeOK, TypeOK', Owned, Accepting, Unlocked, NEW c \in calls,
           ApplyCandidateOutcome(c)
    PROVE  Accepting'
  <1> DEFINE n == c.idx + 1
             others == calls \ {c}
             e == AttemptStarted(n + 1)
             d == NewCall(c.rec, n)
  <1>1. /\ UNCHANGED <<phase, session, auth, riskStage, review, consumption, prepares,
                       drawn, wire, executed>>
        /\ Unlocked'
    BY DEF ApplyCandidateOutcome, chain_vars, Unlocked
  <1>2. /\ KnownTickets(disk) /\ KnownTickets(mem) /\ OneSend /\ ReviewHolds
        /\ mem \in Journal /\ c.rec \in Records /\ c.rec # NoRec /\ n \in Nat
        /\ \A o \in calls : o.rec \in Records
    BY ControllerAssumptions DEF Accepting, TypeOK, Call
  <1>3. CASE calls' = others /\ UNCHANGED <<mem, disk, rejected, sending, inflight, awaiting>>
    <2>1. \A q \in calls' : \E o \in calls : o.rec = q.rec
      BY <1>3
    <2> QED
      BY <1>1, <1>3, <2>1, AcceptingFrame DEF Accepting
  <1>4. CASE /\ mem.ev[c.rec] # AttemptStarted(n)
             /\ calls' = others
             /\ ClearInFlight(inflight, {c.rec})
             /\ UNCHANGED <<mem, disk, rejected, awaiting>>
    <2>1. mem.ev[c.rec].tag # "AttemptStarted"
      <3>1. ASSUME mem.ev[c.rec].tag = "AttemptStarted" PROVE FALSE
        <4>1. mem.ev[c.rec].attempt = n
          BY <3>1 DEF Owned
        <4>2. mem.ev[c.rec] \in [tag : EvidenceTags, attempt : 0..MaxAttemptNo]
          BY <1>2, <3>1 DEF Journal, Evidence, Absent
        <4> QED
          BY <1>4, <3>1, <4>1, <4>2 DEF AttemptStarted, Ev
      <3> QED
        BY <3>1
    <2>2. \/ UNCHANGED <<inflight, sending>>
          \/ inflight = c.rec /\ inflight' = NoRec /\ sending' = FALSE
      BY <1>4 DEF ClearInFlight
    <2>3. KnownTickets(disk)' /\ KnownTickets(mem)'
      BY <1>1, <1>2, <1>4 DEF KnownTickets, Ungranted
    <2>4. OneSend'
      BY <1>1, <1>2, <1>4, <2>1, <2>2 DEF OneSend, Live, NoReview, Blocking
    <2>5. ReviewHolds'
      BY <1>1, <1>2, <1>4, <2>2
         DEF ReviewHolds, NoReview, Ungranted, Named, Blocking, BlockerRows
    <2> QED
      BY <1>1, <1>4, <2>3, <2>4, <2>5 DEF Accepting
  <1>5. ASSUME mem.ev[c.rec] = AttemptStarted(n), NEW a,
               CanAppendDelivery(mem, c.rec, a),
               a.tag \notin {"Absent", "Prepared"},
               UNCHANGED rejected, mem' = AppendDelivery(mem, c.rec, a),
               disk' \in {disk, mem'},
               \/ a.tag # "AttemptStarted" /\ calls' = others /\ UNCHANGED awaiting
                  /\ GoesOnOrEnds(inflight)
               \/ calls' \subseteq others \cup {d} /\ awaiting' \in {awaiting, c.rec}
                  /\ UNCHANGED <<inflight, sending>>
        PROVE  Accepting'
    <2>1. mem.ev[c.rec].tag = "AttemptStarted" /\ inflight = c.rec /\ sending
      BY <1>2, <1>5, TagFacts DEF OneSend
    <2>2. /\ auth = NoRec /\ review = NoReview /\ riskStage = "none"
          /\ consumption = NoRec /\ \A p \in prepares : ~Live(p)
      BY <1>2, <2>1 DEF OneSend, ReviewHolds
    <2>3. /\ KnownTickets(mem') /\ mem'.ev[c.rec] = a
          /\ \A s \in Records \ {c.rec} : mem'.ev[s] = mem.ev[s]
      BY <1>2, <1>5, DeliveryKnown
    <2>4. KnownTickets(disk)' /\ KnownTickets(mem)'
      BY <1>1, <1>2, <1>5, <2>3 DEF KnownTickets, Ungranted
    <2>5. d.rec = c.rec
      BY DEF NewCall
    <2> HIDE DEF d
    <2>6. \A o \in calls' : mem'.ev[o.rec].tag = "AttemptStarted" => inflight' = o.rec
      <3>1. SUFFICES ASSUME NEW o \in calls', mem'.ev[o.rec].tag = "AttemptStarted"
                     PROVE  inflight' = o.rec
        OBVIOUS
      <3>2. CASE o.rec = c.rec
        BY <1>5, <2>1, <2>3, <3>1, <3>2
      <3>3. CASE o.rec # c.rec
        <4>1. o \in calls
          BY <1>5, <2>5, <3>3
        <4>2. mem.ev[o.rec].tag = "AttemptStarted"
          BY <1>2, <2>3, <3>1, <3>3, <4>1
        <4> QED
          BY <1>2, <2>1, <3>3, <4>1, <4>2 DEF OneSend
      <3> QED
        BY <3>2, <3>3
    <2>7. awaiting' # NoRec => mem'.ev[awaiting'].tag \notin {"Absent", "Prepared"}
      <3>1. awaiting' \in {awaiting, c.rec} /\ (awaiting # NoRec => awaiting \in Records)
        BY <1>5 DEF TypeOK
      <3> QED
        BY <1>2, <1>5, <2>3, <3>1 DEF OneSend
    <2>8. inflight' # NoRec => sending'
      BY <1>5, <2>1 DEF GoesOnOrEnds
    <2>9. OneSend'
      BY <1>1, <2>2, <2>6, <2>7, <2>8 DEF OneSend, Live, NoReview
    <2>10. ReviewHolds'
      BY <1>1, <2>2 DEF ReviewHolds, NoReview
    <2> QED
      BY <1>1, <1>5, <2>4, <2>9, <2>10 DEF Accepting
  <1>6. ASSUME mem.ev[c.rec] = AttemptStarted(n)
        PROVE  /\ n \in 1..MaxAttemptNo
               /\ CanAppendDelivery(mem, c.rec, NotBroadcast)
               /\ CanAppendDelivery(mem, c.rec, MayHaveBroadcast(n))
               /\ CanAppendDelivery(mem, c.rec, NodeResponseObserved(n))
               /\ n < Candidates => CanAppendDelivery(mem, c.rec, e)
    <2>1. AttemptStarted(n) # Absent
      BY DEF AttemptStarted, Absent, Ev
    <2>2. n \in 1..MaxAttemptNo
      <3>1. AttemptStarted(n) \in Evidence
        BY <1>2, <1>6, <2>1 DEF Journal
      <3> QED
        BY <1>2, <3>1, MaxAttemptNoAssumption
           DEF Evidence, AttemptStarted, Ev, WellFormed, AttemptTags
    <2>3. n < Candidates => n + 1 \in 1..MaxAttemptNo /\ n < MaxAttemptNo
      BY <2>2, ControllerAssumptions, MaxAttemptNoAssumption
    <2>4. /\ NotBroadcast \in Evidence /\ MayHaveBroadcast(n) \in Evidence
          /\ NodeResponseObserved(n) \in Evidence
          /\ n < Candidates => AttemptStarted(n + 1) \in Evidence
      BY <2>2, <2>3, BuiltEvidence
    <2>5. /\ ValidDeliveryTransition(AttemptStarted(n), NotBroadcast)
          /\ ValidDeliveryTransition(AttemptStarted(n), MayHaveBroadcast(n))
          /\ ValidDeliveryTransition(AttemptStarted(n), NodeResponseObserved(n))
          /\ n < Candidates =>
                ValidDeliveryTransition(AttemptStarted(n), AttemptStarted(n + 1))
      BY <2>3 DEF ValidDeliveryTransition, AttemptStarted, NotBroadcast,
         MayHaveBroadcast, NodeResponseObserved, Ev
    <2> HIDE DEF n
    <2> QED
      BY <1>6, <2>1, <2>2, <2>4, <2>5 DEF CanAppendDelivery
  <1>7. /\ NotBroadcast.tag \notin {"Absent", "Prepared", "AttemptStarted"}
        /\ MayHaveBroadcast(n).tag \notin {"Absent", "Prepared", "AttemptStarted"}
        /\ NodeResponseObserved(n).tag \notin {"Absent", "Prepared", "AttemptStarted"}
        /\ e.tag \notin {"Absent", "Prepared"}
    BY TagFacts
  <1> HIDE DEF n
  <1>8. ASSUME mem.ev[c.rec] = AttemptStarted(n),
               NEW a \in {NotBroadcast, MayHaveBroadcast(n), NodeResponseObserved(n)},
               Finish(disk, health, mem, c.rec, a, inflight),
               calls' = others, UNCHANGED awaiting
        PROVE  Accepting'
    <2>1. CanAppendDelivery(mem, c.rec, a)
      BY <1>6, <1>8
    <2>2. /\ UNCHANGED rejected /\ mem' = AppendDelivery(mem, c.rec, a)
          /\ disk' \in {disk, mem'} /\ GoesOnOrEnds(inflight)
      BY <1>8, <2>1, FinishAccepted
    <2>3. a.tag \notin {"Absent", "Prepared", "AttemptStarted"}
      BY <1>7, <1>8
    <2> QED
      BY <1>5, <1>8, <2>1, <2>2, <2>3
  <1>9. ASSUME mem.ev[c.rec] = AttemptStarted(n), n < Candidates,
               StartCandidate(disk, health, mem, c.rec, n, inflight, others)
        PROVE  Accepting'
    <2>1. CanAppendDelivery(mem, c.rec, NotBroadcast) /\ CanAppendDelivery(mem, c.rec, e)
      BY <1>6, <1>9
    <2>2. /\ UNCHANGED rejected
          /\ \/ /\ mem' = AppendDelivery(mem, c.rec, NotBroadcast)
                /\ calls' = others
                /\ UNCHANGED awaiting
                /\ GoesOnOrEnds(inflight)
             \/ /\ mem' = AppendDelivery(mem, c.rec, e)
                /\ calls' \subseteq others \cup {d}
                /\ awaiting' \in {awaiting, c.rec}
                /\ UNCHANGED <<inflight, sending>>
          /\ disk' \in {disk, mem'}
      BY <1>9, <2>1, StartAccepted
    <2> HIDE DEF e, d
    <2> QED
      BY <1>5, <1>7, <1>9, <2>1, <2>2
  <1> QED
    BY <1>3, <1>4, <1>8, <1>9 DEF ApplyCandidateOutcome, n

(* A Journal that settles some blocking records, as both reconciliations   *)
(* do, after which nothing reviewed is left.                               *)
LEMMA SettledAccepted ==
    ASSUME TypeOK, TypeOK', Accepting, Unlocked, NEW T \in SUBSET Blocking(mem), NEW k,
           k.grants = mem.grants, k.spent = mem.spent,
           \A r \in Records \ T : k.ev[r] = mem.ev[r],
           \A r \in T : k.ev[r].tag \in VerifiedTags,
           mem' = k, disk' \in {disk, k}, UNCHANGED rejected,
           \/ UNCHANGED <<inflight, sending>>
           \/ inflight \in T /\ inflight' = NoRec /\ sending' = FALSE,
           awaiting' \in {awaiting, NoRec},
           InvalidatePendingRisk,
           UNCHANGED <<phase, session, prepares, calls, drawn, wire, executed>>
    PROVE  Accepting'
  <1>1. /\ KnownTickets(disk) /\ KnownTickets(mem) /\ OneSend /\ ReviewHolds
        /\ T \subseteq Records /\ NoRec \notin T
        /\ \A c \in calls : c.rec \in Records
        /\ \A p \in prepares : p.rec \in Records
    BY ControllerAssumptions DEF Accepting, Blocking, TypeOK, Call, PrepareTask
  <1>2. \A r \in T : /\ mem.ev[r] # Absent /\ r \in drawn
                     /\ k.ev[r].tag \notin {"Absent", "Prepared", "AttemptStarted"}
                     /\ ~IsBlocking(k.ev[r].tag)
    <2>1. \A r \in T : mem.ev[r] # Absent
      BY TagFacts DEF Blocking, IsBlocking
    <2> QED
      BY <1>1, <2>1 DEF KnownTickets, VerifiedTags, IsBlocking, BlockingTags
  <1>3. Blocking(k) \subseteq Blocking(mem)
    BY <1>2 DEF Blocking
  <1>4. KnownTickets(k)
    BY <1>1, <1>2 DEF KnownTickets, Ungranted
  <1>5. KnownTickets(disk)' /\ KnownTickets(mem)'
    BY <1>1, <1>4 DEF KnownTickets, Ungranted
  <1>6. /\ riskStage' = "none" /\ review' = NoReview /\ consumption' = NoRec
        /\ auth' \in {auth, NoRec}
    BY InvalidateFacts
  <1>7. ReviewHolds'
    <2>1. auth' # NoRec => auth' \in drawn' /\ mem'.ev[auth'] = Absent
      <3>1. auth # NoRec => auth \in Records
        BY DEF TypeOK
      <3> QED
        BY <1>1, <1>2, <1>6, <3>1 DEF ReviewHolds
    <2> QED
      BY <1>6, <2>1 DEF ReviewHolds, NoReview
  <1>8. /\ inflight' # NoRec => sending'
        /\ sending' => auth' = NoRec /\ review' = NoReview' /\ riskStage' = "none"
    BY <1>1, <1>6 DEF OneSend, NoReview
  <1>9. \A c \in calls' : mem'.ev[c.rec].tag = "AttemptStarted" => inflight' = c.rec
    BY <1>1, <1>2 DEF OneSend
  <1>10. awaiting' # NoRec => mem'.ev[awaiting'].tag \notin {"Absent", "Prepared"}
    <2>1. awaiting # NoRec => awaiting \in Records
      BY DEF TypeOK
    <2> QED
      BY <1>1, <1>2, <2>1 DEF OneSend
  <1>11. \A p \in prepares' : Live(p)' =>
          /\ sending' /\ inflight' = NoRec
          /\ p.rec \in drawn' /\ mem'.ev[p.rec] = Absent
          /\ p.risk \/ Blocking(mem)' = {}
          /\ \A q \in prepares' : Live(q)' => q = p
    BY <1>1, <1>2, <1>3 DEF OneSend, Live
  <1>12. OneSend'
    BY <1>8, <1>9, <1>10, <1>11 DEF OneSend
  <1> QED
    BY <1>5, <1>7, <1>12 DEF Accepting

(* reconcile_endpoint_observations: a message that was executed reached a  *)
(* socket, so its record holds an attempt and takes the endpoint's report. *)
LEMMA ReconcileEndpointAccepted ==
    ASSUME IInv, TypeOK', Accepting, NEW S \in SUBSET Records, ReconcileEndpoint(S)
    PROVE  Accepting'
  <1> DEFINE matched == S \cap Blocking(mem)
             fresh == {r \in matched : mem.ev[r].tag \notin EndpointTags}
             can == /\ \A r \in fresh : CanAppendDelivery(mem, r, HistoryReport(r))
                    /\ \A r \in matched : ValidDeliveryTransition(
                          IF r \in fresh THEN HistoryReport(r) ELSE mem.ev[r],
                          HistoryTerminal(r))
             k == HistoryJournal(S)
  <1>1. /\ UNCHANGED <<phase, session, awaiting, prepares, calls, drawn, wire, executed>>
        /\ Unlocked /\ \A r \in S : executed[r] # "no"
    BY DEF ReconcileEndpoint, task_vars, chain_vars
  <1>2. TypeOK /\ mem \in Journal /\ Sound(mem, Touched, Final)
    BY <1>1 DEF IInv, TypeOK
  <1>3. \A r \in matched : /\ r \in Records /\ mem.ev[r] # Absent
                           /\ mem.ev[r].tag \in AttemptTags \cup EndpointTags
    <2>1. \A r \in matched : r \in Touched
      BY <1>1 DEF Accepting, Touched
    <2>2. \A r \in matched : mem.ev[r].tag \in Attempted /\ IsBlocking(mem.ev[r].tag)
      BY <1>2, <2>1 DEF Sound, Blocking
    <2> QED
      BY <2>2 DEF Attempted, IsBlocking, BlockingTags, VerifiedTags, Blocking, Absent,
         AttemptTags, EndpointTags
  <1>4. \A r \in Records : /\ HistoryReport(r) \in Evidence
                           /\ HistoryReport(r).tag \in EndpointTags
                           /\ HistoryTerminal(r).tag \in VerifiedTags
    BY BuiltEvidence DEF HistoryReport, HistoryTerminal, Ev, EndpointTags, VerifiedTags
  <1>5. can
    BY <1>3, <1>4 DEF CanAppendDelivery, ValidDeliveryTransition
  <1>6. UNCHANGED rejected /\ InvalidatePendingRisk
    BY <1>5 DEF ReconcileEndpoint
  <1>7. PICK ok \in BOOLEAN :
          /\ Barrier(disk, health, k, ok)
          /\ ClearInFlight(inflight, IF ok THEN matched ELSE {})
    BY <1>5 DEF ReconcileEndpoint, HistoryJournal
  <1>8. /\ k.grants = mem.grants /\ k.spent = mem.spent
        /\ \A r \in Records :
              k.ev[r] = IF r \in matched THEN HistoryTerminal(r) ELSE mem.ev[r]
    BY <1>2, HistoryJournalType DEF HistoryJournal, Journal
  <1> HIDE DEF k, matched, can, fresh
  <1>9. mem' = k /\ disk' \in {disk, k}
    BY <1>7, BarrierFacts
  <1>10. \/ UNCHANGED <<inflight, sending>>
         \/ inflight \in matched /\ inflight' = NoRec /\ sending' = FALSE
    BY <1>7 DEF ClearInFlight
  <1>11. matched \in SUBSET Blocking(mem)
    BY DEF matched
  <1> QED
    BY <1>1, <1>2, <1>3, <1>4, <1>6, <1>8, <1>9, <1>10, <1>11, SettledAccepted

(* reconcile_from_replay_guard: an awaited record holds an attempt.        *)
LEMMA ReconcileReplayGuardAccepted ==
    ASSUME TypeOK, TypeOK', Accepting, ReconcileReplayGuard
    PROVE  Accepting'
  <1> DEFINE r == awaiting
             e == Ev("VerifiedTerminalSuccess", 0)
             k == AppendDelivery(mem, r, e)
  <1>1. /\ UNCHANGED <<phase, session, prepares, calls, drawn, wire, executed>>
        /\ Unlocked /\ r # NoRec /\ r \in Records /\ mem \in Journal
    BY DEF ReconcileReplayGuard, task_vars, chain_vars, TypeOK
  <1>2. CASE /\ awaiting' = NoRec
             /\ UNCHANGED <<mem, disk, rejected, sending, inflight, auth, riskStage,
                            review, consumption>>
    <2>1. KnownTickets(disk)' /\ KnownTickets(mem)'
      BY <1>1, <1>2 DEF Accepting, KnownTickets, Ungranted
    <2>2. OneSend'
      BY <1>1, <1>2 DEF Accepting, OneSend, Live, NoReview, Blocking
    <2>3. ReviewHolds'
      BY <1>1, <1>2
         DEF Accepting, ReviewHolds, NoReview, Ungranted, Named, Blocking, BlockerRows
    <2> QED
      BY <1>1, <1>2, <2>1, <2>2, <2>3 DEF Accepting
  <1>3. CASE r \in Blocking(mem) /\ ~(r \notin Blocking(mem) /\ awaiting' = NoRec)
    <2>1. CanAppendDelivery(mem, r, e)
      <3>1. mem.ev[r].tag \notin {"Absent", "Prepared"} /\ IsBlocking(mem.ev[r].tag)
        BY <1>1, <1>3 DEF Accepting, OneSend, Blocking
      <3>2. e \in Evidence /\ e.tag \in VerifiedTags
        BY BuiltEvidence, TagFacts DEF VerifiedTags
      <3>3. mem.ev[r] # Absent /\ mem.ev[r].tag \in AttemptTags \cup EndpointTags
        BY <3>1 DEF Absent, IsBlocking, BlockingTags, AttemptTags, EndpointTags
      <3> QED
        BY <3>2, <3>3 DEF CanAppendDelivery, ValidDeliveryTransition
    <2>2. UNCHANGED rejected /\ InvalidatePendingRisk /\ awaiting' = NoRec
      BY <1>3, <2>1 DEF ReconcileReplayGuard
    <2>3. PICK ok \in BOOLEAN :
            /\ Barrier(disk, health, k, ok)
            /\ ClearInFlight(inflight, IF ok THEN {r} ELSE {})
      BY <1>3, <2>1 DEF ReconcileReplayGuard
    <2>4. /\ k.grants = mem.grants /\ k.spent = mem.spent /\ k.ev[r] = e
          /\ \A s \in Records \ {r} : k.ev[s] = mem.ev[s]
      BY <1>1, <2>1, AppendDeliveryFacts DEF CanAppendDelivery
    <2>5. e.tag \in VerifiedTags
      BY TagFacts DEF VerifiedTags
    <2> HIDE DEF k, e
    <2>6. mem' = k /\ disk' \in {disk, k}
      BY <2>3, BarrierFacts
    <2>7. \/ UNCHANGED <<inflight, sending>>
          \/ inflight \in {r} /\ inflight' = NoRec /\ sending' = FALSE
      BY <2>3 DEF ClearInFlight
    <2>8. {r} \in SUBSET Blocking(mem)
      BY <1>3
    <2> QED
      BY <1>1, <2>2, <2>4, <2>5, <2>6, <2>7, <2>8, SettledAccepted
  <1> QED
    BY <1>2, <1>3 DEF ReconcileReplayGuard

-----------------------------------------------------------------------------
(* Everything a handler appends stays accepted.                            *)
LEMMA NextAccepted ==
    IInv /\ IInv' /\ Generations /\ Accepting /\ [Next]_vars => Accepting'
  <1> SUFFICES ASSUME IInv, IInv', Generations, Accepting, [Next]_vars PROVE Accepting'
    OBVIOUS
  <1>0. TypeOK /\ TypeOK' /\ Owned /\ Owned'
    BY DEF IInv
  <1>1. CASE UNCHANGED <<phase, session, mem, disk, sending, inflight, awaiting, auth,
                         riskStage, review, consumption, prepares, calls, drawn, wire,
                         executed, rejected>>
    BY <1>0, <1>1, AcceptingFrame DEF Accepting
  <1>2. ASSUME NEW p \in prepares, ApplyPreparedSend(p) PROVE Accepting'
    <2>1. CASE Live(p)
      BY <1>0, <1>2, <2>1, PreparedSendAccepted DEF Generations
    <2>2. CASE ~Live(p)
      <3>1. /\ UNCHANGED <<phase, session, mem, disk, sending, inflight, awaiting, auth,
                           riskStage, review, consumption, calls, drawn, wire,
                           executed, rejected>>
            /\ prepares' = prepares \ {p}
        BY <1>2, <2>2 DEF ApplyPreparedSend, session_vars, chain_vars
      <3>2. KnownTickets(disk)' /\ (Unlocked' => KnownTickets(mem)')
        BY <3>1 DEF Accepting, KnownTickets, Ungranted, Unlocked
      <3>3. Unlocked' => OneSend'
        BY <3>1 DEF Accepting, OneSend, Unlocked, Live, NoReview, Blocking
      <3>4. Unlocked' => ReviewHolds'
        BY <3>1 DEF Accepting, ReviewHolds, Unlocked, Ungranted, Named, Blocking,
           BlockerRows, NoReview
      <3> QED
        BY <3>1, <3>2, <3>3, <3>4 DEF Accepting
    <2> QED
      BY <2>1, <2>2
  <1>3. ASSUME NEW c \in calls, ApplyCandidateOutcome(c) PROVE Accepting'
    <2>1. CASE Unlocked
      BY <1>0, <1>3, <2>1, CandidateOutcomeAccepted
    <2>2. CASE ~Unlocked
      <3>1. /\ UNCHANGED <<phase, session, mem, disk, sending, inflight, awaiting, auth,
                           riskStage, review, consumption, prepares, drawn, wire,
                           executed, rejected>>
            /\ calls' \subseteq calls
        BY <1>3, <2>2 DEF ApplyCandidateOutcome, Generations, chain_vars
      <3> QED
        BY <1>0, <3>1, AcceptingFrame DEF Accepting
    <2> QED
      BY <2>1, <2>2
  <1>4. ASSUME NEW c \in calls, NEW st, SetCall(c, st), wire \subseteq wire',
               UNCHANGED <<phase, session, mem, disk, sending, inflight, awaiting, auth,
                           riskStage, review, consumption, prepares, drawn,
                           executed, rejected>>
        PROVE  Accepting'
    <2>1. [c EXCEPT !.st = st].rec = c.rec
      BY <1>0 DEF TypeOK, Call
    <2>2. \A q \in calls' : \E o \in calls : o.rec = q.rec
      BY <1>4, <2>1 DEF SetCall
    <2> QED
      BY <1>0, <1>4, <2>2, AcceptingFrame DEF Accepting
  <1>5. ASSUME NEW r \in Records, NEW fate \in {"success", "failed"},
               ChainExecutes(r, fate)
        PROVE  Accepting'
    <2>1. /\ UNCHANGED <<phase, session, mem, disk, sending, inflight, awaiting, auth,
                         riskStage, review, consumption, prepares, calls, drawn, wire,
                         rejected>>
          /\ \A s \in Records : executed'[s] # "no" => s \in wire'
      BY <1>0, <1>5 DEF ChainExecutes, session_vars, task_vars, TypeOK, Accepting
    <2> QED
      BY <1>0, <2>1, AcceptingFrame
  <1>6. CASE Unlock
    BY <1>0, <1>6, UnlockAccepted
  <1>7. CASE Next
    BY <1>0, <1>1, <1>2, <1>3, <1>4, <1>5, <1>6, <1>7, LockAccepted,
       RequestSendAccepted, RequestRiskOverrideAccepted, ConfirmSendAccepted,
       AskingAccepted, ConfirmRiskOverrideAccepted, SendFailedAccepted,
       ReconcileEndpointAccepted, ReconcileReplayGuardAccepted
       DEF Next, TaskEnds, Transmit, CallEnds, Cool, ResumeFromSuspend, Expire,
           ChainExecutesOther, session_vars, task_vars, chain_vars
  <1>8. CASE UNCHANGED vars
    BY <1>1, <1>8 DEF vars, session_vars, task_vars, chain_vars
  <1> QED
    BY <1>7, <1>8

(* The Journal accepts everything the handlers append, in every order of   *)
(* tasks, locks, crashes and failing saves: handlers never disagree about  *)
(* the state of a record.                                                  *)
THEOREM ControllerAppendsAccepted == Spec => []AppendsAreAccepted
  <1>1. Init => Accepting
    <2> SUFFICES ASSUME Init PROVE Accepting
      OBVIOUS
    <2>1. /\ ~rejected /\ disk = EmptyJournal /\ ~Unlocked
          /\ \A r \in Records : executed[r] = "no"
      BY DEF Init, Unlocked
    <2>2. KnownTickets(EmptyJournal)
      BY DEF KnownTickets, EmptyJournal, Ungranted
    <2> QED
      BY <2>1, <2>2 DEF Accepting, KnownTickets
  <1>2. TypeOK /\ Accepting => AppendsAreAccepted
    BY DEF Accepting, AppendsAreAccepted
  <1> QED
    BY <1>1, <1>2, NextAccepted, ControllerInvariant, ControllerTypeCorrect,
       StaleTasksAreRecognised, PTL DEF Spec
=============================================================================
