--------------------------- MODULE SendController ---------------------------
(***************************************************************************)
(* The controller's transfer path (cc-wallet-app/src/controller): a ticket *)
(* is authorised, prepared by an asynchronous chain task, recorded in the  *)
(* Journal behind a durability barrier, attempted over the candidates of a *)
(* route, and settled by transaction history or by the wallet contract's   *)
(* replay guard.  The environment may lock the wallet, crash the process,  *)
(* fail any save (before or after the file was replaced), delay any task   *)
(* past a lock, and execute other messages of the same wallet.             *)
(*                                                                         *)
(* Handlers run to completion on the UI thread; everything spawned on the  *)
(* runtime (prepare_transaction, broadcast_prepared_candidate) is a task   *)
(* whose result is a later event.                                          *)
(***************************************************************************)
EXTENDS JournalRules

CONSTANTS NoRec,            \* no record
          CreatedAt,        \* created_at_ms of each record's signed message
          Candidates,       \* candidate_count of a pre-resolved route
          OtherTimes,       \* created_at_ms of swaps and storage operations
          MaxSessions       \* bound on session_generation in one process

ASSUME ControllerAssumptions ==
    /\ NoRec \notin Records
    /\ CreatedAt \in [Records -> Nat]
    /\ Candidates \in 1..MaxAttemptNo
    /\ OtherTimes \subseteq Nat
    /\ MaxSessions \in Nat
    \* A ticket is confirmed at most once, so its record id names its nonce.
    /\ Nonces = Records

VARIABLES
    phase,        \* "Locked" or "Unlocked"
    session,      \* session_generation
    mem,          \* self.journal
    disk,         \* the Journal section of the newest authenticated container
    health,       \* persistence_health: "Ready" or "Failed"
    sending,      \* state.sending
    inflight,     \* session.in_flight_record_id
    awaiting,     \* session.awaiting_replay (the record; its time is CreatedAt)
    auth,         \* record of pending_authorization
    riskStage,    \* pending_risk_reconciliation / pending_risk_context
    review,       \* pending_risk_review: the record and the blockers shown
    consumption,  \* record of pending_risk_consumption
    cooled,       \* the monotonic cooling period has elapsed
    prepares,     \* prepare_transaction tasks and their undelivered events
    calls,        \* broadcast tasks and their undelivered events
    drawn,        \* record ids already generated
    expired,      \* messages past expire_at on the local clock
    wire,         \* messages whose bytes a socket accepted
    executed,     \* on-chain fate of each message
    guard,        \* the wallet contract's last_message_ms
    rejected      \* history: a handler met an append the Journal refused

session_vars == <<sending, inflight, awaiting, auth, riskStage, review,
                  consumption, cooled>>
task_vars == <<prepares, calls, drawn, expired>>
chain_vars == <<wire, executed, guard>>
vars == <<phase, session, mem, disk, health, session_vars, task_vars,
          chain_vars, rejected>>

NoReview == [rec |-> NoRec, blockers |-> {}]

\* A call's state is where its socket is, then the classified outcome.
OpenStates == {"running", "sent"}
Outcomes == {"not_transmitted_retry", "not_transmitted", "may_have", "response"}

Call == [gen : Nat, rec : Records, idx : Nat, st : OpenStates \cup Outcomes]
PrepareTask == [gen : Nat, rec : Records, risk : BOOLEAN]

Unlocked == phase = "Unlocked"
Live(t) == t.gen = session

-----------------------------------------------------------------------------
(* Pieces the handlers share.                                              *)

\* A plausible bug: the result of the save is not looked at.
MutIgnoredSaveError(d, h, j, ok) ==
    /\ ok
    /\ mem' = j
    /\ health' = "Ready"
    /\ disk' \in {d, j}

\* A plausible bug: the file is rewritten in place, so a failed save empties it.
MutWriteInPlace(d, h, j, ok) ==
    /\ mem' = j
    /\ \/ ok /\ h = "Ready" /\ disk' = j /\ health' = "Ready"
       \/ /\ ~ok
          /\ health' = "Failed"
          /\ disk' = d \/ (h = "Ready" /\ disk' = EmptyJournal)

\* persist_journal_barrier from durable contents d and health h: it either
\* makes j durable, or fails, and then the file may or may not be replaced.
\* Once Failed, nothing is written for the rest of the session.
Barrier(d, h, j, ok) ==
    /\ mem' = j
    /\ \/ ok /\ h = "Ready" /\ disk' = j /\ health' = "Ready"
       \/ /\ ~ok
          /\ health' = "Failed"
          /\ disk' = d \/ (h = "Ready" /\ disk' = j)

\* persistence_failed after an append the Journal refused.
AppendRefused(d, j) ==
    /\ mem' = j
    /\ disk' = d
    /\ health' = "Failed"
    /\ rejected' = TRUE

\* A plausible bug: the in-flight record is forgotten, sending is not reset.
MutSendingNotReset(f, S) ==
    /\ inflight' = IF f \in S THEN NoRec ELSE f
    /\ UNCHANGED sending

\* clear_in_flight_send for the records in S, f being in_flight_record_id.
ClearInFlight(f, S) ==
    IF f \in S
    THEN inflight' = NoRec /\ sending' = FALSE
    ELSE inflight' = f /\ UNCHANGED sending

\* cancel_risk_override, and the capabilities invalidate_key_ops drops.
DropAuthorization ==
    /\ auth' = NoRec
    /\ riskStage' = "none"
    /\ review' = NoReview
    /\ consumption' = NoRec

\* A plausible bug: a settled blocker leaves the reviewed grant in place.
MutKeepStaleGrant == UNCHANGED <<auth, riskStage, review, consumption>>

\* invalidate_pending_risk_after_journal_change
InvalidatePendingRisk ==
    IF riskStage # "none" \/ review # NoReview \/ consumption # NoRec
    THEN DropAuthorization
    ELSE UNCHANGED <<auth, riskStage, review, consumption>>

\* Append evidence e for record r to j behind a barrier; only when the barrier
\* holds is the in-flight send over.  This is finish_locally_not_broadcast and
\* finish_blocking_delivery.
Finish(d, h, j, r, e, f) ==
    IF CanAppendDelivery(j, r, e)
    THEN /\ UNCHANGED rejected
         /\ \E ok \in BOOLEAN :
               /\ Barrier(d, h, AppendDelivery(j, r, e), ok)
               /\ ClearInFlight(f, IF ok THEN {r} ELSE {})
    ELSE /\ AppendRefused(d, j)
         /\ ClearInFlight(f, {})

\* start_prepared_candidate for the message of record r, from Journal j with
\* durable contents d; the handled call, if any, is already out of others.
StartCandidate(d, h, j, r, idx, f, others) ==
    IF idx >= Candidates \/ r \in expired
    THEN /\ Finish(d, h, j, r, NotBroadcast, f)
         /\ calls' = others
         /\ UNCHANGED awaiting
    ELSE /\ ClearInFlight(f, {})
         /\ IF CanAppendDelivery(j, r, AttemptStarted(idx + 1))
            THEN /\ UNCHANGED rejected
                 /\ \E ok \in BOOLEAN :
                      /\ Barrier(d, h, AppendDelivery(j, r, AttemptStarted(idx + 1)), ok)
                      /\ IF ok
                         THEN /\ awaiting' = r
                              /\ calls' = others \cup {[gen |-> session, rec |-> r,
                                                        idx |-> idx, st |-> "running"]}
                         ELSE /\ calls' = others
                              /\ UNCHANGED awaiting
            ELSE /\ AppendRefused(d, j)
                 /\ calls' = others
                 /\ UNCHANGED awaiting

-----------------------------------------------------------------------------
Init ==
    /\ phase = "Locked"
    /\ session = 0
    /\ mem = EmptyJournal
    /\ disk = EmptyJournal
    /\ health = "Ready"
    /\ sending = FALSE
    /\ inflight = NoRec
    /\ awaiting = NoRec
    /\ auth = NoRec
    /\ riskStage = "none"
    /\ review = NoReview
    /\ consumption = NoRec
    /\ cooled = FALSE
    /\ prepares = {}
    /\ calls = {}
    /\ drawn = {}
    /\ expired = {}
    /\ wire = {}
    /\ executed = [r \in Records |-> "no"]
    /\ guard = 0
    /\ rejected = FALSE

ResetSession ==
    /\ sending' = FALSE
    /\ inflight' = NoRec
    /\ awaiting' = NoRec
    /\ cooled' = FALSE
    /\ DropAuthorization

-----------------------------------------------------------------------------
(* Commands of the user.                                                   *)

\* request_send and authorize_transfer, past send_enabled.
RequestSend(r) ==
    /\ Unlocked
    /\ auth = NoRec
    /\ health = "Ready"
    /\ Blocking(mem) = {}
    /\ ~sending
    /\ r \notin drawn
    /\ auth' = r
    /\ drawn' = drawn \cup {r}
    /\ UNCHANGED <<phase, session, mem, disk, health, sending, inflight,
                   awaiting, riskStage, review, consumption, cooled, prepares,
                   calls, expired, chain_vars, rejected>>

\* auth_submit (or the verified ConfirmSend) and send_authorized_transaction.
\* The authorization is taken before the checks; refused covers the recipient
\* and affordability checks, whose failure returns before sending is set.
ConfirmSend(refused) ==
    LET override == consumption = auth
        blocked == \/ sending
                   \/ health # "Ready"
                   \/ Blocking(mem) # {} /\ ~override
                   \/ refused
    IN  /\ Unlocked
        /\ auth # NoRec
        /\ auth' = NoRec
        /\ IF blocked
           THEN UNCHANGED <<sending, prepares>>
           ELSE /\ sending' = TRUE
                /\ prepares' = prepares \cup
                      {[gen |-> session, rec |-> auth, risk |-> override]}
        /\ UNCHANGED <<phase, session, mem, disk, health, inflight, awaiting,
                       riskStage, review, consumption, cooled, calls, drawn,
                       expired, chain_vars, rejected>>

\* AuthCancel and CancelRiskOverride.
CancelAuthorization ==
    /\ Unlocked
    /\ auth # NoRec \/ riskStage # "none" \/ review # NoReview \/ consumption # NoRec
    /\ DropAuthorization
    /\ UNCHANGED <<phase, session, mem, disk, health, sending, inflight,
                   awaiting, cooled, task_vars, chain_vars, rejected>>

\* request_risk_override, with handle_command's freeze.
RequestRiskOverride(r) ==
    /\ Unlocked
    /\ auth = NoRec
    /\ review = NoReview
    /\ ~sending
    /\ Blocking(mem) # {}
    /\ cooled
    /\ health = "Ready"
    /\ r \notin drawn
    /\ auth' = r
    /\ drawn' = drawn \cup {r}
    /\ riskStage' = "reconciling"
    /\ UNCHANGED <<phase, session, mem, disk, health, sending, inflight,
                   awaiting, review, consumption, cooled, prepares, calls,
                   expired, chain_vars, rejected>>

\* confirm_risk_override: the blockers are compared with the reviewed ones,
\* the grant is appended and made durable, and only then is it spendable.
ConfirmRiskOverride ==
    LET g == [nonce |-> review.rec, rec |-> review.rec,
              blockers |-> review.blockers]
    IN  /\ Unlocked
        /\ review # NoReview
        /\ IF ~cooled \/ BlockerRows(mem) # review.blockers
           THEN /\ DropAuthorization
                /\ UNCHANGED <<mem, disk, health, rejected>>
           ELSE IF CanAppendGrant(mem, g)
           THEN /\ UNCHANGED rejected
                /\ \E ok \in BOOLEAN :
                     /\ Barrier(disk, health, AppendGrant(mem, g), ok)
                     /\ IF ok
                        THEN /\ consumption' = review.rec
                             /\ auth' = review.rec
                             /\ review' = NoReview
                             /\ UNCHANGED riskStage
                        ELSE DropAuthorization
           ELSE /\ AppendRefused(disk, mem)
                /\ DropAuthorization
        /\ UNCHANGED <<phase, session, sending, inflight, awaiting, cooled,
                       task_vars, chain_vars>>

\* request_lock and finish_lock.  The Journal needs no flush: when health is
\* Ready it is already on disk, and when it is Failed nothing is written.
Lock ==
    /\ Unlocked
    /\ session < MaxSessions
    /\ phase' = "Locked"
    /\ session' = session + 1
    /\ health' = "Ready"
    /\ ResetSession
    /\ UNCHANGED <<mem, disk, task_vars, chain_vars, rejected>>

\* Plausible bugs of recovery: an interrupted attempt taken for one that never
\* happened, or left as it is.
MutAttemptNeverHappened(e) ==
    IF e.tag \in {"Prepared", "AttemptStarted"} THEN NotBroadcast ELSE e

MutAttemptLeftOpen(e) == IF e.tag = "Prepared" THEN NotBroadcast ELSE e

\* recover_restored_delivery_state: what becomes of each restored record.
RecoveredEvidence(e) ==
    CASE e.tag = "Prepared" -> NotBroadcast
      [] e.tag = "AttemptStarted" -> MayHaveBroadcast(e.attempt)
      [] e.tag = "EndpointReportedSuccess" -> Ev("VerifiedTerminalSuccess", 0)
      [] e.tag = "EndpointReportedFailedOnChain" ->
            Ev("VerifiedTerminalFailedOnChain", 0)
      [] OTHER -> e

Recovered(j) == [j EXCEPT !.ev = [r \in Records |-> RecoveredEvidence(j.ev[r])]]

\* A verified Unlock: enter_app loads the durable Journal and normalises it.
Unlock ==
    /\ phase = "Locked"
    /\ session < MaxSessions
    /\ phase' = "Unlocked"
    /\ session' = session + 1
    /\ IF Recovered(disk) = disk
       THEN mem' = disk /\ health' = "Ready" /\ UNCHANGED disk
       ELSE \E ok \in BOOLEAN : Barrier(disk, "Ready", Recovered(disk), ok)
    /\ ResetSession
    /\ UNCHANGED <<task_vars, chain_vars, rejected>>

-----------------------------------------------------------------------------
(* Events of the tasks the controller spawned.                             *)

\* apply_prepared_send: one event, two barriers (Prepared, AttemptStarted).
ApplyPreparedSend(p) ==
    LET override == consumption = p.rec
        named == {h \in mem.grants : h.nonce = p.rec /\ h.rec = p.rec}
        g == CHOOSE h \in named : TRUE
        can == IF override THEN named # {} /\ CanAppendConsumption(mem, g)
                           ELSE CanAppendPrepared(mem, p.rec)
        j == IF override THEN AppendConsumption(mem, g)
                         ELSE AppendPrepared(mem, p.rec)
    IN  /\ p \in prepares
        /\ prepares' = prepares \ {p}
        /\ \/ \* stale generation
              /\ ~Live(p)
              /\ UNCHANGED <<mem, disk, health, rejected, session_vars, calls>>
           \/ \* reject_unbound_prepared
              /\ Live(p) /\ p.risk /\ ~override
              /\ consumption' = NoRec
              /\ sending' = FALSE
              /\ UNCHANGED <<mem, disk, health, rejected, inflight, awaiting,
                             auth, riskStage, review, cooled, calls>>
           \/ \* the Journal refuses the record
              /\ Live(p) /\ (p.risk => override) /\ ~can
              /\ AppendRefused(disk, mem)
              /\ sending' = FALSE
              /\ UNCHANGED <<inflight, awaiting, auth, riskStage, review,
                             consumption, cooled, calls>>
           \/ \* Prepared could not be made durable
              /\ Live(p) /\ (p.risk => override) /\ can
              /\ Barrier(disk, health, j, FALSE)
              /\ sending' = FALSE
              /\ consumption' = IF override THEN NoRec ELSE consumption
              /\ UNCHANGED <<rejected, inflight, awaiting, auth, riskStage,
                             review, cooled, calls>>
           \/ \* Prepared is durable: record the first attempt
              /\ Live(p) /\ (p.risk => override) /\ can
              /\ health = "Ready"
              /\ StartCandidate(j, "Ready", j, p.rec, 0, p.rec, calls)
              /\ consumption' = IF override THEN NoRec ELSE consumption
              /\ cooled' = FALSE
              /\ UNCHANGED <<auth, riskStage, review>>
        /\ UNCHANGED <<phase, session, drawn, expired, chain_vars>>

\* AppEvent::SendFailed, also sent by SendCompletionGuard when the task dies.
ApplySendFailed(p) ==
    /\ p \in prepares
    /\ prepares' = prepares \ {p}
    /\ IF Live(p)
       THEN sending' = FALSE /\ consumption' = NoRec
       ELSE UNCHANGED <<sending, consumption>>
    /\ UNCHANGED <<phase, session, mem, disk, health, inflight, awaiting, auth,
                   riskStage, review, cooled, calls, drawn, expired,
                   chain_vars, rejected>>

\* apply_candidate_outcome
ApplyCandidateOutcome(c) ==
    LET n == c.idx + 1
        current == mem.ev[c.rec] = AttemptStarted(n)
        others == calls \ {c}
    IN  /\ c \in calls
        /\ c.st \in Outcomes
        /\ \/ \* stale generation
              /\ ~Live(c)
              /\ calls' = others
              /\ UNCHANGED <<mem, disk, health, rejected, sending, inflight, awaiting>>
           \/ \* another handler settled or recovered the record first
              /\ Live(c) /\ ~current
              /\ calls' = others
              /\ ClearInFlight(inflight, {c.rec})
              /\ UNCHANGED <<mem, disk, health, rejected, awaiting>>
           \/ \* a pre-connect failure with candidates left
              /\ Live(c) /\ current
              /\ c.st = "not_transmitted_retry" /\ n < Candidates
              /\ StartCandidate(disk, health, mem, c.rec, n, inflight, others)
           \/ /\ Live(c) /\ current
              /\ \/ c.st = "not_transmitted"
                 \/ c.st = "not_transmitted_retry" /\ n >= Candidates
              /\ Finish(disk, health, mem, c.rec, NotBroadcast, inflight)
              /\ calls' = others
              /\ UNCHANGED awaiting
           \/ /\ Live(c) /\ current
              /\ \/ /\ c.st = "may_have"
                    /\ Finish(disk, health, mem, c.rec, MayHaveBroadcast(n), inflight)
                 \/ /\ c.st = "response"
                    /\ Finish(disk, health, mem, c.rec, NodeResponseObserved(n), inflight)
              /\ calls' = others
              /\ UNCHANGED awaiting
        /\ UNCHANGED <<phase, session, auth, riskStage, review, consumption,
                       cooled, prepares, drawn, expired, chain_vars>>

\* finish_pending_risk_reconciliation: fresh says the history check completed.
FinishRiskReconciliation(fresh) ==
    /\ Unlocked
    /\ riskStage = "reconciling"
    /\ IF Blocking(mem) # {} /\ fresh /\ cooled /\ auth # NoRec
       THEN riskStage' = "loading" /\ UNCHANGED <<auth, review, consumption>>
       ELSE DropAuthorization
    /\ UNCHANGED <<phase, session, mem, disk, health, sending, inflight,
                   awaiting, cooled, task_vars, chain_vars, rejected>>

\* apply_risk_context_loaded, or RiskContextFailed when not loaded: the review
\* freezes the blockers the user is shown.
ApplyRiskContext(loaded) ==
    /\ Unlocked
    /\ riskStage = "loading"
    /\ IF Blocking(mem) # {} /\ loaded /\ cooled /\ auth # NoRec
       THEN /\ review' = [rec |-> auth, blockers |-> BlockerRows(mem)]
            /\ auth' = NoRec
            /\ riskStage' = "none"
            /\ UNCHANGED consumption
       ELSE DropAuthorization
    /\ UNCHANGED <<phase, session, mem, disk, health, sending, inflight,
                   awaiting, cooled, task_vars, chain_vars, rejected>>

\* rpc_history_terminal for a transaction the endpoint reported.
HistoryTerminal(r) ==
    Ev(IF executed[r] = "success" THEN "VerifiedTerminalSuccess"
                                  ELSE "VerifiedTerminalFailedOnChain", 0)

\* The endpoint evidence appended just before the terminal evidence.
HistoryReport(r) ==
    Ev(IF executed[r] = "success" THEN "EndpointReportedSuccess"
                                  ELSE "EndpointReportedFailedOnChain", 0)

\* reconcile_endpoint_observations for a batch S of executed messages; the
\* endpoint reports transactions that happened, in any batch, at any time.
ReconcileEndpoint(S) ==
    LET matched == S \cap Blocking(mem)
        fresh == {r \in matched : mem.ev[r].tag \notin EndpointTags}
        can == /\ \A r \in fresh : CanAppendDelivery(mem, r, HistoryReport(r))
               /\ \A r \in matched : ValidDeliveryTransition(
                     IF r \in fresh THEN HistoryReport(r) ELSE mem.ev[r],
                     HistoryTerminal(r))
        j == [mem EXCEPT !.ev = [r \in Records |->
                 IF r \in matched THEN HistoryTerminal(r) ELSE mem.ev[r]]]
    IN  /\ Unlocked
        /\ \A r \in S : executed[r] # "no"
        /\ matched # {}
        /\ IF can
           THEN /\ UNCHANGED rejected
                /\ InvalidatePendingRisk
                /\ \E ok \in BOOLEAN :
                      /\ Barrier(disk, health, j, ok)
                      /\ ClearInFlight(inflight, IF ok THEN matched ELSE {})
           ELSE /\ AppendRefused(disk, mem)
                /\ UNCHANGED <<auth, riskStage, review, consumption, inflight, sending>>
        /\ UNCHANGED <<phase, session, awaiting, cooled, task_vars, chain_vars>>

\* reconcile_from_replay_guard, run on every applied wallet snapshot.  The
\* snapshot may be older than the chain; one that is not recent enough, or
\* that finds nothing awaited, changes nothing.
ReconcileReplayGuard ==
    LET r == awaiting
        e == Ev("VerifiedTerminalSuccess", 0)
    IN  /\ Unlocked
        /\ r # NoRec
        /\ \/ /\ r \notin Blocking(mem)
              /\ awaiting' = NoRec
              /\ UNCHANGED <<mem, disk, health, rejected, sending, inflight,
                             auth, riskStage, review, consumption>>
           \/ /\ r \in Blocking(mem)
              /\ CreatedAt[r] # 0
              /\ CreatedAt[r] <= guard
              /\ IF CanAppendDelivery(mem, r, e)
                 THEN /\ awaiting' = NoRec
                      /\ UNCHANGED rejected
                      /\ InvalidatePendingRisk
                      /\ \E ok \in BOOLEAN :
                            /\ Barrier(disk, health, AppendDelivery(mem, r, e), ok)
                            /\ ClearInFlight(inflight, IF ok THEN {r} ELSE {})
                 ELSE /\ AppendRefused(disk, mem)
                      /\ UNCHANGED <<awaiting, sending, inflight, auth,
                                     riskStage, review, consumption>>
        /\ UNCHANGED <<phase, session, cooled, task_vars, chain_vars>>

-----------------------------------------------------------------------------
(* Time, the network, the chain and the process.                           *)

\* RISK_OVERRIDE_COOLING_SECS elapse on the monotonic clock.
Cool ==
    /\ Unlocked
    /\ Blocking(mem) # {}
    /\ ~cooled
    /\ cooled' = TRUE
    /\ UNCHANGED <<phase, session, mem, disk, health, sending, inflight, awaiting,
                   auth, riskStage, review, consumption, task_vars, chain_vars,
                   rejected>>

\* on_resume_from_suspend restarts the cooling period.
ResumeFromSuspend ==
    /\ Unlocked
    /\ cooled
    /\ cooled' = FALSE
    /\ UNCHANGED <<phase, session, mem, disk, health, sending, inflight, awaiting,
                   auth, riskStage, review, consumption, task_vars, chain_vars,
                   rejected>>

\* The local clock passes expire_at of a message.
Expire(r) ==
    /\ r \in drawn \ expired
    /\ expired' = expired \cup {r}
    /\ UNCHANGED <<phase, session, mem, disk, health, session_vars, prepares,
                   calls, drawn, chain_vars, rejected>>

SetCall(c, st) == calls' = (calls \ {c}) \cup {[c EXCEPT !.st = st]}

\* broadcast_once: the request is written to a connected socket.
Transmit(c) ==
    /\ c \in calls
    /\ c.st = "running"
    /\ SetCall(c, "sent")
    /\ wire' = wire \cup {c.rec}
    /\ UNCHANGED <<phase, session, mem, disk, health, session_vars, prepares,
                   drawn, expired, executed, guard, rejected>>

\* The call returns and is classified: only a failure to connect, or a local
\* refusal before connecting, is NotTransmitted.
CallEnds(c, outcome) ==
    /\ c \in calls
    /\ \/ c.st = "running" /\ outcome \in Outcomes \ {"response"}
       \/ c.st = "sent" /\ outcome \in {"may_have", "response"}
    /\ SetCall(c, outcome)
    /\ UNCHANGED <<phase, session, mem, disk, health, session_vars, prepares,
                   drawn, expired, chain_vars, rejected>>

\* The wallet contract executes a message it has not executed, whose time is
\* later than its replay guard.  A failed execution may leave the guard alone.
ChainExecutes(r, fate) ==
    /\ r \in wire
    /\ executed[r] = "no"
    /\ CreatedAt[r] > guard
    /\ executed' = [executed EXCEPT ![r] = fate]
    /\ \/ guard' = CreatedAt[r]
       \/ fate = "failed" /\ guard' = guard
    /\ UNCHANGED <<phase, session, mem, disk, health, session_vars, task_vars,
                   wire, rejected>>

\* The contract executes a swap or a storage operation of the same wallet:
\* neither request_swap nor request_storage_op looks at the Journal.
ChainExecutesOther(t) ==
    /\ t > guard
    /\ guard' = t
    /\ UNCHANGED <<phase, session, mem, disk, health, session_vars, task_vars,
                   wire, executed, rejected>>

\* The process dies and restarts: tasks and undelivered events are gone.
Crash ==
    /\ phase' = "Locked"
    /\ session' = 0
    /\ mem' = EmptyJournal
    /\ health' = "Ready"
    /\ ResetSession
    /\ prepares' = {}
    /\ calls' = {}
    /\ UNCHANGED <<disk, drawn, expired, chain_vars, rejected>>

-----------------------------------------------------------------------------
TaskEnds(r) ==
    \/ \E p \in prepares : p.rec = r /\ (ApplyPreparedSend(p) \/ ApplySendFailed(p))
    \/ \E c \in calls : c.rec = r /\ ApplyCandidateOutcome(c)
    \/ \E c \in calls, outcome \in Outcomes : c.rec = r /\ CallEnds(c, outcome)

Next ==
    \/ \E r \in Records : RequestSend(r) \/ RequestRiskOverride(r)
    \/ \E b \in BOOLEAN :
          \/ ConfirmSend(b)
          \/ FinishRiskReconciliation(b)
          \/ ApplyRiskContext(b)
    \/ CancelAuthorization
    \/ ConfirmRiskOverride
    \/ Lock
    \/ Unlock
    \/ \E r \in Records : TaskEnds(r)
    \/ \E S \in SUBSET Records : ReconcileEndpoint(S)
    \/ ReconcileReplayGuard
    \/ Cool
    \/ ResumeFromSuspend
    \/ \E r \in Records : Expire(r)
    \/ \E c \in calls : Transmit(c)
    \/ \E r \in Records, fate \in {"success", "failed"} : ChainExecutes(r, fate)
    \/ \E t \in OtherTimes : ChainExecutesOther(t)
    \/ Crash

Spec == Init /\ [][Next]_vars

\* Spawned tasks end (every HTTP call has a timeout, and a dying prepare task
\* still reports through SendCompletionGuard) and the UI thread polls events.
FairSpec == Spec /\ \A r \in Records : WF_vars(TaskEnds(r))

-----------------------------------------------------------------------------
(* Type invariant. *)
TypeOK ==
    /\ phase \in {"Locked", "Unlocked"}
    /\ session \in Nat
    /\ mem \in Journal
    /\ disk \in Journal
    /\ health \in {"Ready", "Failed"}
    /\ sending \in BOOLEAN
    /\ {inflight, awaiting, auth, consumption} \subseteq Records \cup {NoRec}
    /\ riskStage \in {"none", "reconciling", "loading"}
    /\ review \in [rec : Records, blockers : SUBSET BlockerRow] \cup {NoReview}
    /\ cooled \in BOOLEAN
    /\ prepares \subseteq PrepareTask
    /\ calls \subseteq Call
    /\ drawn \subseteq Records
    /\ expired \subseteq Records
    /\ wire \subseteq Records
    /\ executed \in [Records -> {"no", "success", "failed"}]
    /\ guard \in Nat
    /\ rejected \in BOOLEAN

\* Evidence that a socket attempt was recorded for the record.
Attempted == AttemptTags \cup EndpointTags \cup VerifiedTags

\* The message may still move funds.
CanStillDebit(r) ==
    /\ executed[r] = "no"
    /\ CreatedAt[r] > guard
    /\ r \in wire \/ \E c \in calls : c.rec = r /\ c.st \in OpenStates

\* The record is settled in the Journal a session works with, or on disk.
Settled(r) ==
    \/ disk.ev[r].tag \in TerminalTags
    \/ Unlocked /\ mem.ev[r].tag \in TerminalTags

(* The durability barrier precedes the socket: a message that reached a    *)
(* socket, or that a running task may still hand to one, has its attempt   *)
(* on disk, so no crash can make the wallet forget it (start_prepared_     *)
(* candidate persists AttemptStarted before it spawns the broadcast).      *)
AttemptIsDurableFirst ==
    \A r \in Records :
        \/ r \in wire
        \/ \E c \in calls : c.rec = r /\ c.st \in OpenStates
        => disk.ev[r].tag \in Attempted

(* A settled record's message can no longer debit the wallet: it was       *)
(* executed, or the contract's replay guard has passed it, or it never     *)
(* reached a socket and never will.  This is what makes it safe to stop    *)
(* blocking ordinary signing.                                              *)
SettledMeansFinal == \A r \in Records : Settled(r) => ~CanStillDebit(r)

(* Of two messages that may both still move funds, one was sent under a    *)
(* durable, spent duplicate-risk grant that named the other - across       *)
(* locks, crashes, failed saves and tasks that outlive their session.      *)
DoubleDebitNeedsGrant ==
    \A r, s \in Records :
        r # s /\ CanStillDebit(r) /\ CanStillDebit(s)
            => GrantedBeside(disk, r, s) \/ GrantedBeside(disk, s, r)

(* The Journal never refuses what a handler appends: persistence is only   *)
(* poisoned by a failing save, never by handlers that disagree about the   *)
(* state of a record.  With the types.                                     *)
AppendsAreAccepted == TypeOK /\ ~rejected

(* An unlocked wallet never holds a record in Prepared or AttemptStarted   *)
(* that nobody will finish, unless persistence failed: recovery normalised *)
(* it or a task of this session owns it.                                   *)
NoOrphanAttempt ==
    Unlocked /\ health = "Ready" =>
        \A r \in Records :
            mem.ev[r].tag \in {"Prepared", "AttemptStarted"} =>
                \E c \in calls : Live(c) /\ c.rec = r
                                 /\ mem.ev[r] = AttemptStarted(c.idx + 1)

(* No step of this system, whatever fails, takes back what the disk says:  *)
(* a settled record stays as it is, an attempt is never forgotten, a spent *)
(* grant stays spent.                                                      *)
DiskNeverRegresses ==
    [][/\ \A r \in Records :
            /\ disk.ev[r].tag \in TerminalTags => disk'.ev[r] = disk.ev[r]
            /\ disk.ev[r].tag \in Attempted =>
                  disk'.ev[r].tag \in Attempted \cup {"NotBroadcast"}
       /\ disk.grants \subseteq disk'.grants
       /\ disk.spent \subseteq disk'.spent]_vars

(* The send button comes back: sending ends, or persistence has failed and *)
(* the wallet says so.                                                     *)
SendingEnds == sending ~> (~sending \/ health = "Failed")

(* What the status line says of a record settled by the replay guard       *)
(* ("Success"): its message was executed on chain.                         *)
SuccessMeansExecuted ==
    \A r \in Records :
        disk.ev[r].tag = "VerifiedTerminalSuccess" => executed[r] # "no"
=============================================================================
