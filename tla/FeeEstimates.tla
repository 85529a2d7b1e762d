---------------------------- MODULE FeeEstimates ----------------------------
(***************************************************************************)
(* The fee estimate of the send form and the MAX button, which fills in an *)
(* approximate amount and corrects it when the chain has estimated the fee *)
(* of sending everything.                                                  *)
(* cc-wallet-app: controller/wallet_ops.rs, events.rs, mod.rs, chat.rs,    *)
(* state.rs.                                                               *)
(*                                                                         *)
(* The controller's fields are one record, so that the functions that call *)
(* each other are functions on it.  0 stands for an absent number.         *)
(***************************************************************************)
EXTENDS Naturals, FiniteSets

CONSTANTS
    Balances,   \* balances of the wallet, all positive
    Fees,       \* fees the chain may estimate, all positive
    DefaultFee,    \* HARDCODED_SEND_FEE_NANOS
    Headroom,   \* LOCAL_SEND_FEE_HEADROOM_NANOS
    Typed,      \* amounts the user types
    MaxSeq,     \* bound: estimates
    MaxFeeGen      \* bound: subscription generations

\* u128 amounts in nanos; a balance or a fee that is known is not 0.
ASSUME FeeConstants ==
    /\ Balances \subseteq Nat \ {0} /\ Fees \subseteq Nat \ {0} /\ Typed \subseteq Nat
    /\ DefaultFee \in Nat /\ Headroom \in Nat /\ MaxSeq \in Nat /\ MaxFeeGen \in Nat

VARIABLE s
feeVars == <<s>>

Seqs == 0..MaxSeq
Gens == 0..MaxFeeGen
Known(amounts) == {0} \cup amounts   \* an amount, or 0 while it is absent
Requests == [seq : 1..MaxSeq, max : BOOLEAN, gen : Gens]

\* Types.
FeeForm ==
    [amount  : Nat,             recipient : BOOLEAN,     native  : BOOLEAN,
     balance : Known(Balances), fee       : Known(Fees), maxBalance : Known(Balances),
     estimating : BOOLEAN,      seq       : Seqs,        running : SUBSET Requests,
     gen     : Gens,            timer     : BOOLEAN,     stale   : BOOLEAN,
     maxFilled : BOOLEAN,       refining  : BOOLEAN,     queued  : BOOLEAN,
     pendingMax : Seqs,         auth      : BOOLEAN,     sending : BOOLEAN]
FeeTypeOK == s \in FeeForm

FeeInit ==
    s = [amount |-> 0, recipient |-> FALSE, native |-> TRUE, balance |-> 0, fee |-> 0,
         estimating |-> FALSE, seq |-> 0, running |-> {}, gen |-> 0, timer |-> FALSE,
         stale |-> FALSE, maxFilled |-> FALSE, refining |-> FALSE, queued |-> FALSE,
         pendingMax |-> 0, maxBalance |-> 0, auth |-> FALSE, sending |-> FALSE]

-----------------------------------------------------------------------------
(* Functions of the controller                                             *)

Frozen(t) == t.auth \/ t.sending
FormOk(t) == t.recipient /\ t.amount > 0

EffectiveFee(t) == IF t.fee = 0 THEN DefaultFee ELSE t.fee

\* max_native_spendable
MaxSpendable(balance, fee) ==
    IF balance > fee + Headroom THEN balance - (fee + Headroom) ELSE 0

ClearPendingMax(t) ==
    [t EXCEPT !.pendingMax = 0, !.queued = FALSE, !.maxBalance = 0, !.refining = FALSE]

\* schedule_fee_reestimate
Schedule(t) == [ClearPendingMax(t) EXCEPT !.stale = TRUE, !.timer = TRUE]

\* spawn_fee_estimate
Spawn(t, max) ==
    IF Frozen(t) THEN [t EXCEPT !.timer = FALSE]
    ELSE IF t.estimating /\ max THEN [t EXCEPT !.timer = FALSE, !.queued = TRUE, !.refining = TRUE]
    ELSE IF t.estimating THEN [t EXCEPT !.timer = TRUE]
    ELSE [t EXCEPT !.timer = FALSE, !.seq = t.seq + 1, !.estimating = TRUE,
                   !.running = @ \cup {[seq |-> t.seq + 1, max |-> max, gen |-> t.gen]}]

\* What set_max_amount and start_queued_max_fee_estimate do with its answer.
SpawnMax(t) ==
    LET u == Spawn(t, TRUE) IN
    IF u.seq # t.seq THEN [u EXCEPT !.pendingMax = u.seq]
    ELSE IF u.queued THEN u ELSE ClearPendingMax(u)

\* A plausible bug: the queued estimate is forgotten instead of started.
MutQueuedDropped(t) == [t EXCEPT !.queued = FALSE]
\* start_queued_max_fee_estimate.
StartQueuedMax(t) == IF t.queued THEN SpawnMax([t EXCEPT !.queued = FALSE]) ELSE t

\* set_max_amount
SetMaxAmount(t) ==
    IF t.balance = 0 THEN t
    ELSE IF ~t.native THEN Schedule([t EXCEPT !.maxFilled = TRUE, !.amount = t.balance])
    ELSE SpawnMax([ClearPendingMax(t) EXCEPT
                     !.maxFilled = TRUE, !.amount = MaxSpendable(t.balance, EffectiveFee(t)),
                     !.timer = FALSE, !.maxBalance = t.balance, !.refining = TRUE])

\* estimate_fee; without a valid form it estimates a transfer to oneself.
EstimateFee(t) ==
    IF t.maxFilled /\ t.recipient /\ t.native THEN SetMaxAmount(t)
    ELSE IF ~FormOk(t) /\ (t.fee # 0 \/ t.estimating \/ t.balance = 0)
         THEN [t EXCEPT !.stale = FALSE]
    ELSE LET u == Spawn(t, FALSE)
         IN  IF u.estimating THEN u ELSE [u EXCEPT !.stale = FALSE]

-----------------------------------------------------------------------------
(* Commands                                                                *)

\* handle_command: frozen_while_authorization_pending.  FeeRoom is the bound on
\* estimates: no step starts more than one.
FeeRoom == s.seq < MaxSeq
Command(t) == ~Frozen(s) /\ s' = t

SetSendDestination(valid) == Command(Schedule([s EXCEPT !.recipient = valid]))
SetSendAmount(a) == Command(Schedule([s EXCEPT !.amount = a, !.maxFilled = FALSE]))
SelectAsset(native) == Command(Schedule([s EXCEPT !.native = native, !.maxFilled = FALSE]))
SetMax == FeeRoom /\ Command(SetMaxAmount(s))

\* tick: the timer of a scheduled estimate.
Tick ==
    /\ s.timer /\ ~s.estimating /\ FeeRoom
    /\ LET t == [s EXCEPT !.timer = FALSE]
       IN  s' = IF FormOk(t) THEN EstimateFee(t) ELSE t

\* request_send; send_enabled.
RequestSend ==
    /\ ~Frozen(s) /\ ~s.refining /\ FormOk(s)
    /\ (IF s.native THEN s.amount ELSE 0) + EffectiveFee(s) <= s.balance
    /\ s' = [s EXCEPT !.auth = TRUE, !.timer = FALSE]

\* chat: send_chat estimates its own transfer and asks for it.
SendChat ==
    /\ FeeRoom /\ s.balance > 0 /\ Command([Spawn(s, FALSE) EXCEPT !.auth = TRUE, !.timer = FALSE])

Cancel == s.auth /\ s' = [s EXCEPT !.auth = FALSE]
Confirm == s.auth /\ s' = [s EXCEPT !.auth = FALSE, !.sending = TRUE]

\* A send ends; clear_broadcast_send_form if it reached the network.
SendEnds(reached) ==
    /\ s.sending
    /\ s' = IF reached
            THEN [ClearPendingMax(s) EXCEPT !.sending = FALSE, !.maxFilled = FALSE,
                    !.timer = FALSE, !.recipient = FALSE, !.amount = 0]
            ELSE [s EXCEPT !.sending = FALSE]

-----------------------------------------------------------------------------
(* Events                                                                  *)

\* apply_wallet_snapshot
Snapshot(b) ==
    /\ FeeRoom
    /\ LET t == [s EXCEPT !.balance = b]
       IN  s' = IF Frozen(t) THEN t ELSE EstimateFee(t)

\* The events of an answer that nobody waits for any more are dropped.
Answered(r) == [s EXCEPT !.running = @ \ {r}]
Finished(r) == [Answered(r) EXCEPT !.estimating = FALSE, !.stale = FALSE]

\* A plausible bug: any estimate counts as the one MAX waits for.
MutOwnsAny(t, r) == TRUE
\* pending_max_fee_estimate is this answer's.
Owns(t, r) == t.pendingMax = r.seq

FeeEstimated(r, fee) ==
    /\ ~r.max /\ r.seq = s.seq /\ FeeRoom
    /\ s' = StartQueuedMax(IF r.gen = s.gen THEN [Finished(r) EXCEPT !.fee = fee] ELSE Finished(r))

\* MaxFeeEstimated: the refinement is applied to the balance it was asked for,
\* or MAX is computed again.
MaxFeeEstimated(r, fee) ==
    /\ r.max /\ r.seq = s.seq /\ FeeRoom
    /\ LET t == Finished(r)
           applies == r.gen = t.gen /\ Owns(t, r) /\ ~Frozen(t)
       IN  s' = IF applies /\ t.balance # t.maxBalance
                THEN SetMaxAmount(ClearPendingMax(t))
                ELSE LET u == IF applies /\ t.balance # 0
                              THEN [t EXCEPT !.fee = fee, !.amount = MaxSpendable(t.balance, fee)]
                              ELSE t
                     IN  IF Owns(t, r) THEN ClearPendingMax(u) ELSE StartQueuedMax(u)

FeeEstimateFailed(r) ==
    /\ r.seq = s.seq /\ FeeRoom
    /\ LET t == IF r.gen = s.gen THEN [Finished(r) EXCEPT !.fee = 0] ELSE Finished(r)
       IN  s' = IF Owns(t, r) THEN ClearPendingMax(t) ELSE StartQueuedMax(t)

Overtaken(r) == r.seq # s.seq /\ s' = Answered(r)

\* select_endpoint and the like: stop_subscription, reset_recipient_status.
NextGeneration == s.gen < MaxFeeGen /\ Command([s EXCEPT !.gen = @ + 1])

\* activate_seed forgets the estimate, not the one that is running.
SeedActivated ==
    /\ s.gen < MaxFeeGen
    /\ Command([s EXCEPT !.gen = @ + 1, !.balance = 0, !.fee = 0, !.estimating = FALSE,
                         !.native = TRUE])

\* finish_lock and enter_app
LockAndUnlock ==
    /\ s.gen < MaxFeeGen
    /\ s' = [ClearPendingMax(s) EXCEPT !.gen = @ + 1, !.balance = 0, !.fee = 0,
               !.estimating = FALSE, !.native = TRUE, !.recipient = FALSE, !.amount = 0,
               !.maxFilled = FALSE, !.timer = FALSE, !.stale = FALSE, !.auth = FALSE,
               !.sending = FALSE]

FeeNext ==
    \/ SetMax \/ Tick \/ RequestSend \/ SendChat \/ Cancel \/ Confirm
    \/ NextGeneration \/ SeedActivated \/ LockAndUnlock
    \/ \E b \in BOOLEAN : SetSendDestination(b) \/ SelectAsset(b) \/ SendEnds(b)
    \/ \E a \in Typed : SetSendAmount(a)
    \/ \E b \in Balances : Snapshot(b)
    \/ \E r \in s.running : \/ FeeEstimateFailed(r) \/ Overtaken(r)
                            \/ \E f \in Fees : FeeEstimated(r, f) \/ MaxFeeEstimated(r, f)

FeeSpec == FeeInit /\ [][FeeNext]_feeVars

-----------------------------------------------------------------------------
Latest == {r \in s.running : r.seq = s.seq}

\* While the MAX amount of a form with a recipient is being refined, which keeps
\* the send button disabled, the estimate that ends the refinement is running,
\* or queued behind the one that is.  (Without a recipient the button is disabled
\* anyway; there a change of the seed may leave the mark behind, until the
\* recipient is entered.)
RefiningIsServed ==
    s.refining /\ s.recipient => \E r \in Latest : s.queued \/ r.seq = s.pendingMax

\* An answer that arrives late changes the amount only if that amount was put
\* there by the MAX button, and never under a transfer that is being confirmed.
UserKeepsAmount ==
    (s.running \ s'.running # {} /\ s'.amount # s.amount) => s.maxFilled /\ ~Frozen(s)

\* The send button is not left disabled for ever by MAX: set_max_amount,
\* start_queued_max_fee_estimate and every way in which an estimate ends.
MaxIsServed == FeeTypeOK /\ RefiningIsServed

\* No step of the form lets an estimate replace an amount the user typed:
\* the generation and pending_max_fee_estimate, as apply_event compares them.
AmountIsTheUsers == [][UserKeepsAmount]_feeVars

\* The MAX button keeps its promise and no other: what it filled in is refined
\* by an estimate that will be taken (set_max_amount, start_queued_max), and
\* what the user typed is left alone (apply_max_fee_estimated).
MaxIsSound == []MaxIsServed /\ AmountIsTheUsers
=============================================================================
