----------------------------- MODULE LiveWallet -----------------------------
(***************************************************************************)
(* The wallet snapshot and the subscription that keeps it fresh: the list  *)
(* of endpoints and which one is selected, manual and automatic loads,     *)
(* the stream of account updates with its reconnects, and the check that   *)
(* the endpoint serves the wallet's network.                               *)
(* cc-wallet-app: controller/wallet_ops.rs, events.rs, live.rs,            *)
(* endpoints.rs, mod.rs (tick), state.rs; cc-wallet-tycho: subscription.rs.*)
(*                                                                         *)
(* Every load and every task of a subscription carries the generation of   *)
(* its start; starting or stopping a subscription changes the generation.  *)
(* External: the endpoints, each serving one network, and the account,     *)
(* whose state is a version number.                                        *)
(***************************************************************************)
EXTENDS Naturals, Sequences, FiniteSets, SequencesExt

CONSTANTS
    Default,      \* the network's own endpoint
    Custom,       \* endpoints the user may add
    Foreign,      \* endpoints that serve another network
    MaxVersion,   \* bound: changes of the account
    MaxSubscriptions,       \* bound: generations
    MaxLoads      \* bound: loads asked for

NoEndpoint == "-"
LiveEndpoints == {Default} \cup Custom

ASSUME LiveConstants ==
    /\ MaxVersion \in Nat \ {0} /\ MaxLoads \in Nat \ {0} /\ MaxSubscriptions \in Nat
    /\ IsFiniteSet(Custom)

VARIABLES
    custom,     \* custom_endpoints
    selected,   \* selected_endpoint, counted from 1
    version,    \* the account's state on chain
    wallet,     \* the snapshot shown: NoEndpoint, or the endpoint and the version
    error,      \* snapshot_refresh_error is set
    mismatch,   \* network_mismatch
    liveGen,        \* subscription_generation
    task,       \* subscription_task: its generation, endpoint and progress
    live,       \* live_status
    retry,      \* subscription_retry_at is set (implies subscription_addr)
    inbox,      \* events of subscriptions, sent and not applied
    loads,      \* loads under way
    manualId,   \* wallet_load_id, 0 if none
    autoId,     \* wallet_auto_refresh_id, 0 if none
    again,      \* wallet_auto_refresh_again
    busy,       \* state.busy
    lastId,     \* wallet_load_seq
    owed        \* the version the last update of this generation announced, 0 once
                \* it is shown or the user was told of a failure (history)

liveVars == <<custom, selected, version, wallet, error, mismatch, liveGen, task, live, retry,
          inbox, loads, manualId, autoId, again, busy, lastId, owed>>

NoWallet == [at |-> NoEndpoint, version |-> 0]
NoTask == [gen |-> 0, at |-> NoEndpoint, pc |-> "none"]
Load == [id : 1..MaxLoads, gen : 0..MaxSubscriptions, manual : BOOLEAN, at : LiveEndpoints,
         read : 0..MaxVersion]  \* read = 0: the endpoint has not answered
Event == [kind : {"ready", "update", "failed"}, gen : 0..MaxSubscriptions, version : 0..MaxVersion]

\* Types; versions are counted from 1.
LiveTypeOK ==
    /\ custom \in Seq(Custom) /\ IsInjective(custom) /\ selected \in 1..Cardinality(LiveEndpoints)
    /\ version \in 1..MaxVersion /\ wallet \in [at : LiveEndpoints \cup {NoEndpoint}, version : 0..MaxVersion]
    /\ error \in BOOLEAN /\ mismatch \in BOOLEAN /\ liveGen \in 0..MaxSubscriptions
    /\ task \in [gen : 0..MaxSubscriptions, at : LiveEndpoints \cup {NoEndpoint}, pc : {"none", "connecting", "live", "ended"}]
    /\ live \in {"offline", "connecting", "live"} /\ retry \in BOOLEAN
    /\ inbox \subseteq Event /\ loads \subseteq Load
    /\ manualId \in 0..MaxLoads /\ autoId \in 0..MaxLoads /\ lastId \in 0..MaxLoads
    /\ again \in BOOLEAN /\ busy \in BOOLEAN /\ owed \in 0..MaxVersion

-----------------------------------------------------------------------------
\* endpoint_display_list, resolved_endpoint (an index past the end is the last).
DisplayList(c) == <<Default>> \o c
Resolved(c, i) == DisplayList(c)[IF i > Len(DisplayList(c)) THEN Len(DisplayList(c)) ELSE i]
InUse == Resolved(custom, selected)

Started(manual, i, at, g) == [id |-> i, gen |-> g, manual |-> manual, at |-> at, read |-> 0]

LiveInit ==
    /\ custom = <<>> /\ selected = 1 /\ version = 1
    /\ wallet = NoWallet /\ error = FALSE /\ mismatch = FALSE /\ liveGen = 0
    /\ task = NoTask /\ live = "offline" /\ retry = FALSE /\ inbox = {}
    /\ loads = {Started(TRUE, 1, Default, 0)}
    /\ manualId = 1 /\ autoId = 0 /\ again = FALSE /\ busy = TRUE /\ lastId = 1 /\ owed = 0

\* spawn_wallet_load
SpawnManual(c, i, g) ==
    /\ lastId < MaxLoads
    /\ lastId' = lastId + 1 /\ manualId' = lastId + 1 /\ busy' = TRUE
    /\ loads' = loads \cup {Started(TRUE, lastId + 1, Resolved(c, i), g)}

\* auto_refresh_wallet, with the loads that are left: one at a time, and one
\* more after it if it is asked for meanwhile.
AutoRefresh(ls, running, g) ==
    IF running # 0
    THEN again' = TRUE /\ autoId' = running /\ loads' = ls /\ UNCHANGED lastId
    ELSE /\ lastId < MaxLoads
         /\ lastId' = lastId + 1 /\ autoId' = lastId + 1 /\ again' = FALSE
         /\ loads' = ls \cup {Started(FALSE, lastId + 1, InUse, g)}

\* stop_subscription: the task is aborted; of the loads only the manual one is
\* still waited for.
Stopped ==
    /\ liveGen < MaxSubscriptions /\ liveGen' = liveGen + 1
    /\ task' = NoTask /\ retry' = FALSE /\ live' = "offline"
    /\ autoId' = 0 /\ again' = FALSE /\ owed' = 0

-----------------------------------------------------------------------------
(* LiveEndpoints                                                               *)

AddEndpoint(e) ==
    /\ e \notin ToSet(DisplayList(custom))
    /\ custom' = Append(custom, e)
    /\ UNCHANGED <<selected, version, wallet, error, mismatch, liveGen, task, live, retry, inbox,
                   loads, manualId, autoId, again, busy, lastId, owed>>

\* clear_config_cache and the rest of a change of endpoint: reconnect and load.
Reconnect(c, i) ==
    /\ mismatch' = FALSE /\ Stopped /\ SpawnManual(c, i, liveGen + 1)
    /\ UNCHANGED <<version, wallet, error, inbox>>

Select(i) ==
    /\ i \in 1..Len(DisplayList(custom))
    /\ selected' = i /\ Reconnect(custom, i) /\ UNCHANGED custom

\* A plausible bug: the index stays where it was.
MutShiftedNot(i, removed) == i
\* The index follows the list: the default comes first, and refresh_network_view
\* clamps what is left.
Shifted(i, removed) ==
    IF i = removed THEN 1 ELSE IF i > removed THEN i - 1 ELSE i

RemoveEndpoint(e) ==
    /\ e \in ToSet(custom)
    /\ LET pos == CHOOSE p \in 1..Len(custom) : custom[p] = e
           left == RemoveAt(custom, pos)
           index == Shifted(selected, pos + 1)
           clamped == IF index > Len(left) + 1 THEN Len(left) + 1 ELSE index
       IN  /\ custom' = left /\ selected' = clamped
           /\ IF Resolved(left, clamped) # InUse THEN Reconnect(left, clamped)
              ELSE UNCHANGED <<version, wallet, error, mismatch, liveGen, task, live, retry, inbox,
                               loads, manualId, autoId, again, busy, lastId, owed>>

-----------------------------------------------------------------------------
(* Loads                                                                   *)

\* manual_refresh_wallet
RefreshWallet ==
    /\ ~busy /\ SpawnManual(custom, selected, liveGen)
    /\ UNCHANGED <<custom, selected, version, wallet, error, mismatch, liveGen, task, live, retry,
                   inbox, autoId, again, owed>>

\* External: the endpoint reads the account for its answer.
LoadAnswer(l) ==
    /\ l \in loads /\ l.read = 0
    /\ loads' = (loads \ {l}) \cup {[l EXCEPT !.read = version]}
    /\ UNCHANGED <<custom, selected, version, wallet, error, mismatch, liveGen, task, live, retry,
                   inbox, manualId, autoId, again, busy, lastId, owed>>

\* ensure_subscription
EnsureSubscription ==
    IF task.at = InUse /\ task.pc \in {"connecting", "live"}
    THEN UNCHANGED <<liveGen, task, live>>
    ELSE /\ liveGen < MaxSubscriptions /\ liveGen' = liveGen + 1
         /\ task' = [gen |-> liveGen + 1, at |-> InUse, pc |-> "connecting"]
         /\ live' = "connecting"

Awaited(l) == l.id = IF l.manual THEN manualId ELSE autoId

\* An answer nobody waits for any more is dropped.
Ignored(l) ==
    /\ l \in loads /\ ~Awaited(l)
    /\ loads' = loads \ {l}
    /\ UNCHANGED <<custom, selected, version, wallet, error, mismatch, liveGen, task, live, retry,
                   inbox, manualId, autoId, again, busy, lastId, owed>>

OfThisSubscription(l) == l.gen = liveGen

\* verify_network_id: the network the endpoint reports is the wallet's.
Verified(l) == l.at \notin Foreign

\* What the handlers of WalletLoaded and WalletLoadFailed do before they look
\* at the generation.
ManualDone(l) ==
    /\ l.manual /\ manualId' = 0 /\ busy' = FALSE /\ loads' = loads \ {l}
    /\ UNCHANGED <<autoId, again, lastId>>

\* A plausible bug: the refresh asked for meanwhile is forgotten.
MutAgainDropped(l, g, more) ==
    /\ ~l.manual /\ UNCHANGED <<manualId, busy>>
    /\ autoId' = 0 /\ again' = FALSE /\ loads' = loads \ {l} /\ UNCHANGED lastId
\* The automatic load is over; a refresh asked for meanwhile is started under
\* the generation of now.  A wrong network returns before that.
AutoDone(l, g, more) ==
    /\ ~l.manual
    /\ UNCHANGED <<manualId, busy>>
    /\ IF again /\ more THEN AutoRefresh(loads \ {l}, 0, g)
       ELSE autoId' = 0 /\ again' = FALSE /\ loads' = loads \ {l} /\ UNCHANGED lastId

TaskOver(l, g, more) == ManualDone(l) \/ AutoDone(l, g, more)

\* WalletLoaded, WalletAutoLoaded: the snapshot is adopted (apply_wallet_snapshot).
Adopt(l) ==
    /\ l \in loads /\ l.read # 0 /\ Awaited(l) /\ OfThisSubscription(l) /\ Verified(l)
    /\ wallet' = [at |-> l.at, version |-> l.read]
    /\ error' = FALSE /\ mismatch' = FALSE
    /\ EnsureSubscription
    /\ owed' = IF l.read >= owed \/ liveGen' # liveGen THEN 0 ELSE owed
    /\ TaskOver(l, liveGen', TRUE)
    /\ UNCHANGED <<custom, selected, version, retry, inbox>>

\* verify_network_id fails: nothing is adopted.
WrongNetwork(l) ==
    /\ l \in loads /\ l.read # 0 /\ Awaited(l) /\ OfThisSubscription(l) /\ ~Verified(l)
    /\ mismatch' = TRUE /\ live' = "offline" /\ owed' = 0
    /\ TaskOver(l, liveGen, FALSE)
    /\ UNCHANGED <<custom, selected, version, wallet, error, liveGen, task, retry, inbox>>

\* The load fails (apply_wallet_load_failed): without a snapshot the address is
\* subscribed all the same.
LoadFails(l) ==
    /\ l \in loads /\ Awaited(l) /\ OfThisSubscription(l)
    /\ error' = TRUE /\ owed' = 0
    /\ IF wallet = NoWallet /\ ~mismatch THEN EnsureSubscription ELSE UNCHANGED <<liveGen, task, live>>
    /\ TaskOver(l, liveGen', TRUE)
    /\ UNCHANGED <<custom, selected, version, wallet, mismatch, retry, inbox>>

\* An awaited answer of an earlier generation only ends the wait.
Superseded(l) ==
    /\ l \in loads /\ Awaited(l) /\ ~OfThisSubscription(l)
    /\ TaskOver(l, liveGen, TRUE)
    /\ UNCHANGED <<custom, selected, version, wallet, error, mismatch, liveGen, task, live, retry,
                   inbox, owed>>

-----------------------------------------------------------------------------
(* The stream                                                              *)

Send(kind) == inbox' = inbox \cup {[kind |-> kind, gen |-> task.gen, version |-> version]}

\* account_subscription_loop: the stream opens and the account is subscribed.
StreamOpens ==
    /\ task.pc = "connecting"
    /\ task' = [task EXCEPT !.pc = "live"] /\ Send("ready")
    /\ UNCHANGED <<custom, selected, version, wallet, error, mismatch, liveGen, live, retry, loads,
                   manualId, autoId, again, busy, lastId, owed>>

StreamEnds ==
    /\ task.pc \in {"connecting", "live"}
    /\ task' = [task EXCEPT !.pc = "ended"] /\ Send("failed")
    /\ UNCHANGED <<custom, selected, version, wallet, error, mismatch, liveGen, live, retry, loads,
                   manualId, autoId, again, busy, lastId, owed>>

\* External: the account changes; a subscription that is live is told.
AccountChanges ==
    /\ version < MaxVersion /\ version' = version + 1
    /\ inbox' = IF task.pc = "live"
                THEN inbox \cup {[kind |-> "update", gen |-> task.gen, version |-> version + 1]}
                ELSE inbox
    /\ UNCHANGED <<custom, selected, wallet, error, mismatch, liveGen, task, live, retry, loads,
                   manualId, autoId, again, busy, lastId, owed>>

\* The events of one task arrive in the order in which it sent them.
Rank(ev) == CASE ev.kind = "ready" -> 0 [] ev.kind = "update" -> ev.version [] ev.kind = "failed" -> MaxVersion + 1
Oldest(ev) == ev \in inbox /\ \A other \in inbox : other.gen = ev.gen => Rank(ev) <= Rank(other)

DropEvent(ev) ==
    /\ ev \in inbox /\ ev.gen # liveGen
    /\ inbox' = inbox \ {ev}
    /\ UNCHANGED <<custom, selected, version, wallet, error, mismatch, liveGen, task, live, retry,
                   loads, manualId, autoId, again, busy, lastId, owed>>

SubscriptionReady(ev) ==
    /\ Oldest(ev) /\ ev.kind = "ready" /\ ev.gen = liveGen
    /\ inbox' = inbox \ {ev} /\ live' = "live" /\ retry' = FALSE
    /\ IF wallet = NoWallet \/ error THEN AutoRefresh(loads, autoId, liveGen)
       ELSE UNCHANGED <<loads, autoId, again, lastId>>
    /\ UNCHANGED <<custom, selected, version, wallet, error, mismatch, liveGen, task, manualId, busy, owed>>

SubscriptionUpdate(ev) ==
    /\ Oldest(ev) /\ ev.kind = "update" /\ ev.gen = liveGen
    /\ inbox' = inbox \ {ev} /\ owed' = ev.version
    /\ AutoRefresh(loads, autoId, liveGen)
    /\ UNCHANGED <<custom, selected, version, wallet, error, mismatch, liveGen, task, live, retry,
                   manualId, busy>>

SubscriptionFailed(ev) ==
    /\ Oldest(ev) /\ ev.kind = "failed" /\ ev.gen = liveGen
    /\ inbox' = inbox \ {ev} /\ task' = NoTask /\ live' = "connecting" /\ retry' = TRUE
    /\ UNCHANGED <<custom, selected, version, wallet, error, mismatch, liveGen, loads, manualId,
                   autoId, again, busy, lastId, owed>>

\* tick: the time of the retry has come.
RetrySubscription ==
    /\ retry /\ task.pc \in {"none", "ended"}
    /\ retry' = FALSE
    /\ IF mismatch THEN UNCHANGED <<liveGen, task, live>> ELSE EnsureSubscription
    /\ owed' = IF mismatch THEN owed ELSE 0
    /\ UNCHANGED <<custom, selected, version, wallet, error, mismatch, inbox, loads, manualId,
                   autoId, again, busy, lastId>>

LiveNext ==
    \/ \E e \in Custom : AddEndpoint(e) \/ RemoveEndpoint(e)
    \/ \E i \in 1..Cardinality(LiveEndpoints) : Select(i)
    \/ RefreshWallet
    \/ \E l \in loads : LoadAnswer(l) \/ Ignored(l) \/ Adopt(l) \/ WrongNetwork(l) \/ LoadFails(l) \/ Superseded(l)
    \/ StreamOpens \/ StreamEnds \/ AccountChanges \/ RetrySubscription
    \/ \E ev \in inbox : DropEvent(ev) \/ SubscriptionReady(ev) \/ SubscriptionUpdate(ev) \/ SubscriptionFailed(ev)

LiveSpec == LiveInit /\ [][LiveNext]_liveVars

-----------------------------------------------------------------------------
\* A snapshot is adopted only from the endpoint that is selected now, and only
\* when it serves the wallet's network, however many loads of other endpoints
\* are still under way.
AdoptsOwnSnapshots ==
    wallet' # wallet => wallet'.at = InUse /\ InUse \notin Foreign

\* Editing the list of endpoints never switches the wallet to another one
\* behind the user's back: the endpoint in use changes when another one is
\* selected or it is itself removed, and then the wallet reconnects.
IndexFollowsList ==
    Resolved(custom', selected') # InUse =>
        /\ custom' = custom \/ InUse \notin ToSet(DisplayList(custom'))
        /\ liveGen' # liveGen /\ task' = NoTask

\* An update that was applied is not lost while its subscription lasts: until a
\* load that read at least that version is shown, or the user is told of a
\* failure, an automatic load is under way that can still bring it, or another
\* one is queued behind it.
UpdateIsServed ==
    owed # 0 => \E l \in loads : /\ ~l.manual /\ l.id = autoId
                                 /\ again \/ l.read = 0 \/ l.read >= owed

\* "Connecting" is never shown with nothing under way: a task runs, its end is
\* about to be handled, or a retry is scheduled.
ConnectingIsServed ==
    live = "connecting" /\ ~mismatch => retry \/ task.pc # "none"

\* The window is busy exactly while the load it waits for is under way.
BusyIsServed == busy <=> \E l \in loads : l.manual /\ l.id = manualId

\* Nothing of the wallet page waits for an answer that will not come or would
\* not be taken: the wallet_load_id, the wallet_auto_refresh_id and the
\* generation of apply_event, and live.rs.
WalletIsServed == LiveTypeOK /\ UpdateIsServed /\ ConnectingIsServed /\ BusyIsServed

\* No step adopts a snapshot of another endpoint or network, or switches the
\* endpoint by editing the list: apply_event, add_endpoint, remove_endpoint.
SnapshotsAreOwn == [][AdoptsOwnSnapshots /\ IndexFollowsList]_liveVars

\* Through every change of endpoint, reconnection and late answer, what the
\* window waits for is on its way and what it adopts is its own
\* (controller/live.rs, wallet_ops.rs, endpoints.rs).
WalletIsSound == []WalletIsServed /\ SnapshotsAreOwn
=============================================================================
