---------------------------- MODULE HistoryScan ----------------------------
(***************************************************************************)
(* How the controller keeps its activity list in step with the account's   *)
(* transaction history (cc-wallet-app/src/controller: live.rs, events.rs). *)
(*                                                                         *)
(* A fetch is a task that walks history pages from the head (or from a     *)
(* retained cursor) towards older rows, and then reports twice: first      *)
(* EndpointHistoryScanned, then TransactionsLoaded.  Rows keep landing,    *)
(* pages fail or lose rows, the task may die, the subscription restarts    *)
(* and the wallet is reopened between any two of these steps.              *)
(*                                                                         *)
(* A row is its logical time; block times follow logical times, so an age  *)
(* cutoff is a logical time too.  None is 0 for every optional time.       *)
(***************************************************************************)
EXTENDS Integers, FiniteSetsExt

CONSTANTS MaxLt,          \* bound: rows the account ever has
          PageSize,       \* PAGE
          MaxPages,       \* MAX_PAGES of one walk
          MaxAuto,        \* MAX_AUTOMATIC_HISTORY_CONTINUATIONS
          MaxAge,         \* HISTORY_MAX_AGE_SECS
          MinKeep,        \* HISTORY_MIN_KEEP
          MaxHistory,     \* MAX_HISTORY
          Grace,          \* how far before a send its reconciliation looks
          MaxGeneration,  \* bound on subscription_generation
          MaxSends,       \* bound on transfers sent
          MaxFaults,      \* bound on failed, lossy or stale pages, dead tasks
          MaxLate         \* bound on rows the endpoint indexes late

ASSUME HistoryAssumptions ==
    /\ {MaxLt, PageSize, MaxPages, MinKeep, MaxHistory} \subseteq Nat \ {0}
    /\ {MaxAuto, MaxAge, Grace, MaxGeneration, MaxSends, MaxFaults,
         MaxLate} \subseteq Nat

VARIABLES
    head,      \* newest row of the account
    hidden,    \* rows the endpoint has not indexed yet
    sends,     \* transfers sent so far
    sent,      \* row of the unresolved transfer, 0 while it has not landed
    app,       \* the controller's fields
    faults,    \* faults and late rows so far
    announced, \* history: newest row the present subscription announced
    atRequest, \* history: the transfer was indexed when the review was asked
    explained  \* history: rows a walk was told, or made, to leave out, or
               \* that were not indexed when it passed

account == <<head, hidden, sends, sent>>
history == <<announced, atRequest, explained>>
historyVars == <<account, app, faults, history>>

Lts == 1..MaxLt
OptLt == 0..MaxLt
OptCutoff == 0..MaxLt + 1
NoScan == [next |-> 0, stop |-> 0, cutoff |-> 0, rows |-> {}, left |-> 0]
ScanType == [next : OptLt, stop : OptLt, cutoff : OptCutoff,
             rows : SUBSET Lts, left : 0..MaxAuto]
WalkType == [id : Nat, gen : Nat, headOnly : BOOLEAN, start : OptLt,
             before : OptLt, stop : OptLt, cutoff : OptCutoff, hard : OptCutoff,
             pages : 0..MaxPages, rows : SUBSET Lts, cont : OptLt,
             gap : BOOLEAN, integrity : BOOLEAN,
             st : {"walking", "done", "observed", "died"}]

HistoryTypeOK ==
    /\ head \in OptLt
    /\ hidden \subseteq 1..head
    /\ sent \in 0..head
    /\ sends \in 0..MaxSends
    /\ faults \in Nat
    /\ announced \in 0..head
    /\ atRequest \in BOOLEAN
    /\ explained \subseteq Lts
    /\ app.gen \in 0..MaxGeneration
    /\ app.sub \in {"connecting", "live", "failed"}
    /\ app.tasks \subseteq WalkType
    /\ app.inFlight \in Nat
    /\ app.scan \in ScanType
    /\ app.activity \subseteq 1..head
    /\ {app.floor, app.recFloor} \subseteq 0..head
    /\ app.timeFloor \in OptCutoff
    /\ app.risk \in {"none", "checking", "context"}
    /\ \A f \in {"again", "headAfter", "incomplete", "hasGap", "integrity",
                 "blocking"} : app[f] \in BOOLEAN

-----------------------------------------------------------------------------
(* Optional times and the activity list.                                   *)

Newest(S) == IF S = {} THEN 0 ELSE Max(S)
Oldest(S) == IF S = {} THEN 0 ELSE Min(S)
AtLeast0(n) == IF n < 0 THEN 0 ELSE n
Larger(a, b) == IF a < b THEN b ELSE a

\* lower_history_floor
LowerFloor(old, new) ==
    IF old = 0 THEN new ELSE IF new = 0 THEN old ELSE Min({old, new})

\* cap_history_at for rows of one asset, newest first.
Cap(S) ==
    {l \in S : LET above == Cardinality({k \in S : k > l}) IN
                 /\ above < MaxHistory
                 /\ l >= Newest(S) - MaxAge \/ above < MinKeep}

Visible == (1..head) \ hidden

-----------------------------------------------------------------------------
(* Starting a walk.                                                        *)

\* A plausible bug: a walk after a gap stops at the newest row of the list.
MutStopAtNewest(a, headOnly) ==
    IF ~headOnly /\ a.scan # NoScan
    THEN [start |-> a.scan.next, stop |-> a.scan.stop, cutoff |-> a.scan.cutoff]
    ELSE [start |-> 0, stop |-> Newest(a.activity), cutoff |-> 0]

\* Where a walk starts, the row it stops at and its first age cutoff.
Bounds(a, headOnly) ==
    IF headOnly
    THEN [start |-> 0, stop |-> Newest(a.activity), cutoff |-> 0]
    ELSE IF a.scan # NoScan
    THEN [start |-> a.scan.next, stop |-> a.scan.stop, cutoff |-> a.scan.cutoff]
    ELSE IF a.hasGap \/ a.incomplete
    THEN [start |-> 0, stop |-> a.floor,
          cutoff |-> IF a.blocking THEN a.timeFloor ELSE 0]
    ELSE IF a.blocking
    THEN [start |-> 0, stop |-> IF a.risk = "checking" THEN 0 ELSE a.recFloor,
          cutoff |-> a.timeFloor]
    ELSE [start |-> 0, stop |-> Newest(a.activity), cutoff |-> 0]

\* fetch_seq: an id no outstanding walk carries.
FreshId(a) == Min((1..Cardinality(a.tasks) + 1) \ {w.id : w \in a.tasks})

NewWalk(a, headOnly) ==
    LET b == Bounds(a, headOnly) IN
    [id |-> FreshId(a), gen |-> a.gen, headOnly |-> headOnly,
     start |-> b.start, before |-> b.start, stop |-> b.stop,
     cutoff |-> b.cutoff, hard |-> IF a.blocking THEN a.timeFloor ELSE 0,
     pages |-> MaxPages, rows |-> {}, cont |-> 0, gap |-> FALSE,
     integrity |-> FALSE, st |-> "walking"]

\* A plausible bug: a request that meets a walk in flight is forgotten.
MutNotCoalesced(a, headOnly) ==
    IF a.inFlight # 0 THEN a
    ELSE [a EXCEPT !.inFlight = FreshId(a),
                   !.tasks = @ \cup {NewWalk(a, headOnly)}]

\* fetch_transactions_inner: one walk at a time, later requests coalesce.
FetchInner(a, headOnly) ==
    IF a.inFlight # 0
    THEN [a EXCEPT !.again = TRUE]
    ELSE [a EXCEPT !.inFlight = FreshId(a),
                   !.tasks = @ \cup {NewWalk(a, headOnly)}]

\* fetch_transactions: a pending scan is continued first, the head afterwards.
Fetch(a) ==
    FetchInner([a EXCEPT !.headAfter =
                   @ \/ (a.inFlight = 0 /\ a.scan # NoScan)], FALSE)

-----------------------------------------------------------------------------
(* The walk itself: one action per page.                                   *)

\* The newest PageSize rows below a cursor, as the endpoint serves them.
PageBelow(cursor) ==
    LET older == IF cursor = 0 THEN Visible ELSE {l \in Visible : l < cursor}
    IN  {l \in older : Cardinality({k \in older : k > l}) < PageSize}

\* A page whose rows in "lost" did not decode is read into walk w.
ReadPage(w, page, lost) ==
    LET decoded == page \ lost
        first   == w.start = 0 /\ w.pages = MaxPages
        cutoff  == IF lost # {} THEN w.hard
                   ELSE IF first
                   THEN Larger(w.cutoff, AtLeast0(Newest(decoded) - MaxAge))
                   ELSE w.cutoff
        taken   == {l \in decoded : l >= w.stop /\ l >= cutoff}
        ended   == \/ decoded = {}
                   \/ taken # decoded
                   \/ w.stop \in taken
                   \/ Cardinality(page) < PageSize
        budget  == ~ended /\ w.pages = 1
        gap     == w.gap \/ lost # {}
        next    == Oldest(taken)
        stuck   == budget /\ ~gap /\ w.start # 0 /\ next >= w.start
        over    == ended \/ budget
    IN  [w EXCEPT !.cutoff = cutoff,
                  !.rows = @ \cup taken,
                  !.gap = gap \/ stuck,
                  !.integrity = @ \/ stuck,
                  !.before = IF over THEN 0 ELSE next,
                  !.pages = IF over THEN 0 ELSE @ - 1,
                  !.cont = IF budget /\ ~gap /\ ~stuck THEN next ELSE 0,
                  !.st = IF over THEN "done" ELSE "walking"]

\* A page fails outright, or breaks the page limit or the row checks.
FailPage(w, invalid) ==
    [w EXCEPT !.gap = TRUE, !.integrity = invalid, !.st = "done",
              !.before = 0, !.pages = 0,
              !.rows = IF invalid THEN {} ELSE @]

Replace(a, w, new) == [a EXCEPT !.tasks = (@ \ {w}) \cup {new}]

Walking(w) == w \in app.tasks /\ w.st = "walking"

\* load_transactions answers with the page below the cursor.
PageArrives(w) ==
    /\ Walking(w)
    /\ app' = Replace(app, w, ReadPage(w, PageBelow(w.before), {}))
    /\ UNCHANGED <<account, faults, history>>

\* A fault in the answer: some rows do not decode (skipped), the endpoint
\* ignores the cursor, the call fails, or the page is invalid.
PageFaults(w) ==
    /\ Walking(w)
    /\ faults < MaxFaults
    /\ faults' = faults + 1
    /\ \/ \E lost \in (SUBSET PageBelow(w.before)) \ {{}} :
            app' = Replace(app, w, ReadPage(w, PageBelow(w.before), lost))
       \/ app' = Replace(app, w, ReadPage(w, PageBelow(0), {}))
       \/ \E invalid \in BOOLEAN :
            app' = Replace(app, w, FailPage(w, invalid))
    /\ UNCHANGED <<account, history>>

\* A plausible bug: the task has no completion guard.
MutNoGuard(w) ==
    /\ Walking(w)
    /\ faults < MaxFaults
    /\ faults' = faults + 1
    /\ app' = [app EXCEPT !.tasks = @ \ {w}]
    /\ UNCHANGED <<account, history>>

\* The task ends abnormally; FetchCompletionGuard reports a gap for it.
WalkDies(w) ==
    /\ Walking(w)
    /\ faults < MaxFaults
    /\ faults' = faults + 1
    /\ app' = Replace(app, w, [FailPage(w, TRUE) EXCEPT !.integrity = FALSE,
                                                       !.st = "died"])
    /\ UNCHANGED <<account, history>>

-----------------------------------------------------------------------------
(* EndpointHistoryScanned.                                                 *)

\* The retained scan is the one this walk continued.
Continues(a, w) ==
    /\ a.scan # NoScan
    /\ a.scan.stop = w.stop
    /\ a.scan.cutoff = w.cutoff
    /\ w.start = a.scan.next

\* A plausible bug: the scan goes on at its old cursor after a head refresh
\* that did not reach the newest known row.
MutHeadKeepsCursor(a, w) ==
    IF a.scan # NoScan
    THEN [a EXCEPT !.scan.rows = @ \cup w.rows]
    ELSE a

\* A refresh of the head while a scan is retained: if it did not reach the
\* newest known row, the scan restarts below it, with its own bounds.
HeadScanned(a, w) ==
    IF w.cont # 0
    THEN [a EXCEPT !.scan = [next |-> w.cont,
              stop |-> IF a.scan = NoScan THEN w.stop ELSE a.scan.stop,
              cutoff |-> IF a.scan = NoScan THEN w.cutoff ELSE a.scan.cutoff,
              rows |-> a.scan.rows \cup w.rows, left |-> MaxAuto]]
    ELSE IF a.scan # NoScan
    THEN [a EXCEPT !.scan.rows = @ \cup w.rows]
    ELSE a

\* The page budget ended the walk: remember where to go on.
RetainScan(a, w) ==
    IF Continues(a, w)
    THEN [a EXCEPT !.scan.next = w.cont, !.scan.rows = @ \cup w.rows]
    ELSE IF a.scan = NoScan /\ w.start = 0
    THEN [a EXCEPT !.scan = [next |-> w.cont, stop |-> w.stop,
              cutoff |-> w.cutoff, rows |-> w.rows, left |-> MaxAuto]]
    ELSE [a EXCEPT !.scan = NoScan]

\* The Journal no longer blocks (refresh_journal_policy), and a pending review
\* is invalidated with it.
Unblock(a) ==
    [a EXCEPT !.blocking = FALSE, !.recFloor = 0, !.timeFloor = 0,
              !.risk = "none"]

\* The walk reached its end: the rows of the whole scan go to the Journal.
CompleteScan(a, w) ==
    IF Continues(a, w) \/ (a.scan = NoScan /\ w.start = 0)
    THEN LET rows == a.scan.rows \cup w.rows
             b == [a EXCEPT !.scan = NoScan,
                            !.floor = LowerFloor(@, Oldest(rows))]
         IN  IF a.blocking /\ sent \in rows THEN Unblock(b) ELSE b
    ELSE a

Mine(a, w) == w.id = a.inFlight /\ w.gen = a.gen

EndpointHistoryScanned(w) ==
    /\ w \in app.tasks
    /\ w.st = "done"
    /\ LET a == Replace(app, w, [w EXCEPT !.st = "observed"]) IN
       app' = IF ~Mine(app, w) THEN a
              ELSE IF w.gap THEN [a EXCEPT !.scan = NoScan]
              ELSE IF w.headOnly THEN HeadScanned(a, w)
              ELSE IF w.cont # 0 THEN RetainScan(a, w)
              ELSE CompleteScan(a, w)
    /\ sent' = IF app.blocking /\ ~app'.blocking THEN 0 ELSE sent
    /\ atRequest' = (atRequest /\ app'.risk # "none")
    /\ explained' = IF Mine(app, w) /\ ~w.gap
                    THEN explained \cup ((1..w.cutoff - 1) \ app.activity)
                    ELSE explained
    /\ UNCHANGED <<sends, head, hidden, faults, announced>>

\* An announced row the list already reaches is no longer of interest.
Unheld(l) == IF l <= Newest(app'.activity) THEN 0 ELSE l

-----------------------------------------------------------------------------
(* TransactionsLoaded.                                                     *)

\* merge_activity, and what the report says about completeness.
Merge(a, w) ==
    LET pending    == ~w.gap /\ a.scan # NoScan
        incomplete == w.gap \/ w.cont # 0 \/ pending
        whole      == ~w.gap /\ ~incomplete
    IN  [a EXCEPT !.activity = Cap(@ \cup w.rows),
                  !.incomplete = incomplete,
                  !.integrity = w.integrity \/ (@ /\ ~whole),
                  !.scan = IF w.gap THEN NoScan ELSE @,
                  !.hasGap = w.gap \/ (@ /\ ~whole),
                  !.floor = IF whole THEN LowerFloor(@, Oldest(w.rows)) ELSE @]

\* A plausible bug: a request queued behind a scan is taken for served.
MutQueuedServed(a, headOnly) ==
    LET pending == a.scan # NoScan
        auto    == pending /\ a.scan.left > 0
        b == [a EXCEPT !.again = @ /\ ~pending]
    IN  IF auto
        THEN FetchInner([b EXCEPT !.scan.left = @ - 1], FALSE)
        ELSE IF ~pending /\ (b.again \/ b.headAfter)
        THEN Fetch([b EXCEPT !.again = FALSE, !.headAfter = FALSE])
        ELSE b

\* What to fetch next: the pending scan, then the head, then queued requests.
FetchNext(a, headOnly) ==
    LET pending == a.scan # NoScan
        queued  == pending /\ a.again
        auto    == pending /\ a.scan.left > 0
        b == [a EXCEPT !.again = @ /\ ~pending, !.headAfter = @ \/ queued]
    IN  IF auto
        THEN FetchInner([b EXCEPT !.scan.left = @ - 1], FALSE)
        ELSE IF queued
        THEN FetchInner(b, FALSE)
        ELSE IF pending /\ b.headAfter
        THEN FetchInner([b EXCEPT !.headAfter = FALSE], TRUE)
        ELSE IF ~pending /\ (b.again \/ b.headAfter)
        THEN Fetch([b EXCEPT !.again = FALSE, !.headAfter = FALSE])
        ELSE IF pending /\ ~headOnly
        THEN FetchInner(b, TRUE)
        ELSE b

\* A plausible bug: the review does not wait for the walk it asked for.
MutReviewWhileWalking(a) ==
    IF a.risk # "checking" THEN a
    ELSE IF ~a.blocking \/ a.incomplete \/ a.hasGap \/ a.integrity
    THEN [a EXCEPT !.risk = "none"]
    ELSE [a EXCEPT !.risk = "context"]

\* finish_pending_risk_reconciliation
FinishRisk(a) ==
    IF a.risk # "checking" \/ a.inFlight # 0 THEN a
    ELSE IF ~a.blocking \/ a.incomplete \/ a.hasGap \/ a.integrity
    THEN [a EXCEPT !.risk = "none"]
    ELSE [a EXCEPT !.risk = "context"]

\* A report of an older subscription: its rows are dropped, the guard is
\* released, and only a queued request is honoured.
StaleLoaded(a) ==
    IF a.again
    THEN LET b == [a EXCEPT !.again = FALSE] IN
         IF a.scan # NoScan
         THEN FetchInner([b EXCEPT !.headAfter = TRUE], FALSE)
         ELSE Fetch(b)
    ELSE [a EXCEPT !.risk = IF @ = "checking" THEN "none" ELSE @]

TransactionsLoaded(w) ==
    /\ w \in app.tasks
    /\ w.st \in {"observed", "died"}
    /\ LET a == [app EXCEPT !.tasks = @ \ {w}]
           b == [a EXCEPT !.inFlight = 0]
           m == Merge(b, w)
           stale == w.gen # app.gen
       IN  /\ app' = IF w.id # app.inFlight THEN a
                     ELSE IF stale THEN StaleLoaded(b)
                     ELSE FinishRisk(FetchNext(m, w.headOnly))
           /\ explained' = (explained \cup
                IF w.id # app.inFlight THEN {}
                ELSE IF stale THEN w.rows
                ELSE (app.activity \cup w.rows) \ m.activity)
                \ app'.activity
    /\ announced' = Unheld(announced)
    /\ atRequest' = (atRequest /\ app'.risk # "none")
    /\ UNCHANGED <<account, faults>>

-----------------------------------------------------------------------------
(* The subscription.                                                       *)

Backlog(a) == a.blocking \/ a.scan # NoScan \/ a.incomplete \/ a.hasGap

SubscriptionReady ==
    /\ app.sub = "connecting"
    /\ LET a == [app EXCEPT !.sub = "live"] IN
       app' = IF Backlog(a) THEN Fetch(a) ELSE a
    /\ UNCHANGED <<account, faults, history>>

SubscriptionUpdate ==
    /\ app.sub = "live"
    /\ app' = Fetch(app)
    /\ announced' = Unheld(Newest(Visible))
    /\ UNCHANGED <<account, faults, atRequest, explained>>

SubscriptionFailed ==
    /\ app.sub # "failed"
    /\ app.gen < MaxGeneration
    /\ app' = [app EXCEPT !.sub = "failed"]
    /\ UNCHANGED <<account, faults, history>>

\* ensure_subscription, from tick after the backoff or from a wallet snapshot:
\* a new generation; the walk in flight and the retained scan stay.
Resubscribe(a) == [a EXCEPT !.gen = @ + 1, !.sub = "connecting"]

Reconnect ==
    /\ app.sub = "failed"
    /\ app' = Resubscribe(app)
    /\ announced' = 0
    /\ UNCHANGED <<account, faults, atRequest, explained>>

\* apply_wallet_snapshot of a manual load: subscribe if need be, then fetch.
\* (An automatic load only subscribes, which is Reconnect.)
ManualRefresh ==
    /\ app.risk # "checking"
    /\ app' = Fetch(IF app.sub = "failed" THEN Resubscribe(app) ELSE app)
    /\ announced' = IF app.sub = "failed" THEN 0 ELSE announced
    /\ UNCHANGED <<account, faults, atRequest, explained>>

\* stop_subscription drops the load state and keeps the activity list; the
\* wallet load that follows subscribes again.  select_endpoint does only this;
\* closing and reopening a wallet also forgets the session's floors and starts
\* with a refetch obligation.
Restart(reopen) ==
    /\ app.gen < MaxGeneration
    /\ reopen \/ ~app.blocking
    /\ LET a == [app EXCEPT !.gen = @ + 1, !.sub = "connecting",
                            !.inFlight = 0, !.again = FALSE,
                            !.headAfter = FALSE, !.scan = NoScan]
       IN  app' = IF ~reopen THEN a
                  ELSE [a EXCEPT !.hasGap = TRUE, !.incomplete = FALSE,
                                 !.integrity = FALSE, !.floor = 0,
                                 !.recFloor = 0,
                                 !.risk = "none"]
    /\ announced' = 0
    /\ explained' = IF reopen THEN {} ELSE explained
    /\ atRequest' = (atRequest /\ app'.risk # "none")
    /\ UNCHANGED <<account, faults>>

-----------------------------------------------------------------------------
(* The Journal's side, as far as the walk sees it.                         *)

\* A prepared record blocks; capture_live_journal_reconcile_floor has read the
\* newest row known before the send: of the list, or last_trans_lt of the
\* wallet snapshot, which may be ahead of it.
Send(snapshotLt) ==
    /\ ~app.blocking
    /\ ~app.integrity
    /\ sends < MaxSends
    /\ sends' = sends + 1
    /\ app' = [app EXCEPT !.blocking = TRUE,
                          !.recFloor = Larger(Newest(app.activity), snapshotLt),
                          !.timeFloor = AtLeast0(head + 1 - Grace)]
    /\ explained' = explained \cup (Newest(app.activity) + 1 .. snapshotLt - 1)
    /\ UNCHANGED <<head, hidden, sent, faults, announced, atRequest>>

\* The record is no longer recent: recent_reconciliation_floor is None.
RecordAges ==
    /\ app.blocking
    /\ app.timeFloor # 0
    /\ app' = [app EXCEPT !.timeFloor = 0]
    /\ UNCHANGED <<account, faults, history>>

\* poll_journal_reconciliation: the retry delay of a recent record has passed.
PollJournal ==
    /\ app.blocking
    /\ app.timeFloor # 0
    /\ app.inFlight = 0
    /\ app' = Fetch(app)
    /\ UNCHANGED <<account, faults, history>>

\* request_risk_override
RequestRisk ==
    /\ app.blocking
    /\ app.risk = "none"
    /\ ~app.integrity
    /\ app' = Fetch([app EXCEPT !.risk = "checking"])
    /\ atRequest' = (sent \in Visible)
    /\ UNCHANGED <<account, faults, announced, explained>>

\* cancel_risk_override, or the review ends.
EndRisk ==
    /\ app.risk # "none"
    /\ app' = [app EXCEPT !.risk = "none"]
    /\ atRequest' = FALSE
    /\ UNCHANGED <<account, faults, announced, explained>>

-----------------------------------------------------------------------------
(* The account and its endpoint (external).                                *)

NewRow(ours, late) ==
    /\ head < MaxLt
    /\ ours => app.blocking /\ sent = 0
    /\ late => faults < MaxLate
    /\ head' = head + 1
    /\ sent' = IF ours THEN head + 1 ELSE sent
    /\ hidden' = IF late THEN hidden \cup {head + 1} ELSE hidden
    /\ faults' = IF late THEN faults + 1 ELSE faults
    /\ UNCHANGED <<sends, app, history>>

IndexRow(l) ==
    /\ l \in hidden
    /\ hidden' = hidden \ {l}
    /\ explained' = explained \cup {l}
    /\ UNCHANGED <<head, sends, sent, app, faults, announced, atRequest>>

-----------------------------------------------------------------------------
HistoryInit ==
    /\ head = 1
    /\ hidden = {}
    /\ sends = 0
    /\ sent = 0
    /\ app = [gen |-> 0, sub |-> "connecting", tasks |-> {}, inFlight |-> 0,
              again |-> FALSE, headAfter |-> FALSE, scan |-> NoScan,
              activity |-> {}, incomplete |-> FALSE, hasGap |-> TRUE,
              integrity |-> FALSE, floor |-> 0, blocking |-> FALSE,
              recFloor |-> 0, timeFloor |-> 0,
              risk |-> "none"]
    /\ faults = 0
    /\ announced = 0
    /\ atRequest = FALSE
    /\ explained = {}

\* Walks, subscription and account, without a transfer of the wallet's own.
WalkNext ==
    \/ \E w \in app.tasks : PageArrives(w) \/ PageFaults(w) \/ WalkDies(w)
    \/ \E w \in app.tasks : EndpointHistoryScanned(w) \/ TransactionsLoaded(w)
    \/ SubscriptionReady \/ SubscriptionUpdate \/ SubscriptionFailed
    \/ Reconnect \/ ManualRefresh
    \/ \E reopen \in BOOLEAN : Restart(reopen)
    \/ \E ours, late \in BOOLEAN : NewRow(ours, late)
    \/ \E l \in hidden : IndexRow(l)

\* A transfer and its review.
TransferNext ==
    \/ \E lt \in 0..head : Send(lt)
    \/ RecordAges \/ PollJournal \/ RequestRisk \/ EndRisk

HistoryNext == WalkNext \/ TransferNext

WalkSpec == HistoryInit /\ [][WalkNext]_historyVars
HistorySpec == HistoryInit /\ [][HistoryNext]_historyVars

\* Some walk under way proceeds: its HTTP calls have timeouts, the runtime keeps
\* polling it, and the UI timer drains the event channel, so that a sent report
\* is applied.
WalkProceeds(w) == PageArrives(w) \/ EndpointHistoryScanned(w) \/ TransactionsLoaded(w)
HistoryFairness == WF_historyVars(\E w \in app.tasks : WalkProceeds(w))

HistoryFairSpec == HistorySpec /\ HistoryFairness

-----------------------------------------------------------------------------
(* Properties.                                                             *)

\* The guard that admits one fetch at a time is always owned by a walk that
\* will still report, or every later fetch would be coalesced into nothing
\* (FetchCompletionGuard, fetch_in_flight_id).  With the types.
GuardNeverStranded ==
    /\ HistoryTypeOK
    /\ app.inFlight # 0 => \E w \in app.tasks : w.id = app.inFlight

\* Everything between the cursor of a retained scan and its newest row has been
\* walked (but for rows indexed late, below the age cutoff of a head refresh, or
\* otherwise explained), whatever head refreshes and continuations it went
\* through: only then is the end of the scan evidence about the whole range
\* (events.rs, the EndpointHistoryScanned arm).
ScanHasNoHole ==
    app.scan # NoScan =>
        \A l \in app.scan.next..Newest(app.scan.rows) :
            l \in Visible \ explained => l \in app.scan.rows

Idle == app.inFlight = 0 /\ ~app.again

\* A row the present subscription announced is not forgotten: once no fetch is
\* running or queued, it is in the list, or the list is marked as unfinished, or
\* a cutoff excluded it.
NoLostUpdate ==
    Idle /\ ~app.hasGap /\ ~app.incomplete =>
        announced <= Newest(app.activity) \/ announced \in explained

Missing ==
    {l \in Visible : /\ l >= app.floor
                     /\ l <= Newest(app.activity)
                     /\ l \notin app.activity}

\* At rest, a list that carries no gap and no incomplete mark has no hole above
\* the trusted floor, except rows a cutoff or a captured floor excluded, rows the
\* retention cap dropped, rows reported to a subscription that had ended, and
\* rows the endpoint indexed late.
EveryHoleIsExplained ==
    Idle /\ ~app.hasGap /\ ~app.incomplete => Missing \subseteq explained

\* "the gap is closed by a clean fetch": the fetch that clears the gap leaves
\* no hole above the trusted floor, but for rows past retention.
GapIsClosed ==
    [][app.hasGap /\ ~app'.hasGap /\ ~app'.incomplete =>
           \A l \in Missing' : l < Newest(app'.activity) - MaxAge]_historyVars

\* The duplicate-risk review goes on only if the walk it asked for did not find
\* the transfer: a transfer the endpoint listed when the review was requested
\* settles the record instead (risk.rs, finish_pending_risk_reconciliation).
ReviewFindsLanded ==
    app.risk = "context" /\ app.blocking /\ sent # 0
        => ~(atRequest /\ sent >= head - MaxAge)

\* While a transfer is unresolved its floor and its age bound the walks: still
\* the review goes on only past a walk that could have seen the transfer, and an
\* idle list that is marked complete has no hole but those the code decides to
\* leave (risk.rs, finish_pending_risk_reconciliation; live.rs,
\* fetch_transactions_inner).
ReviewIsSound == ReviewFindsLanded /\ EveryHoleIsExplained

\* A row the subscription announces reaches the list, unless a fault left a gap
\* (or the subscription is replaced): fetches keep being served, also when
\* further updates arrive during every walk.
UpdateIsServed == announced # 0 ~> announced = 0 \/ app.hasGap
=============================================================================
