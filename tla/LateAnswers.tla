---------------------------- MODULE LateAnswers ----------------------------
(***************************************************************************)
(* The queries the interface runs beside the wallet's own loads, and what  *)
(* becomes of an answer that arrives after the screen, the wallet or the   *)
(* endpoint has moved on: validator clock, network statistics, an account, *)
(* its transactions and a message trace in the explorer, the swap pool,    *)
(* the record storage, the key of a chat peer, and the recipient check.    *)
(* Each has its own rule for stale answers; all of them hang on            *)
(* subscription_generation and on a sequence number of their own.          *)
(* cc-wallet-app: controller/events.rs, mod.rs, swap.rs, storage.rs,       *)
(* chat.rs, wallet_ops.rs, endpoints.rs.                                   *)
(*                                                                         *)
(* The queries do not interact, except inside the explorer: a behaviour    *)
(* exercises one group of them, chosen initially, against every change of  *)
(* endpoint, subscription, identity and subject.                           *)
(***************************************************************************)
EXTENDS Naturals, Sequences, FiniteSets, SequencesExt

CONSTANTS
    Endpoints,    \* endpoints of the wallet's list
    Identities,   \* wallets, and phrases of a wallet
    Subjects,     \* addresses, peers, transaction hashes
    TraceMemory,  \* TRACE_MEMORY
    MaxGen,       \* bound: generations of the subscription
    MaxAsked      \* bound: requests of one query

ASSUME LateConstants == TraceMemory \in Nat /\ MaxGen \in Nat /\ MaxAsked \in Nat

None == "-"
Groups == {{"clock"}, {"stats"}, {"account", "txs", "trace"}, {"pool"}, {"storage"}, {"chat"}, {"dest"}}
Queries == UNION Groups
World == Endpoints \X Identities

VARIABLES
    active,   \* the group of queries this behaviour exercises
    world,    \* the endpoint selected and the identity shown
    gen,      \* subscription_generation
    tab,      \* the storage page is the selected tab
    q,        \* per query: sequence number, subject, loading, what is shown
    reqs,     \* requests that have not been answered
    cache,    \* trace_cache, most recent first
    jump      \* pending_explorer_trace

lateVars == <<active, world, gen, tab, q, reqs, cache, jump>>

Shown == [subject : Subjects \cup {None}, world : World]
NothingShown == [subject |-> None, world |-> <<None, None>>]
Query == [seq : 0..MaxAsked, subject : Subjects \cup {None}, loading : BOOLEAN,
          shown : Shown \cup {NothingShown}]
Request == [query : Queries, gen : 0..MaxGen, seq : 0..MaxAsked,
            subject : Subjects \cup {None}, world : World]

LateTypeOK ==
    /\ active \in Groups /\ world \in World /\ gen \in 0..MaxGen /\ tab \in BOOLEAN
    /\ q \in [Queries -> Query] /\ reqs \subseteq Request
    /\ cache \in Seq(Shown) /\ Len(cache) <= TraceMemory
    /\ jump \in Subjects \cup {None}
    /\ \A i, j \in 1..Len(cache) : cache[i].subject = cache[j].subject => i = j

-----------------------------------------------------------------------------
(* Helpers: s is the record of everything a step may change.               *)

State == [q |-> q, reqs |-> reqs, cache |-> cache, jump |-> jump]
Set(s) == q' = s.q /\ reqs' = s.reqs /\ cache' = s.cache /\ jump' = s.jump

Put(s, k, x) == [s EXCEPT !.q[k] = x]
Idle(s, k) == Put(s, k, [s.q[k] EXCEPT !.loading = FALSE, !.shown = NothingShown])
Off(s, k) == Put(s, k, [s.q[k] EXCEPT !.loading = FALSE, !.shown = NothingShown, !.subject = None])

\* A request under a new sequence number.
Ask(s, k, subject, g, w) ==
    LET n == s.q[k].seq + 1 IN
    [Put(s, k, [s.q[k] EXCEPT !.seq = n, !.subject = subject, !.loading = TRUE]) EXCEPT
        !.reqs = @ \cup {[query |-> k, gen |-> g, seq |-> n, subject |-> subject, world |-> w]}]
\* The same about something new: what was shown before is cleared.
Anew(s, k, subject, g, w) == Ask(Idle(s, k), k, subject, g, w)
CanAsk(s, ks) == \A k \in ks : s.q[k].seq < MaxAsked

\* close_trace and close_chat: an answer under way is no longer the current one.
ClosedView(s, k) == Put(Off(s, k), k, [Off(s, k).q[k] EXCEPT !.seq = @ + 1])

\* cached_trace moves the entry to the front; remember_trace keeps at most
\* TRACE_MEMORY of them.  A hash occurs once, so that its retain removes the one
\* entry that Without removes.
Cached(s, h) == \E i \in 1..Len(s.cache) : s.cache[i].subject = h
Without(c, h) ==
    IF \E i \in 1..Len(c) : c[i].subject = h
    THEN RemoveAt(c, CHOOSE i \in 1..Len(c) : c[i].subject = h) ELSE c
ToFront(c, e) == <<e>> \o Without(c, e.subject)
Remembered(c, e) == SubSeq(ToFront(c, e), 1, IF Len(ToFront(c, e)) < TraceMemory
                                           THEN Len(ToFront(c, e)) ELSE TraceMemory)

\* trace_transaction: from the cache, or asked of the endpoint.
Traced(s, h, g, w) ==
    IF Cached(s, h)
    THEN LET e == CHOOSE x \in ToSet(s.cache) : x.subject = h IN
         [Put(s, "trace", [seq |-> s.q["trace"].seq + 1, subject |-> h, loading |-> FALSE, shown |-> e])
             EXCEPT !.cache = ToFront(@, e)]
    ELSE Anew(s, "trace", h, g, w)

\* inspect_account: the trace on screen is closed, and the account and its
\* transactions are asked under one sequence number.  The account shown
\* before stays on screen until the answer.
Inspected(s, a, g, w) ==
    Anew(Ask(ClosedView(s, "trace"), "account", a, g, w), "txs", a, g, w)

-----------------------------------------------------------------------------
(* The world moves on.                                                     *)

\* reset_stranded_destination_check: an answer of an earlier generation will
\* not be taken, so the check counts as not made.
Unstranded(s) == IF s.q["dest"].loading THEN Idle(s, "dest") ELSE s

NewGeneration == gen < MaxGen /\ gen' = gen + 1

\* ensure_subscription, on a first snapshot or after a reconnection.
Resubscribe ==
    /\ NewGeneration /\ Set(Unstranded(State))
    /\ UNCHANGED <<active, world, tab>>

\* A plausible bug: cached traces outlive their endpoint.
MutTracesKept(c) == c
\* forget_traces.
Forgotten(c) == <<>>

\* select_endpoint, and remove_endpoint when the endpoint in use changes.
SelectEndpoint(e) ==
    /\ NewGeneration
    /\ world' = <<e, world[2]>>
    /\ Set([Idle(State, "dest") EXCEPT !.cache = Forgotten(@)])
    /\ UNCHANGED <<active, tab>>

\* refresh_storage, for the identity that is open.
AskedStorage(s, g, w) == Ask(s, "storage", None, g, w)

\* activate_seed: another identity in the open wallet.
ActivateSeed(i) ==
    /\ NewGeneration /\ CanAsk(State, {"storage"})
    /\ world' = <<world[1], i>>
    /\ LET s == [Off(Off(Idle(State, "dest"), "storage"), "chat") EXCEPT !.cache = Forgotten(@)]
       IN  Set(IF tab /\ "storage" \in active THEN AskedStorage(s, gen', world') ELSE s)
    /\ UNCHANGED <<active, tab>>

\* finish_lock and enter_app: everything shown is gone; the sequence numbers
\* and pending_explorer_trace are not.
OtherWallet(e, i) ==
    /\ NewGeneration
    /\ world' = <<e, i>> /\ tab' = FALSE
    /\ Set([q |-> [k \in Queries |-> [q[k] EXCEPT !.loading = FALSE, !.subject = None, !.shown = NothingShown]],
            reqs |-> reqs, cache |-> Forgotten(cache), jump |-> jump])
    /\ UNCHANGED active

-----------------------------------------------------------------------------
(* Questions.                                                              *)

Asks(ks) == ks \subseteq active /\ CanAsk(State, ks) /\ UNCHANGED <<active, world, gen>>

\* tick on the explorer page; nothing says that these two are loading.
Refresh(k) ==
    /\ k \in {"clock", "stats"} /\ Asks({k}) /\ UNCHANGED tab
    /\ LET s == Ask(State, k, None, gen, world) IN Set(Put(s, k, [s.q[k] EXCEPT !.loading = FALSE]))

InspectAccount(a) ==
    /\ Asks({"account", "txs", "trace"}) /\ UNCHANGED tab
    /\ Set(Inspected(State, a, gen, world))
OpenInExplorer(a, h) ==
    /\ Asks({"account", "txs", "trace"}) /\ UNCHANGED tab
    /\ Set([Inspected(State, a, gen, world) EXCEPT !.jump = h])
TraceTransaction(h) ==
    /\ Asks({"trace"}) /\ UNCHANGED tab
    /\ Set(Traced(State, h, gen, world))
CloseTrace ==
    /\ Asks({"trace"}) /\ UNCHANGED tab
    /\ Set(ClosedView(State, "trace"))

\* refresh_swap_pool, on opening the swap page or after a swap.
RefreshPool ==
    /\ Asks({"pool"}) /\ UNCHANGED tab
    /\ Set(Ask(State, "pool", None, gen, world))

\* on_storage_tab_opened, unless something was loaded or is loading; the
\* refresh button asks again in any case.
OpenStorageTab ==
    /\ Asks({"storage"}) /\ tab' = TRUE
    /\ Set(IF q["storage"].loading \/ q["storage"].shown # NothingShown THEN State
           ELSE AskedStorage(State, gen, world))
LeaveStorageTab ==
    /\ tab /\ tab' = FALSE
    /\ UNCHANGED <<active, world, gen, q, reqs, cache, jump>>
RefreshStorage ==
    /\ Asks({"storage"}) /\ UNCHANGED tab
    /\ Set(AskedStorage(State, gen, world))

OpenChat(p) ==
    /\ Asks({"chat"}) /\ UNCHANGED tab
    /\ Set(Anew(State, "chat", p, gen, world))
CloseChat ==
    /\ Asks({"chat"}) /\ q["chat"].subject # None /\ UNCHANGED tab
    /\ Set(ClosedView(State, "chat"))

\* set_send_destination and quick_send, then check_destination: only what is
\* neither known nor under way is checked.
SetDestination(d) ==
    /\ "dest" \in active
    /\ LET s == Idle(State, "dest") IN Set(Put(s, "dest", [s.q["dest"] EXCEPT !.subject = d]))
    /\ UNCHANGED <<active, world, gen, tab>>
CheckDestination ==
    /\ Asks({"dest"}) /\ UNCHANGED tab
    /\ q["dest"].subject # None /\ ~q["dest"].loading /\ q["dest"].shown = NothingShown
    /\ Set(Ask(State, "dest", q["dest"].subject, gen, world))

-----------------------------------------------------------------------------
(* Answers.                                                                *)

\* The generation and the answer's own number, as apply_event compares them.
OfThisGeneration(r) == r.gen = gen
Expected(r) == r.seq = q[r.query].seq /\ r.subject = q[r.query].subject

\* An answer that is taken: what is shown, or nothing after an error (a
\* clock, statistics or records already shown survive an error).
Taken(s, r, ok) ==
    Put(s, r.query, [s.q[r.query] EXCEPT
        !.loading = FALSE,
        !.shown = IF ok THEN [subject |-> r.subject, world |-> r.world]
                  ELSE IF r.query \in {"clock", "stats", "storage"} THEN @ ELSE NothingShown])

\* A plausible bug: a stale read ends without ending its spinner.
MutAbandonedNot(s) == s
\* abandon_stale_storage_read.
Abandoned(s) ==
    LET t == Put(s, "storage", [s.q["storage"] EXCEPT !.loading = FALSE]) IN
    IF ~s.q["storage"].loading THEN s
    ELSE IF tab THEN AskedStorage(t, gen, world) ELSE t

\* The account's transactions open the trace that was asked with them.
Jumped(s) ==
    IF s.jump = None THEN s ELSE [Traced(s, s.jump, gen, world) EXCEPT !.jump = None]

\* A trace that is complete is remembered.
Traces(s, r, ok) ==
    {s} \cup (IF ok THEN {[s EXCEPT !.cache = Remembered(@, [subject |-> r.subject, world |-> r.world])]} ELSE {})

Outcomes(s, r, ok) ==
    CASE r.query \in {"clock", "stats", "pool", "dest"} ->
            IF Expected(r) /\ OfThisGeneration(r) THEN {Taken(s, r, ok)} ELSE {s}
      [] r.query = "chat" -> IF Expected(r) THEN {Taken(s, r, ok)} ELSE {s}
      [] r.query = "storage" ->
            IF Expected(r) /\ OfThisGeneration(r) THEN {Taken(s, r, ok)}
            ELSE IF r.seq = s.q["storage"].seq THEN {Abandoned(s)} ELSE {s}
      [] r.query \in {"account", "txs"} ->
            IF ~Expected(r) THEN {s}
            ELSE IF ~OfThisGeneration(r) THEN {Inspected(s, r.subject, gen, world)}
            ELSE IF r.query = "txs" THEN {Jumped(Taken(s, r, ok))}
            ELSE {Taken(s, r, ok)}
      [] r.query = "trace" ->
            IF ~Expected(r) THEN {s}
            ELSE IF ~OfThisGeneration(r) THEN {Traced(s, r.subject, gen, world)}
            ELSE Traces(Taken(s, r, ok), r, ok)

Arrived(s, r) == [s EXCEPT !.reqs = @ \ {r}]
Answer(r, ok) ==
    /\ r \in reqs
    /\ \E s \in Outcomes(Arrived(State, r), r, ok) :
          /\ \A k \in Queries : s.q[k].seq <= MaxAsked
          /\ Set(s)
    /\ UNCHANGED <<active, world, gen, tab>>

LateInit ==
    /\ active \in Groups /\ world \in World /\ gen = 0 /\ tab = FALSE
    /\ q = [k \in Queries |-> [seq |-> 0, subject |-> None, loading |-> FALSE, shown |-> NothingShown]]
    /\ reqs = {} /\ cache = <<>> /\ jump = None

LateNext ==
    \/ Resubscribe \/ \E e \in Endpoints : SelectEndpoint(e)
    \/ \E i \in Identities : ActivateSeed(i) \/ \E e \in Endpoints : OtherWallet(e, i)
    \/ \E k \in Queries : Refresh(k)
    \/ \E a \in Subjects : InspectAccount(a) \/ TraceTransaction(a) \/ OpenChat(a) \/ SetDestination(a)
    \/ \E a, h \in Subjects : OpenInExplorer(a, h)
    \/ CloseTrace \/ CloseChat \/ RefreshPool \/ RefreshStorage \/ CheckDestination
    \/ OpenStorageTab \/ LeaveStorageTab
    \/ \E r \in reqs, ok \in BOOLEAN : Answer(r, ok)

LateSpec == LateInit /\ [][LateNext]_lateVars

-----------------------------------------------------------------------------
(* Properties.                                                             *)

\* Nothing is put on screen that was asked of another endpoint, for another
\* wallet or phrase, or about something else than what the screen is about:
\* not by a late answer and not from the trace cache.  (A chat peer's key is
\* taken whatever endpoint was asked: apply_chat_peer_key compares the peer
\* only, so that the answer survives a resubscription.)
NothingStaleIsShown ==
    \A k \in Queries :
        q'[k].shown # q[k].shown /\ q'[k].shown # NothingShown =>
            /\ q'[k].shown.subject = q'[k].subject
            /\ k # "chat" => q'[k].shown.world = world'

\* Whatever says that it is loading is waiting for an answer that will be
\* taken or asked again: no stale answer, resubscription, lock or change of
\* subject leaves a page loading for ever.  The swap pool is the exception:
\* apply_swap_pool_loaded drops the answer of an earlier generation and
\* leaves pool_loading as it is.
LoadingIsServed ==
    \A k \in Queries \ {"pool"} :
        q[k].loading => \E r \in reqs : /\ r.query = k /\ r.seq = q[k].seq /\ r.subject = q[k].subject
                                        /\ k = "dest" => r.gen = gen

\* The two together, as the run checks them: the pages' state is well formed
\* (the trace cache is bounded and holds a hash once), and nothing that says
\* it is loading waits for an answer that will not be taken (apply_event and
\* the apply_ functions it calls).
PagesAreServed == LateTypeOK /\ LoadingIsServed

\* No step puts something on screen that is not the screen's own.
NothingStale == [][NothingStaleIsShown]_lateVars

\* However late an answer comes, no page waits for one that will not be taken
\* and none shows one that is not its own (apply_event, cached_trace,
\* forget_traces).
PagesAreSound == []PagesAreServed /\ NothingStale
=============================================================================
