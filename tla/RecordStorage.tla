--------------------------- MODULE RecordStorage ---------------------------
(***************************************************************************)
(* Encrypted records kept in a contract of the wallet's own: the list read *)
(* from the chain, a request put to the user, signed and broadcast, and    *)
(* the watch that waits for the chain to show it.                          *)
(* cc-wallet-app: controller/storage.rs, state.rs; cc-wallet-domain:       *)
(* storage.rs; cc-wallet-chain: wallet_service.rs; cc-wallet-tycho:        *)
(* storage.rs.                                                             *)
(*                                                                         *)
(* A record's content is the number of the put that wrote it, Junk if it   *)
(* cannot be opened.  External: the contract, and the replay guard of the  *)
(* wallet, which executes messages in the order they were signed.          *)
(***************************************************************************)
EXTENDS Naturals, FiniteSets

CONSTANTS
    Owners,     \* wallet identities
    Limit,      \* MAX_STORAGE_RECORDS
    Stored,     \* what the contracts may hold at the start
    MaxOps,     \* bound: requests signed
    MaxReads,   \* bound: reads of the list
    MaxLocks    \* bound: locks

Ids == 1..(Limit + 1)
Nothing == 0
Junk == MaxOps + 1
Old == MaxOps + 2      \* a record written before the wallet was opened
Contents == {Nothing, Junk, Old} \cup 1..MaxOps

NoOp == [kind |-> "none", id |-> 0, saw |-> 0, n |-> 0, owner |-> CHOOSE o \in Owners : TRUE,
         session |-> 0, state |-> "none"]
NoList == [exists |-> FALSE, cells |-> [i \in Ids |-> Nothing]]
TakenIds(list) == {i \in Ids : list.cells[i] # Nothing}

\* No record without a contract, and no more than it takes.
ASSUME StorageAssumptions ==
    /\ {Limit, MaxOps, MaxReads, MaxLocks} \subseteq Nat
    /\ Stored \subseteq [exists : BOOLEAN, cells : [Ids -> {Nothing, Junk, Old}]]
    /\ \A l \in Stored : /\ l.exists \/ TakenIds(l) = {}
                         /\ Cardinality(TakenIds(l)) <= Limit

VARIABLES
    chain,     \* per owner: the contract, as a list, and its replay guard
    me,        \* the identity in use
    shown,     \* storage.exists and storage.records
    loaded, loading,
    seq,       \* storage_seq
    reads,     \* reads not answered: their number, owner, and what was read
    pendingOp,   \* pending_storage
    asking,    \* the dialog of the pendingOp request is open
    busy,      \* storage.busy
    opsFlying,    \* requests being prepared and broadcast
    sent,      \* messages a node has
    watch,     \* storage_watch, as the request it waits for
    session,   \* session_generation
    opCount,     \* requests signed
    collided   \* history: a put was signed with a number already in use

ui == <<shown, loaded, loading, seq, reads, watch>>
request == <<pendingOp, asking, busy, opsFlying, opCount, collided>>
network == <<chain, sent>>
storeVars == <<ui, request, network, me, session>>

-----------------------------------------------------------------------------
(* Pure functions                                                          *)

\* load_storage: records that cannot be opened are only counted.
Readable(list) ==
    [list EXCEPT !.cells = [i \in Ids |-> IF @[i] = Junk THEN Nothing ELSE @[i]]]

\* next_free_id: one pass over the numbers in order.
StepCandidate(candidate, id) == IF id = candidate THEN candidate + 1 ELSE candidate

NextFreeId(taken) ==
    LET pass[i \in 0..(Limit + 1)] ==
            IF i = 0 THEN 1
            ELSE IF i \in taken THEN StepCandidate(pass[i - 1], i) ELSE pass[i - 1]
    IN  pass[Limit + 1]

\* StorageExpectation::met_by
MetBy(op, list) ==
    CASE op.kind = "create" -> list.exists
      [] op.kind = "put"    -> list.cells[op.id] # Nothing
      [] op.kind = "delete" -> list.cells[op.id] = Nothing

-----------------------------------------------------------------------------
Lists == [exists : BOOLEAN, cells : [Ids -> Contents]]

\* Types; the bounds; no record without a contract.
StoreTypeOK ==
    /\ me \in Owners /\ loaded \in BOOLEAN /\ loading \in BOOLEAN
    /\ \A o \in Owners : /\ chain[o].list.exists \/ TakenIds(chain[o].list) = {}
                         /\ Cardinality(TakenIds(chain[o].list)) <= Limit
    /\ shown.exists \in BOOLEAN /\ shown.cells \in [Ids -> Contents \ {Junk}]
    /\ seq \in 0..MaxReads /\ session \in 0..MaxLocks /\ opCount \in 0..MaxOps
    /\ busy \in BOOLEAN /\ asking \in BOOLEAN /\ collided \in BOOLEAN
    /\ {opsFlying, sent} \subseteq SUBSET [kind : {"create", "put", "delete"}, id : 0..(Limit + 1),
          saw : Contents, n : 1..MaxOps, owner : Owners, session : 0..MaxLocks,
          state : {"preparing", "reached", "failed", "sent"}]

StoreInit ==
    /\ chain \in [Owners -> [list : Stored, guard : {0}]]
    /\ me \in Owners /\ shown = NoList /\ loaded = FALSE /\ loading = FALSE
    /\ seq = 0 /\ reads = {} /\ pendingOp = NoOp /\ asking = FALSE /\ busy = FALSE
    /\ opsFlying = {} /\ sent = {} /\ watch = NoOp /\ session = 0 /\ opCount = 0
    /\ collided = FALSE

-----------------------------------------------------------------------------
(* Reading the list                                                        *)

\* refresh_storage
Refreshed(owner, rs) ==
    /\ seq < MaxReads
    /\ loading' = TRUE /\ seq' = seq + 1
    /\ reads' = rs \cup {[seq |-> seq + 1, owner |-> owner, stale |-> FALSE,
                          read |-> FALSE, list |-> NoList]}

\* on_storage_tab_opened; the refresh button; expedite_storage_settlement and
\* poll_storage_settlement, which leave a running read alone.
RefreshStorage ==
    /\ Refreshed(me, reads)
    /\ UNCHANGED <<shown, loaded, watch, request, network, me, session>>

\* The endpoint reads the account.
NodeReads(r) ==
    /\ ~r.read
    /\ reads' = (reads \ {r}) \cup
                {[r EXCEPT !.read = TRUE, !.list = Readable(chain[r.owner].list)]}
    /\ UNCHANGED <<shown, loaded, loading, seq, watch, request, network, me, session>>

\* A plausible bug: a read is taken whatever it was asked for.
MutAnyRead(r) == TRUE
OwnRead(r) == r.seq = seq /\ ~r.stale

\* apply_storage_loaded and abandon_stale_storage_read: only the answer to the
\* last read of this generation is used.
StorageLoaded(r) ==
    /\ r.read /\ reads' = reads \ {r}
    /\ IF OwnRead(r)
       THEN /\ shown' = r.list /\ loaded' = TRUE /\ loading' = FALSE
            /\ watch' = IF watch # NoOp /\ MetBy(watch, r.list) THEN NoOp ELSE watch
       ELSE /\ loading' = (loading /\ r.seq # seq)
            /\ UNCHANGED <<shown, loaded, watch>>
    /\ UNCHANGED <<seq, request, network, me, session>>

\* apply_storage_load_failed
StorageLoadFailed(r) ==
    /\ reads' = reads \ {r} /\ loading' = (loading /\ r.seq # seq)
    /\ UNCHANGED <<shown, loaded, seq, watch, request, network, me, session>>

\* poll_storage_settlement: give_up_at passes.
GiveUp ==
    /\ watch # NoOp /\ watch' = NoOp
    /\ UNCHANGED <<shown, loaded, loading, seq, reads, request, network, me, session>>

-----------------------------------------------------------------------------
(* The request                                                             *)

\* request_storage_op
RequestOp(kind, id, saw) ==
    /\ pendingOp = NoOp /\ ~busy
    /\ pendingOp' = [NoOp EXCEPT !.kind = kind, !.id = id, !.saw = saw, !.owner = me]
    /\ asking' = TRUE
    /\ UNCHANGED <<busy, opsFlying, opCount, collided, ui, network, me, session>>

CreateStorage == ~shown.exists /\ RequestOp("create", 0, Nothing)

\* add_storage_record, offered while add_enabled.
AddStorageRecord ==
    /\ shown.exists /\ ~loading
    /\ Cardinality(TakenIds(shown)) < Limit
    /\ RequestOp("put", NextFreeId(TakenIds(shown)), Nothing)

DeleteStorageRecord(id) ==
    /\ id \in TakenIds(shown)
    /\ RequestOp("delete", id, shown.cells[id])

\* cancel_auth
CancelRequest ==
    /\ asking /\ asking' = FALSE /\ pendingOp' = NoOp
    /\ UNCHANGED <<busy, opsFlying, opCount, collided, ui, network, me, session>>

\* A number on the chain, or in a put on its way to it.
InUse(owner) ==
    TakenIds(chain[owner].list) \cup {op.id : op \in {o \in opsFlying \cup sent :
                                                        o.kind = "put" /\ o.owner = owner}}

\* dispatch_authorized_storage
DispatchAuthorizedStorage ==
    /\ asking /\ opCount < MaxOps
    /\ opCount' = opCount + 1 /\ busy' = TRUE /\ asking' = FALSE /\ pendingOp' = NoOp
    /\ opsFlying' = opsFlying \cup {[pendingOp EXCEPT !.n = opCount + 1, !.session = session,
                                                     !.state = "preparing"]}
    /\ collided' = (collided \/ (pendingOp.kind = "put" /\ pendingOp.id \in InUse(pendingOp.owner)))
    /\ UNCHANGED <<ui, network, me, session>>

\* prepare_storage_op fails, or no candidate takes the message.
OpNotSent(op) ==
    /\ op.state = "preparing"
    /\ opsFlying' = (opsFlying \ {op}) \cup {[op EXCEPT !.state = "failed"]}
    /\ UNCHANGED <<pendingOp, asking, busy, opCount, collided, ui, network, me, session>>

\* broadcast_all_candidates ends with a message that may be on its way; taken
\* is whether it is.
Broadcast(op, taken) ==
    /\ op.state = "preparing"
    /\ opsFlying' = (opsFlying \ {op}) \cup {[op EXCEPT !.state = "reached"]}
    /\ sent' = IF taken THEN sent \cup {[op EXCEPT !.state = "sent"]} ELSE sent
    /\ UNCHANGED <<pendingOp, asking, busy, opCount, collided, ui, chain, me, session>>

\* apply_storage_finished: whatever the session, the page is no longer busy.
StorageFinished(op) ==
    /\ op.state \in {"reached", "failed"}
    /\ opsFlying' = opsFlying \ {op} /\ busy' = FALSE
    /\ IF op.state = "reached" /\ op.session = session
       THEN watch' = op /\ Refreshed(me, reads)
       ELSE UNCHANGED <<watch, loading, seq, reads>>
    /\ UNCHANGED <<pendingOp, asking, opCount, collided, shown, loaded, network, me, session>>

-----------------------------------------------------------------------------
(* Identity and lock                                                       *)

\* stop_subscription: no read of before is current any more.
Outdated == {[r EXCEPT !.stale = TRUE] : r \in reads}

\* activate_seed: reset_storage_for_new_identity, which reads the new list if
\* the page is open.
OtherIdentity(o, pageOpen) ==
    /\ o # me /\ me' = o
    /\ pendingOp' = NoOp /\ asking' = FALSE /\ busy' = FALSE /\ watch' = NoOp
    /\ shown' = NoList /\ loaded' = FALSE
    /\ IF pageOpen THEN Refreshed(o, Outdated)
       ELSE loading' = FALSE /\ reads' = Outdated /\ UNCHANGED seq
    /\ UNCHANGED <<opsFlying, opCount, collided, network, session>>

\* finish_lock and the next enter_app: the page starts afresh; the request that
\* waited for its dialog, and the watch, stay.
LockAndUnlock ==
    /\ session < MaxLocks /\ session' = session + 1
    /\ asking' = FALSE /\ busy' = FALSE
    /\ shown' = NoList /\ loaded' = FALSE /\ loading' = FALSE
    /\ reads' = Outdated
    /\ UNCHANGED <<pendingOp, watch, seq, opsFlying, opCount, collided, network, me>>

-----------------------------------------------------------------------------
(* The chain                                                               *)

\* The contract's answer to a message of its owner.
Applied(list, op) ==
    CASE op.kind = "create" -> [list EXCEPT !.exists = TRUE]
      [] op.kind = "put" /\ list.exists
           /\ (list.cells[op.id] # Nothing \/ Cardinality(TakenIds(list)) < Limit)
                -> [list EXCEPT !.cells[op.id] = op.n]
      [] op.kind = "delete" /\ list.exists -> [list EXCEPT !.cells[op.id] = Nothing]
      [] OTHER -> list

Execute(op) ==
    /\ op.n > chain[op.owner].guard
    /\ chain' = [chain EXCEPT ![op.owner] = [list |-> Applied(@.list, op), guard |-> op.n]]
    /\ sent' = sent \ {op}
    /\ UNCHANGED <<ui, request, me, session>>

\* The message expires, or a later one has been executed.
Lost(op) ==
    /\ sent' = sent \ {op}
    /\ UNCHANGED <<chain, ui, request, me, session>>

StoreNext ==
    \/ RefreshStorage \/ GiveUp \/ CreateStorage \/ AddStorageRecord \/ CancelRequest
    \/ DispatchAuthorizedStorage \/ LockAndUnlock
    \/ \E i \in Ids : DeleteStorageRecord(i)
    \/ \E o \in Owners, open \in BOOLEAN : OtherIdentity(o, open)
    \/ \E r \in reads : NodeReads(r) \/ StorageLoaded(r) \/ StorageLoadFailed(r)
    \/ \E op \in opsFlying : OpNotSent(op) \/ StorageFinished(op) \/ \E t \in BOOLEAN : Broadcast(op, t)
    \/ \E op \in sent : Execute(op) \/ Lost(op)

StoreSpec == StoreInit /\ [][StoreNext]_storeVars

-----------------------------------------------------------------------------
\* A delete that is executed removes the record its user saw under that number
\* when he asked for it, or nothing, although numbers are reused and the list
\* may be old; unless two records were given one number.
DeleteRemovesWhatWasSeen ==
    \A op \in sent \ sent' :
        LET before == chain[op.owner].list.cells[op.id]
        IN  /\ op.kind = "delete" /\ op.n = chain'[op.owner].guard
            /\ chain[op.owner].guard # op.n /\ ~collided
            => before \in {Nothing, op.saw}

\* What the user was told he asked for: the contract, the put executed (or one
\* signed later), the record he saw gone.
Done(op) ==
    CASE op.kind = "create" -> chain[op.owner].list.exists
      [] op.kind = "put"    -> chain[op.owner].guard >= op.n
      [] op.kind = "delete" -> chain[op.owner].list.cells[op.id] # op.saw

\* A watch that ends because the list shows what it waited for has been told
\* the truth; unless two records were given one number or the identity changed
\* while the request was under way.
SettledMeansDone ==
    (/\ watch # NoOp /\ watch' = NoOp /\ shown' # shown /\ ~collided
     /\ watch.owner = me /\ me' = me)
    => Done(watch)

\* Numbers of records are reused and lists are late; still a delete removes the
\* record that was seen, and "done" is said of what was done (storage.rs).
RecordsAreSafe ==
    [][StoreTypeOK' /\ DeleteRemovesWhatWasSeen /\ SettledMeansDone]_storeVars

\* A record that is put on the chain gets a number no other record has, so that
\* a new record never replaces one that is kept.
PutNamesFreeNumber == ~collided

\* A request that waits for confirmation has a dialog that asks for it.
WaitingIsAsked == pendingOp # NoOp => asking
=============================================================================
