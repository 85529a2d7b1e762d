---------------------------- MODULE ChainService ----------------------------
(***************************************************************************)
(* The chain service as its concurrent callers meet it: signing keys       *)
(* derived from a phrase and cached, the seal that a lock puts on them,    *)
(* the blockchain configuration cached per endpoint, and the fee           *)
(* emulations, one at a time per endpoint and wallet, that a lock waits    *)
(* for.  Operations run on worker threads; the controller locks, unlocks   *)
(* and clears the caches beside them.                                      *)
(* cc-wallet-chain: wallet_service.rs; cc-wallet-app: controller/mod.rs.   *)
(*                                                                         *)
(* What an operation computes is left out (Affordability models the fee    *)
(* ceiling, JrpcClient the calls): an operation here is the order in which *)
(* it touches the shared state.  An endpoint may serve any network.        *)
(***************************************************************************)
EXTENDS Naturals

CONSTANTS
    Ops,          \* operations that may run at once
    Seeds,        \* phrases
    Endpoints,    \* canonical endpoints
    Networks,     \* network ids an endpoint may report
    OwnNetwork    \* the network id of the wallet's inputs

None == "-"
ASSUME NoneIsNoOp == None \notin Ops
Kinds == {"send", "estimate", "swap", "storage", "keys", "read"}
Signing == {"send", "estimate", "swap", "storage"}
Job == Endpoints \X Seeds

\* How often an operation asks for its keys before it goes to the network:
\* build_wallet asks again after the caller's own keypair_for.
KeyCalls(kind) ==
    CASE kind \in {"send", "estimate", "storage"} -> 2
      [] kind \in {"swap", "keys"} -> 1
      [] kind = "read" -> 0

VARIABLES
    ops,      \* the operation in each slot
    keys,     \* key_cache
    holder,   \* who holds the mutex of key_cache, None if nobody
    sealed,   \* key_ops_sealed
    configs,  \* config_cache: the network id of the cached configuration
    jobs,     \* EmulationJobs.active
    workers,  \* emulations still running, per job key
    phase     \* the controller: open, locking, clearing, locked

vars == <<ops, keys, holder, sealed, configs, jobs, workers, phase>>

Pcs == {"idle", "key", "lookup", "derive", "recheck", "insert", "config", "ask",
        "account", "acquire", "emulate", "verdict", "route"}
Idle == [pc |-> "idle", kind |-> None, seed |-> None, at |-> None, left |-> 0]

Op == [pc : Pcs, kind : Kinds \cup {None}, seed : Seeds \cup {None},
       at : Endpoints \cup {None}, left : 0..2]

\* Types of the service's shared state and of the operations under way.
TypeOK ==
    /\ ops \in [Ops -> Op]
    /\ \A o \in Ops : ops[o].pc # "idle" => /\ ops[o].kind \in Kinds
                                            /\ ops[o].seed \in Seeds /\ ops[o].at \in Endpoints
    /\ keys \subseteq Seeds /\ holder \in Ops \cup {None} /\ sealed \in BOOLEAN
    /\ configs \in [Endpoints -> Networks \cup {None}]
    /\ jobs \subseteq Job /\ workers \in [Job -> Nat]
    /\ phase \in {"open", "locking", "clearing", "locked"}

Init ==
    /\ ops = [o \in Ops |-> Idle]
    /\ keys = {} /\ holder = None /\ sealed = FALSE
    /\ configs = [e \in Endpoints |-> None]
    /\ jobs = {} /\ workers = [k \in Job |-> 0]
    /\ phase = "locked"

-----------------------------------------------------------------------------
At(o, pc) == ops[o].pc = pc
GoTo(o, pc) == ops' = [ops EXCEPT ![o].pc = pc]
End(o) == ops' = [ops EXCEPT ![o] = Idle]
JobOf(o) == <<ops[o].at, ops[o].seed>>

\* The controller starts work for an open wallet only.  The operations are
\* prepare_transaction, estimate_fee, prepare_swap, prepare_storage_op, the
\* ones that only need keys (derive_wallet_address, open_conversation,
\* load_storage) and the ones that only need the configuration (load_wallet,
\* probe_endpoint, validator_clock, network_stats).
Start(o) ==
    /\ At(o, "idle") /\ phase # "locked"
    /\ \E kind \in Kinds, seed \in Seeds, at \in Endpoints :
          ops' = [ops EXCEPT ![o] =
                    [pc |-> IF KeyCalls(kind) = 0 THEN "config" ELSE "key",
                     kind |-> kind, seed |-> seed, at |-> at, left |-> KeyCalls(kind)]]
    /\ UNCHANGED <<keys, holder, sealed, configs, jobs, workers, phase>>

(* keypair_for *)

CheckSeal(o) ==
    /\ At(o, "key")
    /\ IF sealed THEN End(o) ELSE GoTo(o, "lookup")
    /\ UNCHANGED <<keys, holder, sealed, configs, jobs, workers, phase>>

\* keypair_for has returned: the caller asks again, ends, or goes on.
Moved(op, pc, left) ==
    [pc |-> pc, kind |-> op.kind, seed |-> op.seed, at |-> op.at, left |-> left]

KeyTaken(o) ==
    ops' = [ops EXCEPT ![o] =
              IF ops[o].left > 1 THEN Moved(ops[o], "key", ops[o].left - 1)
              ELSE IF ops[o].kind = "keys" THEN Idle
              ELSE Moved(ops[o], "config", 0)]

Lookup(o) ==
    /\ At(o, "lookup") /\ holder = None
    /\ IF ops[o].seed \in keys THEN KeyTaken(o) ELSE GoTo(o, "derive")
    /\ UNCHANGED <<keys, holder, sealed, configs, jobs, workers, phase>>

\* The key is derived outside the mutex, which is then taken.
Derived(o) ==
    /\ At(o, "derive") /\ holder = None
    /\ holder' = o /\ GoTo(o, "recheck")
    /\ UNCHANGED <<keys, sealed, configs, jobs, workers, phase>>

\* A plausible bug: the seal is not looked at again under the mutex.
MutNoSecondCheck(o) ==
    /\ At(o, "recheck") /\ GoTo(o, "insert")
    /\ UNCHANGED <<keys, holder, sealed, configs, jobs, workers, phase>>

\* The second look at the seal, with the cache's mutex in hand.
Recheck(o) ==
    /\ At(o, "recheck")
    /\ IF sealed THEN End(o) /\ holder' = None ELSE GoTo(o, "insert") /\ UNCHANGED holder
    /\ UNCHANGED <<keys, sealed, configs, jobs, workers, phase>>

Insert(o) ==
    /\ At(o, "insert")
    /\ keys' = keys \cup {ops[o].seed} /\ holder' = None /\ KeyTaken(o)
    /\ UNCHANGED <<sealed, configs, jobs, workers, phase>>

-----------------------------------------------------------------------------
(* blockchain_config, validate_signature_context, the account, signing     *)

ConfigRead(o, net) ==
    IF ops[o].kind = "read" \/ net # OwnNetwork THEN End(o) ELSE GoTo(o, "account")

ReadConfig(o) ==
    /\ At(o, "config")
    /\ IF configs[ops[o].at] = None THEN GoTo(o, "ask") ELSE ConfigRead(o, configs[ops[o].at])
    /\ UNCHANGED <<keys, holder, sealed, configs, jobs, workers, phase>>

\* The answer is cached whatever was cleared since it was asked for.
ConfigAnswer(o) ==
    /\ At(o, "ask")
    /\ \E net \in Networks :
          /\ configs' = [configs EXCEPT ![ops[o].at] = net]
          /\ ConfigRead(o, net)
    /\ UNCHANGED <<keys, holder, sealed, jobs, workers, phase>>

\* A call fails, an answer cannot be used, a check refuses the inputs.
Refused(o) ==
    /\ ops[o].pc \in {"ask", "account", "verdict", "route"}
    /\ End(o)
    /\ UNCHANGED <<keys, holder, sealed, configs, jobs, workers, phase>>

\* The account is read, the message built and signed.
Sign(o) ==
    /\ At(o, "account") /\ GoTo(o, "acquire")
    /\ UNCHANGED <<keys, holder, sealed, configs, jobs, workers, phase>>

-----------------------------------------------------------------------------
(* Fee emulation                                                           *)

\* The guard goes into the blocking worker, which drops it when it ends.
StartWorker(o) ==
    /\ jobs' = jobs \cup {JobOf(o)}
    /\ workers' = [workers EXCEPT ![JobOf(o)] = @ + 1]
    /\ GoTo(o, "emulate")

\* EmulationJobs::acquire: estimates, swaps and record operations do not wait.
Acquire(o) ==
    /\ At(o, "acquire") /\ ops[o].kind # "send"
    /\ IF JobOf(o) \in jobs THEN End(o) /\ UNCHANGED <<jobs, workers>> ELSE StartWorker(o)
    /\ UNCHANGED <<keys, holder, sealed, configs, phase>>

\* EmulationJobs::acquire_wait: a send waits for the running emulation.
Handoff(o) ==
    /\ At(o, "acquire") /\ ops[o].kind = "send" /\ JobOf(o) \notin jobs
    /\ StartWorker(o)
    /\ UNCHANGED <<keys, holder, sealed, configs, phase>>

\* A plausible bug: the wait for a running emulation has no limit.
MutWaitsForever(o) == FALSE /\ UNCHANGED vars

\* SEND_EMULATION_HANDOFF_TIMEOUT.
HandoffTimeout(o) ==
    /\ At(o, "acquire") /\ ops[o].kind = "send" /\ JobOf(o) \in jobs
    /\ End(o)
    /\ UNCHANGED <<keys, holder, sealed, configs, jobs, workers, phase>>

\* The emulation returns: its guard is dropped, and who waits for it goes on.
WorkerEnds(k) ==
    /\ workers[k] > 0
    /\ workers' = [workers EXCEPT ![k] = @ - 1] /\ jobs' = jobs \ {k}
    /\ ops' = [o \in Ops |-> IF At(o, "emulate") /\ JobOf(o) = k
                             THEN [ops[o] EXCEPT !.pc = "verdict"] ELSE ops[o]]
    /\ UNCHANGED <<keys, holder, sealed, configs, phase>>

\* FEE_EMULATION_TIMEOUT: the caller gives up, the worker keeps its guard.
EmulationTimeout(o) ==
    /\ At(o, "emulate") /\ End(o)
    /\ UNCHANGED <<keys, holder, sealed, configs, jobs, workers, phase>>

\* The emulated transaction is accepted: swaps and record operations resolve
\* their route only now, the others are done.
Verdict(o) ==
    /\ At(o, "verdict")
    /\ IF ops[o].kind \in {"swap", "storage"} THEN GoTo(o, "route") ELSE End(o)
    /\ UNCHANGED <<keys, holder, sealed, configs, jobs, workers, phase>>

Routed(o) ==
    /\ At(o, "route") /\ End(o)
    /\ UNCHANGED <<keys, holder, sealed, configs, jobs, workers, phase>>

-----------------------------------------------------------------------------
(* The controller                                                          *)

\* request_lock seals first, so that nothing new is cached while it waits.
RequestLock ==
    /\ phase = "open"
    /\ sealed' = TRUE /\ phase' = "locking"
    /\ UNCHANGED <<ops, keys, holder, configs, jobs, workers>>

\* drain_emulation_jobs reports that no job is left: finish_lock begins.
Drained ==
    /\ phase = "locking" /\ jobs = {}
    /\ phase' = "clearing"
    /\ UNCHANGED <<ops, keys, holder, sealed, configs, jobs, workers>>

\* clear_config_cache, at the end of finish_lock.
FinishLock ==
    /\ phase = "clearing" /\ holder = None
    /\ keys' = {} /\ configs' = [e \in Endpoints |-> None] /\ phase' = "locked"
    /\ UNCHANGED <<ops, holder, sealed, jobs, workers>>

\* EMULATION_DRAIN_TIMEOUT has passed with a job left: the wallet stays open.
GiveUpLock ==
    /\ phase = "locking" /\ jobs # {}
    /\ sealed' = FALSE /\ phase' = "open"
    /\ UNCHANGED <<ops, keys, holder, configs, jobs, workers>>

\* enter_app.
Unlock ==
    /\ phase = "locked"
    /\ sealed' = FALSE /\ phase' = "open"
    /\ UNCHANGED <<ops, keys, holder, configs, jobs, workers>>

\* select_endpoint, remove_endpoint, activate_seed.
ClearCaches ==
    /\ phase = "open" /\ holder = None
    /\ keys' = {} /\ configs' = [e \in Endpoints |-> None]
    /\ UNCHANGED <<ops, holder, sealed, jobs, workers, phase>>

Step(o) ==
    \/ CheckSeal(o) \/ Lookup(o) \/ Derived(o) \/ Recheck(o) \/ Insert(o)
    \/ ReadConfig(o) \/ ConfigAnswer(o) \/ Refused(o) \/ Sign(o)
    \/ Acquire(o) \/ Handoff(o) \/ HandoffTimeout(o)
    \/ EmulationTimeout(o) \/ Verdict(o) \/ Routed(o)

Next ==
    \/ \E o \in Ops : Start(o) \/ Step(o)
    \/ \E k \in Job : WorkerEnds(k)
    \/ RequestLock \/ Drained \/ FinishLock \/ GiveUpLock \/ Unlock \/ ClearCaches

Spec == Init /\ [][Next]_vars

\* Threads run, calls and waits have time limits, and the mutex of the key cache,
\* held for a lookup or an insertion only, lets every thread in eventually.
\* Nothing is assumed of an emulation: it may run for ever.
FairSpec ==
    /\ Spec
    /\ \A o \in Ops : WF_vars(Step(o)) /\ SF_vars(Lookup(o)) /\ SF_vars(Derived(o))

-----------------------------------------------------------------------------
\* A locked wallet leaves no signing key in the cache, whatever derivation was
\* under way when finish_lock cleared it: keypair_for looks at the seal a
\* second time with the mutex in hand, and the seal is put before the clear.
LockedHoldsNoKey == phase = "locked" => keys = {}

\* EmulationJobs never loses sight of a running emulation: at most one runs
\* per endpoint and wallet, and while it runs the lock does not see the set
\* drained, even when its caller has given up on it.
JobsCoverWorkers == \A k \in Job : workers[k] <= 1 /\ (workers[k] > 0 => k \in jobs)

\* The lock and the set of jobs hold together: nothing signs, and nothing
\* emulates unseen, once the wallet is locked.  finish_lock, EmulationJobs
SealIsEffective == TypeOK /\ LockedHoldsNoKey /\ JobsCoverWorkers

\* Every operation comes back, with a result or an error, even if an emulation
\* never ends: the waits in acquire_wait and for the worker have time limits.
OperationEnds == \A o \in Ops : ~At(o, "idle") ~> At(o, "idle")
=============================================================================
