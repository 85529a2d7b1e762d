------------------------- MODULE ChainServiceProofs -------------------------
(***************************************************************************)
(* Proofs about the layer between the controller and the chain.            *)
(*                                                                         *)
(* ChainService: the seal of a lock and the set of running emulations      *)
(* hold, for any number of operations, phrases and endpoints.  "No key in  *)
(* the cache of a locked wallet" is not inductive: an insertion under way  *)
(* would put one back.  None is, since an operation about to insert holds  *)
(* the mutex (Mutex), which finish_lock takes, and one that gets it later  *)
(* finds the seal (Sealed).                                                *)
(*                                                                         *)
(* JrpcClient: what is reported of a call is what happened on the wire.    *)
(* Inductive once it is said of calls that still wait (CallInv).           *)
(*                                                                         *)
(* SwapFlow: a swap is signed as confirmed, from a quote the pool can pay, *)
(* and its receipt is its own.  The arithmetic of a quote is proved first; *)
(* the invariant has a part for the page, one for the request and one for  *)
(* the rows and the receipt.                                               *)
(*                                                                         *)
(* TraceWalk: a trace holds the transaction it was asked for and followed  *)
(* every message unless it says otherwise.  The invariant (TraceInv) keeps *)
(* the path of the climb, which the descent comes back along.              *)
(*                                                                         *)
(* RecordStorage: what reaches the account is what the user saw and what   *)
(* is reported is what was done.  The invariant (StoreIInv) follows every  *)
(* record that is live: under its number, or in a put that is signed.  No  *)
(* record that was seen comes back (SeenIsExecuted, ViewsAdvance), so a    *)
(* delete can meet only what was seen or a later put (DeleteMeetsSeen),    *)
(* and the replay guard of the wallet excludes the second.  A list that    *)
(* missed a record may give its number away again (collided): what depends *)
(* on numbers being apart is claimed until that happens, as in the module. *)
(*                                                                         *)
(* Affordability: the search returns the largest ceiling the balances      *)
(* carry, and no balance is overdrawn.  Half of it is arithmetic: the      *)
(* running total over the rows equals the sum over the set of the rows     *)
(* that count, and what fits at a fee fits below it.                       *)
(***************************************************************************)
EXTENDS ChainService, JrpcClient, SwapFlow, TraceWalk, RecordStorage, Affordability,
        FiniteSetTheorems, SequenceTheorems, WellFoundedInduction, TLAPS

-----------------------------------------------------------------------------
(* The parts of the inductive invariant.                                   *)

\* The part of TypeOK about the operations.
OpsOK ==
    /\ ops \in [Ops -> Op]
    /\ \A o \in Ops : ops[o].pc # "idle" => /\ ops[o].kind \in Kinds
                                            /\ ops[o].seed \in Seeds /\ ops[o].at \in Endpoints

\* Between the second look at the seal and the insertion the mutex is held.
Mutex == \A o \in Ops : ops[o].pc \in {"recheck", "insert"} => holder = o

\* The seal is on from the lock to the unlock; before the first unlock there is
\* no operation that could look at it.
Sealed ==
    phase # "open" => sealed \/ (phase = "locked" /\ \A o \in Ops : ops[o].pc = "idle")

\* No operation is about to insert a key into the cache of a locked wallet.
NoInsertion == phase = "locked" => \A o \in Ops : ops[o].pc # "insert"

IInv == TypeOK /\ Mutex /\ Sealed /\ NoInsertion /\ LockedHoldsNoKey /\ JobsCoverWorkers

-----------------------------------------------------------------------------
(* What the steps of an operation have in common.                          *)

\* The record of an operation that moves is one of an operation under way.
LEMMA OpFacts ==
    /\ Idle \in Op
    /\ \A op \in Op, point \in Pcs : [op EXCEPT !.pc = point] \in Op
  BY DEF Op, Idle, Pcs

\* GoTo and End keep the types of the operations.
LEMMA GoToTypes ==
    ASSUME TypeOK, NEW o \in Ops, NEW point \in Pcs, GoTo(o, point), ops[o].pc # "idle"
    PROVE  /\ OpsOK'
           /\ ops'[o].pc = point /\ \A q \in Ops \ {o} : ops'[q] = ops[q]
  BY DEF TypeOK, OpsOK, GoTo, Op

LEMMA EndTypes ==
    ASSUME TypeOK, NEW o \in Ops, End(o)
    PROVE  /\ OpsOK'
           /\ ops'[o].pc = "idle" /\ \A q \in Ops \ {o} : ops'[q] = ops[q]
  BY OpFacts DEF TypeOK, OpsOK, End, Idle

\* An operation that goes on to its next stage keeps its inputs.
LEMMA MovedOp ==
    ASSUME NEW op \in Op, NEW l \in 0..2, NEW point \in Pcs
    PROVE  /\ Moved(op, point, l) \in Op
           /\ Moved(op, point, l).pc = point /\ Moved(op, point, l).kind = op.kind
           /\ Moved(op, point, l).seed = op.seed /\ Moved(op, point, l).at = op.at
  BY DEF Op, Moved

\* The same of KeyTaken.
LEMMA KeyTakenTypes ==
    ASSUME TypeOK, NEW o \in Ops, KeyTaken(o), ops[o].pc # "idle"
    PROVE  /\ OpsOK'
           /\ ops'[o].pc \in {"key", "idle", "config"} /\ \A q \in Ops \ {o} : ops'[q] = ops[q]
PROOF
<1>1. ops[o] \in Op /\ ops[o].left \in 0..2 /\ ops[o].kind \in Kinds
      /\ ops[o].seed \in Seeds /\ ops[o].at \in Endpoints
  BY DEF TypeOK, Op
<1> DEFINE more == Moved(ops[o], "key", ops[o].left - 1)
           last == Moved(ops[o], "config", 0)
<1>a. "key" \in Pcs /\ "config" \in Pcs /\ 0 \in 0..2
  BY DEF Pcs
<1>2. CASE ops[o].left > 1
  <2>1. ops[o].left - 1 \in 0..2
    BY <1>1, <1>2
  <2>2. more \in Op /\ more.pc = "key" /\ more.kind = ops[o].kind
        /\ more.seed = ops[o].seed /\ more.at = ops[o].at
    BY <1>1, <1>a, <2>1, MovedOp, Zenon
  <2>3. ops' = [ops EXCEPT ![o] = more]
    BY <1>2 DEF KeyTaken
  <2> HIDE DEF more
  <2> QED BY <1>1, <2>2, <2>3 DEF TypeOK, OpsOK
<1>3. CASE ~(ops[o].left > 1) /\ ops[o].kind = "keys"
  <2>1. ops' = [ops EXCEPT ![o] = Idle]
    BY <1>3 DEF KeyTaken
  <2> QED BY <2>1, OpFacts DEF TypeOK, OpsOK, Idle
<1>4. CASE ~(ops[o].left > 1) /\ ops[o].kind # "keys"
  <2>1. last \in Op /\ last.pc = "config" /\ last.kind = ops[o].kind
        /\ last.seed = ops[o].seed /\ last.at = ops[o].at
    BY <1>1, <1>a, MovedOp, Zenon
  <2>2. ops' = [ops EXCEPT ![o] = last]
    BY <1>4 DEF KeyTaken
  <2> HIDE DEF last
  <2> QED BY <1>1, <2>1, <2>2 DEF TypeOK, OpsOK
<1> QED BY <1>2, <1>3, <1>4

-----------------------------------------------------------------------------
(* Every step keeps the invariant.                                         *)

\* A step of one operation keeps the invariant if it takes the mutex before the
\* stages that need it, takes it from nobody, and inserts no key while locked.
LEMMA Advance ==
    ASSUME IInv, NEW o \in Ops, OpsOK',
           \A q \in Ops \ {o} : ops'[q] = ops[q],
           ops[o].pc = "idle" => phase # "locked",
           ops'[o].pc \in {"recheck", "insert"} => holder' = o,
           \A q \in Ops \ {o} : holder = q => holder' = q,
           phase = "locked" => ops'[o].pc # "insert" /\ keys' = keys,
           holder' \in Ops \cup {None}, keys' \subseteq Seeds,
           configs' \in [Endpoints -> Networks \cup {None}],
           jobs' \subseteq Job, workers' \in [Job -> Nat], JobsCoverWorkers',
           UNCHANGED <<sealed, phase>>
    PROVE  IInv'
PROOF
<1>1. TypeOK'
  BY DEF IInv, TypeOK, OpsOK
<1>2. Mutex'
  BY DEF IInv, Mutex
<1>3. Sealed'
  BY DEF IInv, Sealed
<1>4. NoInsertion' /\ LockedHoldsNoKey'
  BY DEF IInv, NoInsertion, LockedHoldsNoKey
<1> QED BY <1>1, <1>2, <1>3, <1>4 DEF IInv

\* What an action that leaves the jobs alone leaves of the invariant.
LEMMA SameJobs ==
    ASSUME IInv, UNCHANGED <<jobs, workers>>
    PROVE  jobs' \subseteq Job /\ workers' \in [Job -> Nat] /\ JobsCoverWorkers'
  BY DEF IInv, TypeOK, JobsCoverWorkers

\* An operation that ends, or moves to a stage that needs no mutex, and touches
\* nothing else but the cached configurations.
LEMMA Plain ==
    ASSUME IInv, NEW o \in Ops, ops[o].pc # "idle",
           End(o) \/ \E point \in Pcs \ {"recheck", "insert"} : GoTo(o, point),
           configs' \in [Endpoints -> Networks \cup {None}],
           jobs' \subseteq Job, workers' \in [Job -> Nat], JobsCoverWorkers',
           UNCHANGED <<keys, holder, sealed, phase>>
    PROVE  IInv'
PROOF
<1>1. /\ OpsOK' /\ \A q \in Ops \ {o} : ops'[q] = ops[q]
      /\ ops'[o].pc \notin {"recheck", "insert"}
  BY EndTypes, GoToTypes DEF IInv
<1>2. holder' \in Ops \cup {None} /\ keys' \subseteq Seeds
  BY DEF IInv, TypeOK
<1> QED BY <1>1, <1>2, Advance

\* A worker starts for a job that has none, so one is running and it is listed.
LEMMA WorkerStarts ==
    ASSUME IInv, NEW o \in Ops, ops[o].pc # "idle", JobOf(o) \notin jobs, StartWorker(o),
           UNCHANGED <<keys, holder, sealed, configs, phase>>
    PROVE  IInv'
PROOF
<1>1. JobOf(o) \in Job
  BY DEF IInv, TypeOK, JobOf, Job
<1>2. workers[JobOf(o)] = 0
  BY <1>1 DEF IInv, TypeOK, JobsCoverWorkers
<1>3. jobs' \subseteq Job /\ workers' \in [Job -> Nat]
  BY <1>1 DEF IInv, TypeOK, StartWorker
<1>4. JobsCoverWorkers'
  <2> SUFFICES ASSUME NEW k \in Job PROVE workers'[k] <= 1 /\ (workers'[k] > 0 => k \in jobs')
    BY DEF JobsCoverWorkers
  <2>1. CASE k = JobOf(o)
    BY <1>1, <1>2, <2>1 DEF IInv, TypeOK, StartWorker
  <2>2. CASE k # JobOf(o)
    BY <1>1, <2>2 DEF IInv, TypeOK, JobsCoverWorkers, StartWorker
  <2> QED BY <2>1, <2>2
<1>5. \E point \in Pcs \ {"recheck", "insert"} : GoTo(o, point)
  BY DEF StartWorker, Pcs
<1>6. configs' \in [Endpoints -> Networks \cup {None}]
  BY DEF IInv, TypeOK
<1> QED BY <1>3, <1>4, <1>5, <1>6, Plain

\* The stages of keypair_for.
LEMMA KeySteps ==
    ASSUME IInv, NEW o \in Ops,
           Start(o) \/ CheckSeal(o) \/ Lookup(o) \/ Derived(o) \/ Recheck(o) \/ Insert(o)
    PROVE  IInv'
PROOF
<1> USE SameJobs
<1>0. TypeOK /\ holder \in Ops \cup {None} /\ keys \subseteq Seeds
      /\ configs \in [Endpoints -> Networks \cup {None}]
  BY DEF IInv, TypeOK
<1>1. CASE Start(o)
  <2>1. PICK kind \in Kinds, seed \in Seeds, at \in Endpoints :
          ops' = [ops EXCEPT ![o] =
                    [pc |-> IF KeyCalls(kind) = 0 THEN "config" ELSE "key",
                     kind |-> kind, seed |-> seed, at |-> at, left |-> KeyCalls(kind)]]
    BY <1>1 DEF Start
  <2>2. KeyCalls(kind) \in 0..2
    BY DEF KeyCalls, Kinds
  <2>3. OpsOK' /\ ops'[o].pc \in {"config", "key"}
        /\ \A q \in Ops \ {o} : ops'[q] = ops[q]
    BY <1>0, <2>1, <2>2 DEF TypeOK, OpsOK, Op, Pcs
  <2> QED BY <1>0, <1>1, <2>3, Advance DEF Start
<1>2. CASE CheckSeal(o)
  BY <1>0, <1>2, Plain DEF CheckSeal, At, Pcs
<1>3. CASE Lookup(o)
  <2>1. CASE KeyTaken(o)
    <3>1. OpsOK' /\ ops'[o].pc \in {"key", "idle", "config"}
          /\ \A q \in Ops \ {o} : ops'[q] = ops[q]
      BY <1>0, <1>3, <2>1, KeyTakenTypes DEF Lookup, At
    <3> QED BY <1>0, <1>3, <3>1, Advance DEF Lookup, At
  <2>2. CASE GoTo(o, "derive")
    BY <1>0, <1>3, <2>2, Plain DEF Lookup, At, Pcs
  <2> QED BY <1>3, <2>1, <2>2 DEF Lookup
<1>4. CASE Derived(o)
  <2>1. OpsOK' /\ ops'[o].pc = "recheck" /\ \A q \in Ops \ {o} : ops'[q] = ops[q]
    BY <1>0, <1>4, GoToTypes DEF Derived, At, Pcs
  <2>2. \A q \in Ops : holder # q
    BY <1>4, NoneIsNoOp DEF Derived
  <2> QED BY <1>0, <1>4, <2>1, <2>2, Advance DEF Derived, At
<1>5. CASE Recheck(o)
  <2>1. holder = o
    BY <1>5 DEF IInv, Mutex, Recheck, At
  <2>2. CASE sealed
    <3>1. OpsOK' /\ ops'[o].pc = "idle" /\ \A q \in Ops \ {o} : ops'[q] = ops[q]
      BY <1>0, <1>5, <2>2, EndTypes DEF Recheck
    <3> QED BY <1>0, <1>5, <2>1, <2>2, <3>1, Advance DEF Recheck, At
  <2>3. CASE ~sealed
    <3>1. OpsOK' /\ ops'[o].pc = "insert" /\ \A q \in Ops \ {o} : ops'[q] = ops[q]
      BY <1>0, <1>5, <2>3, GoToTypes DEF Recheck, At, Pcs
    <3>2. phase # "locked"
      BY <1>5, <2>3 DEF IInv, Sealed, Recheck, At
    <3> QED BY <1>0, <1>5, <2>1, <2>3, <3>1, <3>2, Advance DEF Recheck, At
  <2> QED BY <2>2, <2>3
<1>6. CASE Insert(o)
  <2>1. OpsOK' /\ ops'[o].pc \in {"key", "idle", "config"}
        /\ \A q \in Ops \ {o} : ops'[q] = ops[q]
    BY <1>0, <1>6, KeyTakenTypes DEF Insert, At
  <2>2. holder = o /\ phase # "locked"
    BY <1>6 DEF IInv, Mutex, NoInsertion, Insert, At
  <2>3. keys' \subseteq Seeds
    BY <1>0, <1>6 DEF Insert, At, TypeOK
  <2> QED BY <1>0, <1>6, <2>1, <2>2, <2>3, Advance DEF Insert, At
<1> QED BY <1>1, <1>2, <1>3, <1>4, <1>5, <1>6

\* The configuration, the account and the signature.
LEMMA NetworkSteps ==
    ASSUME IInv, NEW o \in Ops,
           ReadConfig(o) \/ ConfigAnswer(o) \/ Refused(o) \/ Sign(o)
    PROVE  IInv'
PROOF
<1> USE SameJobs
<1>0. configs \in [Endpoints -> Networks \cup {None}]
  BY DEF IInv, TypeOK
<1>1. CASE ReadConfig(o)
  BY <1>0, <1>1, Plain DEF ReadConfig, ConfigRead, At, Pcs
<1>2. CASE ConfigAnswer(o)
  <2>1. configs' \in [Endpoints -> Networks \cup {None}]
    BY <1>0, <1>2 DEF ConfigAnswer
  <2> QED BY <1>2, <2>1, Plain DEF ConfigAnswer, ConfigRead, At, Pcs
<1>3. CASE Refused(o)
  BY <1>0, <1>3, Plain DEF Refused
<1>4. CASE Sign(o)
  BY <1>0, <1>4, Plain DEF Sign, At, Pcs
<1> QED BY <1>1, <1>2, <1>3, <1>4

\* The emulation, from its start to the verdict.
LEMMA EmulationSteps ==
    ASSUME IInv, NEW o \in Ops,
           Acquire(o) \/ Handoff(o) \/ HandoffTimeout(o) \/ EmulationTimeout(o)
           \/ Verdict(o) \/ Routed(o)
    PROVE  IInv'
PROOF
<1> USE SameJobs
<1>0. configs \in [Endpoints -> Networks \cup {None}]
  BY DEF IInv, TypeOK
<1>1. CASE Acquire(o)
  BY <1>0, <1>1, Plain, WorkerStarts DEF Acquire, At
<1>2. CASE Handoff(o)
  BY <1>2, WorkerStarts DEF Handoff, At
<1>3. CASE HandoffTimeout(o)
  BY <1>0, <1>3, Plain DEF HandoffTimeout, At
<1>4. CASE EmulationTimeout(o)
  BY <1>0, <1>4, Plain DEF EmulationTimeout, At
<1>5. CASE Verdict(o)
  BY <1>0, <1>5, Plain DEF Verdict, At, Pcs
<1>6. CASE Routed(o)
  BY <1>0, <1>6, Plain DEF Routed, At
<1> QED BY <1>1, <1>2, <1>3, <1>4, <1>5, <1>6

\* The end of an emulation moves those who wait for it, to a stage without mutex.
LEMMA WorkerEndsKeeps ==
    ASSUME IInv, NEW k \in Job, WorkerEnds(k)
    PROVE  IInv'
PROOF
<1>0. TypeOK /\ JobsCoverWorkers
  BY DEF IInv
<1>1. /\ OpsOK'
      /\ \A q \in Ops : ops'[q] = ops[q] \/ (ops[q].pc = "emulate" /\ ops'[q].pc = "verdict")
  <2>1. \A q \in Ops : [ops[q] EXCEPT !.pc = "verdict"] \in Op
    BY <1>0, OpFacts DEF TypeOK, Pcs
  <2>2. \A q \in Ops : /\ [ops[q] EXCEPT !.pc = "verdict"].kind = ops[q].kind
                       /\ [ops[q] EXCEPT !.pc = "verdict"].seed = ops[q].seed
                       /\ [ops[q] EXCEPT !.pc = "verdict"].at = ops[q].at
                       /\ [ops[q] EXCEPT !.pc = "verdict"].pc = "verdict"
    BY <1>0 DEF TypeOK, Op
  <2>3. \A q \in Ops : ops'[q] = IF At(q, "emulate") /\ JobOf(q) = k
                                THEN [ops[q] EXCEPT !.pc = "verdict"] ELSE ops[q]
    BY DEF WorkerEnds
  <2>4. ops' \in [Ops -> Op]
    BY <1>0, <2>1 DEF WorkerEnds, TypeOK
  <2> QED BY <1>0, <2>2, <2>3, <2>4 DEF TypeOK, OpsOK, At
<1>2. jobs' \subseteq Job /\ workers' \in [Job -> Nat] /\ JobsCoverWorkers'
  <2>1. workers[k] = 1
    BY <1>0 DEF WorkerEnds, TypeOK, JobsCoverWorkers
  <2>2. workers' = [workers EXCEPT ![k] = 0] /\ jobs' = jobs \ {k}
    BY <1>0, <2>1 DEF WorkerEnds, TypeOK
  <2> QED BY <1>0, <2>2 DEF TypeOK, JobsCoverWorkers
<1>3. TypeOK'
  BY <1>0, <1>1, <1>2 DEF WorkerEnds, TypeOK, OpsOK
<1>4. Mutex' /\ Sealed' /\ NoInsertion' /\ LockedHoldsNoKey'
  BY <1>1 DEF WorkerEnds, IInv, Mutex, Sealed, NoInsertion, LockedHoldsNoKey
<1> QED BY <1>2, <1>3, <1>4 DEF IInv

\* The controller: the seal goes on before the clear and comes off after it.
LEMMA ControllerSteps ==
    ASSUME IInv,
           RequestLock \/ Drained \/ FinishLock \/ GiveUpLock \/ Unlock \/ ClearCaches
    PROVE  IInv'
PROOF
<1>0. UNCHANGED <<ops, holder, jobs, workers>>
  BY DEF RequestLock, Drained, FinishLock, GiveUpLock, Unlock, ClearCaches
<1>1. TypeOK'
  BY <1>0 DEF IInv, TypeOK, RequestLock, Drained, FinishLock, GiveUpLock, Unlock, ClearCaches
<1>2. Mutex' /\ JobsCoverWorkers'
  BY <1>0 DEF IInv, Mutex, JobsCoverWorkers
<1>3. Sealed'
  BY <1>0 DEF IInv, Sealed, RequestLock, Drained, FinishLock, GiveUpLock, Unlock, ClearCaches
<1>4. NoInsertion'
  <2>1. CASE FinishLock
    BY <1>0, <2>1, NoneIsNoOp DEF IInv, Mutex, NoInsertion, FinishLock
  <2>2. CASE ~FinishLock
    BY <1>0, <2>2 DEF IInv, NoInsertion, RequestLock, Drained, GiveUpLock, Unlock, ClearCaches
  <2> QED BY <2>1, <2>2
<1>5. LockedHoldsNoKey'
  BY DEF IInv, LockedHoldsNoKey, RequestLock, Drained, FinishLock, GiveUpLock, Unlock, ClearCaches
<1> QED BY <1>1, <1>2, <1>3, <1>4, <1>5 DEF IInv

\* A wallet that is locked keeps no signing key in the cache and no emulation
\* runs unseen, in every state the service reaches: keypair_for, request_lock,
\* finish_lock and EmulationJobs, for any number of concurrent operations.
THEOREM SealIsEffectiveAlways == Spec => []SealIsEffective
PROOF
<1>1. Init => IInv
  <2> SUFFICES ASSUME Init PROVE IInv
    OBVIOUS
  <2>1. TypeOK
    BY OpFacts DEF Init, TypeOK, Idle
  <2>2. Mutex /\ Sealed /\ NoInsertion /\ LockedHoldsNoKey
    BY DEF Init, Idle, Mutex, Sealed, NoInsertion, LockedHoldsNoKey
  <2>3. JobsCoverWorkers
    BY DEF Init, JobsCoverWorkers
  <2> QED BY <2>1, <2>2, <2>3 DEF IInv
<1>2. IInv /\ [Next]_vars => IInv'
  <2> SUFFICES ASSUME IInv, [Next]_vars PROVE IInv'
    OBVIOUS
  <2>1. ASSUME NEW o \in Ops, Start(o) \/ Step(o) PROVE IInv'
    BY <2>1, KeySteps, NetworkSteps, EmulationSteps DEF Step
  <2>2. ASSUME NEW k \in Job, WorkerEnds(k) PROVE IInv'
    BY <2>2, WorkerEndsKeeps
  <2>3. CASE UNCHANGED vars
    BY <2>3 DEF vars, IInv, TypeOK, Mutex, Sealed, NoInsertion, LockedHoldsNoKey, JobsCoverWorkers
  <2> QED BY <2>1, <2>2, <2>3, ControllerSteps DEF Next
<1>3. IInv => SealIsEffective
  BY DEF IInv, SealIsEffective
<1> QED BY <1>1, <1>2, <1>3, PTL DEF Spec

-----------------------------------------------------------------------------
(* JrpcClient: the invariant of its calls.                                 *)

\* What is known of a call at any time: while it waits nothing has been reported
\* of it, and until its request is written nothing is on the wire.
CallInv(r) ==
    /\ r.stage # "done" => r.outcome = Missing
    /\ r.stage \in {"idle", "connecting"} => ~r.sent
    /\ ~r.sent => ~r.taken
    /\ r.outcome = "NotTransmitted" => ~r.sent
    /\ r.outcome \in {"Ok", "Acknowledged", "Rejected"} => r.about = r.id

\* The records of calls.
CallRecords ==
    [kind : CallKinds, id : 0..MaxId, stage : {"idle", "connecting", "written", "done"},
     sent : BOOLEAN, taken : BOOLEAN, outcome : CallOutcomes, about : 0..MaxId]

\* The endpoint in use is canonical, and every call as CallInv says.
RpcInv ==
    /\ RpcTypeOK /\ EndpointIsCanonical
    /\ \A c \in Calls : CallInv(call[c])

\* canonicalize_endpoint gives an endpoint it leaves alone.
LEMMA CanonicalTwice ==
    ASSUME NEW u \in Urls, Canonical(u) # RefusedUrl
    PROVE  /\ Canonical(u) \in Urls /\ Canonical(Canonical(u)) = Canonical(u)
           /\ Canonical(u).scheme = "http" => Canonical(u).host = "local"
<1> DEFINE v == WithScheme(u)
<1>1. v \in Urls /\ v.scheme # Missing
  BY DEF WithScheme, Urls, Missing
<1> HIDE DEF v
<1>2. /\ v.scheme \in {"http", "https"} /\ v.host # Missing
      /\ ~v.credentials /\ ~v.fragment /\ ~PublicHttp(v)
      /\ Canonical(u) = [v EXCEPT !.path = IF @ = Missing THEN "/" ELSE @]
  BY DEF Canonical, v
<1>3. PICK w \in Urls : w = Canonical(u) /\ w = [v EXCEPT !.path = IF @ = Missing THEN "/" ELSE @]
  BY <1>1, <1>2 DEF Urls
<1>4. /\ w.scheme = v.scheme /\ w.host = v.host /\ w.credentials = v.credentials
      /\ w.fragment = v.fragment /\ w.path # Missing
  BY <1>1, <1>3 DEF Urls, Missing
<1>5. WithScheme(w) = w
  BY <1>1, <1>4 DEF WithScheme
<1>6. [w EXCEPT !.path = IF @ = Missing THEN "/" ELSE @] = w
  BY <1>3, <1>4 DEF Urls
<1>7. ~PublicHttp(w)
  BY <1>2, <1>4 DEF PublicHttp
<1>8. Canonical(w) = w
  BY <1>2, <1>4, <1>5, <1>6, <1>7 DEF Canonical
<1>9. w.scheme = "http" => w.host = "local"
  BY <1>2, <1>4, <1>7, <1>3 DEF PublicHttp, Urls, Missing
<1> QED
  BY <1>3, <1>8, <1>9

\* No call is one the invariant allows.
LEMMA NoCallOK == NoCall \in CallRecords /\ CallInv(NoCall)
  BY RpcAssumption DEF NoCall, CallInv, CallRecords, CallKinds, CallOutcomes, Missing

\* The invariant holds of a new transport.
LEMMA RpcFirst == RpcInit => RpcInv
<1> SUFFICES ASSUME RpcInit PROVE RpcInv
  OBVIOUS
<1>1. endpoint \in Urls /\ EndpointIsCanonical
  BY CanonicalTwice DEF RpcInit, EndpointIsCanonical
<1> QED
  BY <1>1, NoCallOK, RpcAssumption DEF RpcInit, RpcInv, RpcTypeOK, CallRecords

\* A step that changes one call, and that into one the invariant allows.
LEMMA OneCall ==
    ASSUME RpcInv, NEW c \in Calls, NEW r \in CallRecords, CallInv(r),
           call' = [call EXCEPT ![c] = r], endpoint' = endpoint, nextId' \in 1..(MaxId + 1)
    PROVE  RpcInv'
<1>1. \A d \in Calls : CallInv(call'[d])
  BY DEF RpcInv, RpcTypeOK
<1>2. EndpointIsCanonical'
  BY DEF RpcInv, EndpointIsCanonical, Canonical, WithScheme, PublicHttp
<1> QED
  BY <1>1, <1>2 DEF RpcInv, RpcTypeOK, CallRecords

\* The outcomes of an answer, and when one of them is more than an error.
LEMMA AnswerOutcomes ==
    ASSUME NEW r \in Replies, NEW n
    PROVE  /\ Classified(r, n) \in {"Malformed", "TransportError", "Rejected", "Acknowledged"}
           /\ Classified(r, n) \in {"Rejected", "Acknowledged"} => r.about = n
           /\ ReadResult(r, n) \in {"Ok", "Err"} /\ (ReadResult(r, n) = "Ok" => r.about = n)
  BY DEF Classified, ReadResult, OwnAnswer, Replies

\* What is reported of a call that ends.
LEMMA CallEnds ==
    ASSUME RpcInv, NEW c \in Calls, NEW o \in CallOutcomes, NEW a \in 0..MaxId,
           CallDone(c, o, a), UNCHANGED <<endpoint, nextId>>,
           o = "NotTransmitted" => ~call[c].sent,
           o \in {"Ok", "Acknowledged", "Rejected"} => a = call[c].id
    PROVE  RpcInv'
<1> DEFINE r == [call[c] EXCEPT !.stage = "done", !.outcome = o, !.about = a]
<1>1. call[c] \in CallRecords /\ CallInv(call[c]) /\ nextId \in 1..(MaxId + 1)
  BY DEF RpcInv, RpcTypeOK, CallRecords
<1>2. r \in CallRecords
  BY <1>1 DEF CallRecords
<1>3. CallInv(r)
  BY <1>1 DEF CallRecords, CallInv
<1>4. call' = [call EXCEPT ![c] = r]
  BY DEF CallDone, RpcInv, RpcTypeOK
<1> QED
  BY <1>1, <1>2, <1>3, <1>4, OneCall

\* Every step of a call keeps the invariant.
LEMMA RpcStep == RpcInv /\ [RpcNext]_rpcVars => RpcInv'
<1> SUFFICES ASSUME RpcInv, [RpcNext]_rpcVars PROVE RpcInv'
  OBVIOUS
<1> USE RpcAssumption
<1>1. CASE UNCHANGED rpcVars
  BY <1>1 DEF rpcVars, RpcInv, RpcTypeOK, EndpointIsCanonical, Canonical, WithScheme, PublicHttp
<1>2. ASSUME NEW c \in Calls,
             \/ \E kind \in CallKinds : StartCall(c, kind)
             \/ RefuseLocally(c) \/ ConnectFails(c) \/ Breaks(c) \/ Write(c) \/ NodeTakes(c) \/ EndCall(c)
             \/ \E r \in Replies : Reply(c, r)
      PROVE  RpcInv'
  <2>1. /\ call[c] \in CallRecords /\ CallInv(call[c]) /\ nextId \in 1..(MaxId + 1)
        /\ call \in [Calls -> CallRecords]
    BY DEF RpcInv, RpcTypeOK, CallRecords
  <2>2. CASE \E kind \in CallKinds : StartCall(c, kind)
    <3>1. PICK kind \in CallKinds : StartCall(c, kind)
      BY <2>2
    <3> DEFINE r == [NoCall EXCEPT !.kind = kind, !.id = nextId, !.stage = "connecting"]
    <3>2. nextId \in 0..MaxId /\ nextId' \in 1..(MaxId + 1)
      BY <2>1, <3>1 DEF StartCall
    <3>3. r \in CallRecords
      BY <3>2, NoCallOK DEF CallRecords
    <3>4. CallInv(r)
      BY DEF CallInv, NoCall, Missing
    <3> QED
      BY <3>1, <3>2, <3>3, <3>4, OneCall DEF StartCall
  <2>3. CASE RefuseLocally(c)
    <3> DEFINE r == [NoCall EXCEPT !.kind = "send", !.stage = "done", !.outcome = "NotTransmitted"]
    <3>1. r \in CallRecords
      BY NoCallOK DEF CallRecords, CallOutcomes, CallKinds
    <3>2. CallInv(r)
      BY DEF CallInv, NoCall, Missing
    <3> QED
      BY <2>1, <2>3, <3>1, <3>2, OneCall DEF RefuseLocally
  <2>4. CASE ConnectFails(c)
    BY <2>1, <2>4, CallEnds DEF ConnectFails, CallInv, CallOutcomes
  <2>5. CASE Breaks(c)
    BY <2>5, CallEnds DEF Breaks, AfterConnect, CallOutcomes
  <2>6. CASE Write(c)
    <3> DEFINE r == [call[c] EXCEPT !.stage = "written", !.sent = TRUE]
    <3>1. r \in CallRecords /\ call' = [call EXCEPT ![c] = r]
      BY <2>1, <2>6 DEF CallRecords, Write
    <3>2. CallInv(r)
      BY <2>1, <2>6 DEF CallInv, Write, CallRecords, Missing
    <3> QED
      BY <2>1, <2>6, <3>1, <3>2, OneCall DEF Write
  <2>7. CASE NodeTakes(c)
    <3> DEFINE r == [call[c] EXCEPT !.taken = TRUE]
    <3>1. r \in CallRecords /\ call' = [call EXCEPT ![c] = r]
      BY <2>1, <2>7 DEF CallRecords, NodeTakes
    <3>2. CallInv(r)
      BY <2>1, <2>7 DEF CallInv, NodeTakes, CallRecords
    <3> QED
      BY <2>1, <2>7, <3>1, <3>2, OneCall DEF NodeTakes
  <2>8. CASE EndCall(c)
    BY <2>1, <2>8, NoCallOK, OneCall DEF EndCall
  <2>9. CASE \E r \in Replies : Reply(c, r)
    <3>1. PICK r \in Replies : Reply(c, r)
      BY <2>9
    <3>2. r.about \in 0..MaxId
      BY <3>1 DEF Replies
    <3>3. PICK o : o = IF call[c].kind = "send" THEN Classified(r, call[c].id) ELSE ReadResult(r, call[c].id)
      OBVIOUS
    <3>4. /\ o \in CallOutcomes /\ o # "NotTransmitted"
          /\ o \in {"Ok", "Acknowledged", "Rejected"} => r.about = call[c].id
      BY <3>1, <3>3, AnswerOutcomes DEF CallOutcomes
    <3> QED
      BY <3>1, <3>2, <3>3, <3>4, CallEnds DEF Reply
  <2> QED
    BY <1>2, <2>2, <2>3, <2>4, <2>5, <2>6, <2>7, <2>8, <2>9
<1> QED
  BY <1>1, <1>2 DEF RpcNext

\* The invariant of the JSON-RPC client, for any number of concurrent calls.
THEOREM RpcInvariant == RpcSpec => []RpcInv
  BY RpcFirst, RpcStep, PTL DEF RpcSpec

\* What broadcast_once and call_url report of a call is what happened on the
\* wire, for any number of concurrent calls and request ids: a message reported
\* as not transmitted was never sent, and an answer is the call's own.
THEOREM RpcClassified == RpcSpec => []CallsAreClassified
<1>1. RpcInv => CallsAreClassified
  BY DEF RpcInv, CallInv, CallsAreClassified, UnsentIsUnsent, AnswerIsOwn
<1> QED
  BY <1>1, RpcInvariant, PTL

-----------------------------------------------------------------------------
(* The arithmetic of a quote.                                              *)

\* Division rounds down.
LEMMA FloorDiv ==
    ASSUME NEW a \in Nat, NEW b \in Nat, b > 0
    PROVE  a \div b \in Nat /\ (a \div b) * b <= a
  BY SMT

\* Multiplication is monotone.
LEMMA Monotone ==
    ASSUME NEW a \in Nat, NEW b \in Nat, NEW c \in Nat, b <= c
    PROVE  a * b <= a * c /\ b * a <= c * a
  BY SMT

\* A share of an amount, rounded down, is at most the amount.
LEMMA ShareBound ==
    ASSUME NEW a \in Nat, NEW k \in 0..Denom
    PROVE  /\ (a * (Denom - k)) \div Denom \in Nat
           /\ (a * (Denom - k)) \div Denom <= a
<1>1. Denom \in Nat /\ Denom > 0
  BY SwapAssumptions
<1>2. PICK d \in Nat : d = Denom - k /\ d <= Denom
  BY <1>1
<1>3. a * d \in Nat /\ a * d <= a * Denom
  BY <1>1, <1>2, Monotone
<1>4. PICK q \in Nat : q = (a * d) \div Denom /\ q * Denom <= a * d
  BY <1>1, <1>3, FloorDiv
<1>5. q <= a
  <2>1. SUFFICES ASSUME q >= a + 1 PROVE FALSE
    BY <1>4
  <2>2. (a + 1) * Denom <= q * Denom
    BY <1>1, <1>4, <2>1, Monotone
  <2>3. (a + 1) * Denom = a * Denom + Denom
    BY <1>1
  <2>4. a * Denom \in Nat /\ q * Denom \in Nat
    BY <1>1, <1>4
  <2> QED
    BY <1>1, <1>3, <1>4, <2>2, <2>3, <2>4
<1> QED
  BY <1>2, <1>4, <1>5

\* The constant product is kept when what is paid out is rounded down.
LEMMA ProductKept ==
    ASSUME NEW x \in Nat, NEW y \in Nat, NEW net \in Nat, NEW dx \in Nat,
           net <= dx, x > 0, NEW out \in Nat, out * (x + net) <= y * net
    PROVE  out <= y /\ (x + dx) * (y - out) >= x * y
<1>1. out <= y
  <2>1. SUFFICES ASSUME out >= y + 1 PROVE FALSE
    OBVIOUS
  <2>2. (y + 1) * (x + net) <= out * (x + net)
    BY <2>1, Monotone
  <2>3. (y + 1) * (x + net) = y * x + y * net + x + net
    BY SMT
  <2>4. y * x \in Nat /\ y * net \in Nat /\ out * (x + net) \in Nat
    BY SMT
  <2> QED
    BY <2>2, <2>3, <2>4
<1>2. PICK rest \in Nat : rest = y - out
  BY <1>1
<1>3. (x + net) * rest <= (x + dx) * rest
  BY Monotone
<1>4. (x + net) * rest = x * y + y * net - out * (x + net)
  BY <1>2, SMT
<1>5. x * y \in Nat /\ y * net \in Nat /\ out * (x + net) \in Nat /\ (x + dx) * rest \in Nat
  BY SMT
<1> QED
  BY <1>1, <1>2, <1>3, <1>4, <1>5

\* What expected_out promises, the pool can pay by the constant product.
LEMMA ExpectedOutSafe ==
    ASSUME NEW x \in Nat, NEW y \in Nat, NEW dx \in Nat, NEW fee \in Nat, fee < Denom
    PROVE  /\ ExpectedOut(x, y, dx, fee) \in Nat
           /\ (x + dx) * (y - ExpectedOut(x, y, dx, fee)) >= x * y
<1>1. fee \in 0..Denom /\ Denom \in Nat
  BY SwapAssumptions
<1>2. PICK net \in Nat : net = (dx * (Denom - fee)) \div Denom /\ net <= dx
  BY <1>1, ShareBound
<1>3. CASE x = 0 \/ net = 0
  <2>1. ExpectedOut(x, y, dx, fee) = 0
    BY <1>2, <1>3 DEF ExpectedOut
  <2>2. x * y <= (x + dx) * y
    BY Monotone
  <2>3. x * y \in Nat /\ (x + dx) * y \in Nat /\ y - 0 = y
    BY SMT
  <2> QED
    BY <2>1, <2>2, <2>3
<1>4. CASE x > 0 /\ net # 0
  <2>1. x + net \in Nat /\ x + net > 0 /\ y * net \in Nat
    BY <1>2, <1>4, SMT
  <2>2. PICK out \in Nat : out = (y * net) \div (x + net) /\ out * (x + net) <= y * net
    BY <2>1, FloorDiv
  <2>3. ExpectedOut(x, y, dx, fee) = out
    BY <1>2, <1>4, <2>2 DEF ExpectedOut
  <2> QED
    BY <1>2, <1>4, <2>2, <2>3, ProductKept
<1> QED
  BY <1>3, <1>4

\* A set of numbers has a least one.  (From the well-foundedness of <.)
LEMMA LeastNat ==
    ASSUME NEW T, T \subseteq Nat, T # {}
    PROVE  \E x \in T : \A y \in T : x <= y
<1> DEFINE R == {ss \in Nat \X Nat : ss[1] < ss[2]}
<1>1. IsWellFoundedOn(R, Nat)
  BY NatLessThanWellFounded DEF OpToRel
<1> HIDE DEF R
<1>2. PICK x \in T : \A y \in T : ~(<<y, x>> \in R)
  BY <1>1, WFMin
<1>3. \A y \in T : y < x => <<y, x>> \in R
  BY <1>2 DEF R
<1>4. x \in Nat
  BY <1>2
<1>5. \A y \in T : x <= y
  <2> SUFFICES ASSUME NEW y \in T PROVE x <= y
    OBVIOUS
  <2>1. y \in Nat /\ ~(y < x)
    BY <1>2, <1>3
  <2> QED
    BY <1>4, <2>1
<1> QED
  BY <1>2, <1>5

-----------------------------------------------------------------------------
(* The invariant.                                                          *)

\* The records of the state; a side is an asset or none.
Sides == SwapAssets \cup {NoSwap}
Requests == [n : 0..MaxSwaps, from : Sides, to : Sides, amount : Nat, min : Nat,
             slippage : Nat, shown : Nat]
Receipts == [n : 0..MaxSwaps, from : Sides, to : Sides, settledBy : 0..MaxSwapRows]
Forms == [from : SwapAssets, to : SwapAssets, amount : SwapAmounts, slippage : Slippages]
Quotes == [in : Nat, out : Nat, min : Nat, ok : BOOLEAN]
PoolStates == Pools \cup {NoPool}

\* The page: the form, the pool and the quote of the two.
PageInv ==
    /\ form \in Forms /\ typedOk \in BOOLEAN /\ pool \in PoolStates
    /\ QuoteIsCurrent

\* The limit of a request is the one that follows from the figures shown.
Confirmed(r) == r \in Requests /\ r.min = MinOut(r.shown, r.slippage)

\* At most one request is under way, and none waits for a password meanwhile.
FlightInv ==
    /\ swapping \in BOOLEAN /\ count \in 0..MaxSwaps /\ intent \in Requests
    /\ Confirmed(pending)
    /\ \/ flying = {}
       \/ \E r : flying = {r} /\ Confirmed(r) /\ swapping /\ pending = NoRequest

\* The rows are numbered by logical time, and a swap has one row of its own.
RowRecords == [lt : Nat, kind : {"in", "out"}, n : 0..MaxSwaps, asset : Sides, to : Sides,
               bounced : BOOLEAN]
RowsOK(rs) ==
    /\ rs \subseteq RowRecords /\ IsFiniteSet(rs) /\ Cardinality(rs) <= MaxSwapRows
    /\ \A r \in rs : 1 <= r.lt /\ r.lt <= Cardinality(rs)
    /\ \A r, s \in rs : r.lt = s.lt => r = s
    /\ \A r, s \in rs : r.kind = "out" /\ s.kind = "out" /\ r.n = s.n => r = s

\* A receipt was settled by a row that came in after the swap's own.
SettledOK(rc, rs) ==
    rc.settledBy # 0 =>
        \E r \in rs : /\ r.lt = rc.settledBy /\ r.kind = "in"
                      /\ \E paid \in SentRow(rs, rc.n) : Later(r, paid)

\* The activity rows and the receipt settled by one of them.
ReceiptInv == RowsOK(rows) /\ receipt \in Receipts /\ SettledOK(receipt, rows)

\* The inductive invariant of the swap.
SwapInv == PageInv /\ FlightInv /\ ReceiptInv

-----------------------------------------------------------------------------
(* The page.                                                               *)

\* Nothing is promised of nothing.
LEMMA MinOutZero ==
    ASSUME NEW k \in 0..Denom PROVE MinOut(0, k) = 0
<1>1. Denom \in Nat /\ Denom > 0
  BY SwapAssumptions
<1>2. 0 * (Denom - k) = 0 /\ 0 \div Denom = 0
  BY <1>1, SMT
<1> QED
  BY <1>2 DEF MinOut

\* A quote of any form and pool is one; it is safe.
LEMMA QuoteFacts ==
    ASSUME NEW p \in PoolStates, NEW f \in Forms
    PROVE  /\ QuoteOf(p, f) \in Quotes
           /\ QuoteOf(p, f).min = MinOut(QuoteOf(p, f).out, f.slippage)
           /\ QuoteOf(p, f).ok =>
                /\ QuoteOf(p, f).min <= QuoteOf(p, f).out
                /\ (p.reserves[f.from] + QuoteOf(p, f).in) * (p.reserves[f.to] - QuoteOf(p, f).out)
                     >= p.reserves[f.from] * p.reserves[f.to]
<1>1. /\ f.from \in SwapAssets /\ f.to \in SwapAssets /\ f.amount \in Nat
      /\ f.slippage \in 0..Denom /\ Denom \in Nat /\ Denom > 0
  <2>1. /\ f.from \in SwapAssets /\ f.to \in SwapAssets
        /\ f.amount \in SwapAmounts /\ f.slippage \in Slippages
    BY DEF Forms
  <2>2. SwapAmounts \subseteq Nat /\ Slippages \subseteq 0..Denom /\ Denom \in Nat /\ Denom > 0
    BY SwapAssumptions
  <2> QED
    BY <2>1, <2>2
<1>2. NoQuote \in Quotes
  BY DEF NoQuote, Quotes
<1>4. CASE QuoteOf(p, f) = NoQuote
  <2>1. PICK q \in Quotes : q = QuoteOf(p, f) /\ q = NoQuote
    BY <1>2, <1>4
  <2>2. q.min = MinOut(q.out, f.slippage) /\ ~q.ok
    BY <1>1, <2>1, MinOutZero DEF NoQuote
  <2> QED
    BY <2>1, <2>2
<1>5. CASE QuoteOf(p, f) # NoQuote
  <2>1. p \in Pools /\ p.fee < Denom
    BY <1>1, <1>5, SwapAssumptions DEF QuoteOf, PoolStates
  <2>2. PICK x \in Nat, y \in Nat : x = p.reserves[f.from] /\ y = p.reserves[f.to]
    BY <1>1, <2>1, SwapAssumptions
  <2>3. p.fee \in Nat
    BY <2>1, SwapAssumptions
  <2>4. PICK out \in Nat : /\ out = ExpectedOut(x, y, f.amount, p.fee)
                           /\ (x + f.amount) * (y - out) >= x * y
    BY <1>1, <2>1, <2>3, ExpectedOutSafe
  <2>5. PICK min \in Nat : min = MinOut(out, f.slippage) /\ min <= out
    BY <1>1, ShareBound DEF MinOut
  <2>6. QuoteOf(p, f) = [in |-> f.amount, out |-> out, min |-> min, ok |-> TRUE]
    BY <1>5, <2>2, <2>4, <2>5 DEF QuoteOf
  <2>7. QuoteOf(p, f) \in Quotes
    BY <1>1, <2>6 DEF Quotes
  <2> QED
    BY <2>2, <2>4, <2>5, <2>6, <2>7
<1> QED
  BY <1>4, <1>5

\* The quote on the page is safe, and its limit the one it shows.
LEMMA PageQuote ==
    ASSUME PageInv
    PROVE  /\ quote \in Quotes /\ quote.min = MinOut(quote.out, form.slippage)
           /\ QuoteIsSafe
<1>1. CASE quote = QuoteOf(pool, form)
  BY <1>1, QuoteFacts DEF PageInv, QuoteIsSafe
<1>2. CASE quote = NoQuote
  <2>1. MinOut(0, form.slippage) = 0
    <3>1. form.slippage \in Slippages /\ Slippages \subseteq 0..Denom
      BY SwapAssumptions DEF PageInv, Forms
    <3> QED
      BY <3>1, MinOutZero
  <2> QED
    BY <1>2, <2>1 DEF NoQuote, Quotes, QuoteIsSafe
<1> QED
  BY <1>1, <1>2 DEF PageInv, QuoteIsCurrent

\* align_swap_form_with_pool gives a form.
LEMMA AlignedForm ==
    ASSUME NEW p \in PoolStates, NEW f \in Forms
    PROVE  Aligned(p, f) \in Forms
<1>1. Supported(p) \subseteq SwapAssets
  BY DEF Supported
<1>2. CASE Supported(p) = {}
  BY <1>2 DEF Aligned
<1>3. CASE Supported(p) # {}
  <2>1. (CHOOSE a \in Supported(p) : TRUE) \in Supported(p)
    BY <1>3
  <2>2. PICK from \in SwapAssets :
            from = IF f.from \in Supported(p) THEN f.from ELSE CHOOSE a \in Supported(p) : TRUE
    BY <1>1, <2>1
  <2>3. PICK to \in SwapAssets :
            to = IF (f.to \notin Supported(p) \/ f.to = from) /\ Supported(p) \ {from} # {}
                 THEN CHOOSE a \in Supported(p) \ {from} : TRUE ELSE f.to
    <3>1. Supported(p) \ {from} # {}
            => (CHOOSE a \in Supported(p) \ {from} : TRUE) \in Supported(p)
      OBVIOUS
    <3>2. f.to \in SwapAssets
      BY DEF Forms
    <3> QED
      BY <1>1, <3>1, <3>2
  <2>4. Aligned(p, f) = [f EXCEPT !.from = from, !.to = to]
    BY <1>3, <2>2, <2>3 DEF Aligned
  <2> QED
    BY <2>4 DEF Forms
<1> QED
  BY <1>2, <1>3

\* A page whose quote is recomputed or cleared, and one left alone.
LEMMA PageChanges ==
    ASSUME NEW f \in Forms, NEW p \in PoolStates, form' = f, pool' = p, typedOk' \in BOOLEAN,
           quote' = NoQuote \/ quote' = QuoteOf(p, f)
    PROVE  PageInv'
  BY DEF PageInv, QuoteIsCurrent

LEMMA PageKept ==
    ASSUME PageInv, UNCHANGED <<form, typedOk, pool, quote>>
    PROVE  PageInv'
  BY PageChanges DEF PageInv, QuoteIsCurrent

\* A field of the form is set.
LEMMA FormFields ==
    ASSUME NEW f \in Forms
    PROVE  /\ \A a \in SwapAssets : [f EXCEPT !.from = a] \in Forms /\ [f EXCEPT !.to = a] \in Forms
           /\ [f EXCEPT !.from = f.to, !.to = f.from] \in Forms
           /\ \A x \in SwapAmounts : [f EXCEPT !.amount = x] \in Forms
           /\ \A k \in Slippages : [f EXCEPT !.slippage = k] \in Forms
  BY DEF Forms

-----------------------------------------------------------------------------
(* The request.                                                            *)

\* No request is one with a limit that follows from its figures.
LEMMA NoRequestOK == Confirmed(NoRequest) /\ NoRequest.n = 0
<1>1. MinOut(0, 0) = 0
  <2>1. 0 \in 0..Denom
    BY SwapAssumptions
  <2> QED
    BY <2>1, MinOutZero
<1>2. 0 \in 0..MaxSwaps
  BY SwapAssumptions
<1> QED
  BY <1>1, <1>2 DEF NoRequest, Confirmed, Requests, Sides, NoSwap

\* A step that leaves the request alone.
LEMMA FlightKept ==
    ASSUME FlightInv, UNCHANGED <<pending, intent, flying, swapping, count>>
    PROVE  FlightInv'
  BY DEF FlightInv

\* The answer to a request leaves none under way.
LEMMA FlightLands ==
    ASSUME FlightInv, NEW r \in flying, flying' = flying \ {r}, swapping' = FALSE,
           intent' = NoRequest, UNCHANGED <<pending, count>>
    PROVE  FlightInv'
<1>1. flying' = {}
  BY DEF FlightInv
<1> QED
  BY <1>1, NoRequestOK DEF FlightInv, Confirmed

\* request_swap freezes the figures of the quote on the page.
LEMMA FlightRequested ==
    ASSUME PageInv, FlightInv, RequestSwap
    PROVE  FlightInv'
<1>1. quote \in Quotes /\ quote.min = MinOut(quote.out, form.slippage)
  BY PageQuote
<1>2. /\ form.from \in SwapAssets /\ form.to \in SwapAssets
      /\ form.amount \in SwapAmounts /\ form.slippage \in Slippages
  BY DEF PageInv, Forms
<1>3. form.amount \in Nat /\ form.slippage \in Nat /\ 0 \in 0..MaxSwaps
  <2>1. /\ SwapAmounts \subseteq Nat /\ Slippages \subseteq 0..Denom /\ Denom \in Nat
        /\ 0 \in 0..MaxSwaps
    BY SwapAssumptions
  <2>2. form.slippage \in 0..Denom
    BY <1>2, <2>1
  <2>3. form.slippage \in Nat
    BY <2>1, <2>2
  <2> QED
    BY <1>2, <2>1, <2>3
<1>4. PICK amount \in Nat, slip \in Nat, min \in Nat, out \in Nat :
          /\ amount = form.amount /\ slip = form.slippage /\ min = quote.min /\ out = quote.out
          /\ min = MinOut(out, slip)
  BY <1>1, <1>3 DEF Quotes
<1>5. PICK a \in Sides, b \in Sides : a = form.from /\ b = form.to
  BY <1>2 DEF Sides
<1>6. pending' = [n |-> 0, from |-> a, to |-> b, amount |-> amount, min |-> min,
                  slippage |-> slip, shown |-> out]
  BY <1>4, <1>5 DEF RequestSwap
<1>7. pending' \in Requests
  BY <1>3, <1>6 DEF Requests
<1>8. pending'.min = min /\ pending'.shown = out /\ pending'.slippage = slip
  BY <1>6
<1>9. (Confirmed(pending))'
  BY <1>4, <1>7, <1>8 DEF Confirmed
<1>10. flying = {} /\ flying' = {}
  BY DEF FlightInv, RequestSwap, SwapReady
<1> QED
  BY <1>9, <1>10 DEF FlightInv, RequestSwap

\* dispatch_authorized_swap hands over what was frozen.
LEMMA FlightDispatched ==
    ASSUME PageInv, FlightInv, DispatchAuthorizedSwap
    PROVE  FlightInv'
<1>1. pending \in Requests /\ count + 1 \in 0..MaxSwaps /\ flying = {}
  BY SwapAssumptions DEF FlightInv, DispatchAuthorizedSwap, Confirmed
<1>2. quote.out \in Nat
  BY PageQuote DEF Quotes
<1>3. Signed(pending) \in Requests /\ [Signed(pending) EXCEPT !.shown = quote.out] \in Requests
  BY <1>1, <1>2 DEF Signed, Requests
<1>4. Confirmed(Signed(pending))
  <2>1. /\ Signed(pending).min = pending.min /\ Signed(pending).shown = pending.shown
        /\ Signed(pending).slippage = pending.slippage
    BY <1>1 DEF Signed, Requests
  <2>2. pending.min = MinOut(pending.shown, pending.slippage)
    BY DEF FlightInv, Confirmed
  <2> QED
    BY <1>3, <2>1, <2>2 DEF Confirmed
<1>5. PICK r : r = Signed(pending) /\ Confirmed(r) /\ flying' = {r}
  BY <1>1, <1>4 DEF DispatchAuthorizedSwap
<1>6. count' \in 0..MaxSwaps /\ intent' \in Requests /\ swapping' = TRUE /\ pending' = NoRequest
  BY <1>1, <1>3 DEF DispatchAuthorizedSwap
<1> QED
  BY <1>5, <1>6, NoRequestOK DEF FlightInv

-----------------------------------------------------------------------------
(* The receipt.                                                            *)

\* A step that leaves the rows and the receipt alone.
LEMMA ReceiptKept ==
    ASSUME ReceiptInv, UNCHANGED <<rows, receipt>>
    PROVE  ReceiptInv'
  BY DEF ReceiptInv

\* No receipt is an unsettled one.
LEMMA NoReceiptOK == NoReceipt \in Receipts /\ NoReceipt.settledBy = 0 /\ NoReceipt.n = 0
<1>1. 0 \in 0..MaxSwaps /\ 0 \in 0..MaxSwapRows
  BY SwapAssumptions
<1> QED
  BY <1>1 DEF NoReceipt, Receipts, Sides, NoSwap

\* The row that settles a receipt is one that pays it.
LEMMA ReconciledOK ==
    ASSUME NEW rs, RowsOK(rs), NEW rc \in Receipts, SettledOK(rc, rs)
    PROVE  /\ Reconciled(rc, rs) \in Receipts /\ SettledOK(Reconciled(rc, rs), rs)
           /\ Reconciled(rc, rs).n = rc.n
<1>1. CASE rc = NoReceipt \/ rc.settledBy # 0 \/ Paying(rc, rs) = {}
  BY <1>1 DEF Reconciled
<1>2. CASE ~(rc = NoReceipt \/ rc.settledBy # 0 \/ Paying(rc, rs) = {})
  <2> DEFINE lts == {r.lt : r \in Paying(rc, rs)}
  <2>1. lts \subseteq Nat /\ lts # {}
    BY <1>2 DEF Paying, RowsOK, RowRecords
  <2>2. \E lt \in lts : \A r \in Paying(rc, rs) : lt <= r.lt
    <3>1. PICK x \in lts : \A y \in lts : x <= y
      BY <2>1, LeastNat
    <3> QED
      BY <3>1
  <2>3. PICK least \in lts : least = CHOOSE lt \in lts : \A r \in Paying(rc, rs) : lt <= r.lt
    BY <2>2
  <2>4. Reconciled(rc, rs) = [rc EXCEPT !.settledBy = least]
    BY <1>2, <2>3 DEF Reconciled
  <2>5. PICK r \in Paying(rc, rs) : least = r.lt
    BY <2>3
  <2>6. r \in rs /\ r.kind = "in" /\ \E paid \in SentRow(rs, rc.n) : Later(r, paid)
    BY <2>5 DEF Paying
  <2>7. least \in 0..MaxSwapRows
    <3>1. r.lt \in Nat /\ r.lt <= Cardinality(rs) /\ Cardinality(rs) <= MaxSwapRows
      BY <2>6 DEF RowsOK, RowRecords
    <3>2. Cardinality(rs) \in Nat
      BY FS_CardinalityType DEF RowsOK
    <3> QED
      BY <2>5, <3>1, <3>2, SwapAssumptions
  <2>8. PICK new \in Receipts : new = Reconciled(rc, rs) /\ new.n = rc.n /\ new.settledBy = least
    BY <2>4, <2>7 DEF Receipts
  <2>9. SettledOK(new, rs)
    BY <2>5, <2>6, <2>8 DEF SettledOK
  <2> QED
    BY <2>8, <2>9
<1> QED
  BY <1>1, <1>2

\* A row is added, with the next logical time.
LEMMA RowAdded ==
    ASSUME NEW rs, RowsOK(rs), Cardinality(rs) < MaxSwapRows, NEW r \in RowRecords,
           r.lt = Cardinality(rs) + 1,
           r.kind = "out" => SentRow(rs, r.n) = {}
    PROVE  RowsOK(rs \cup {r})
<1>1. Cardinality(rs) \in Nat
  BY FS_CardinalityType DEF RowsOK
<1>2. r \notin rs
  BY <1>1 DEF RowsOK
<1>3. /\ IsFiniteSet(rs \cup {r}) /\ Cardinality(rs \cup {r}) = Cardinality(rs) + 1
  BY <1>2, FS_AddElement DEF RowsOK
<1>4. \A s \in rs : s.lt \in Nat /\ 1 <= s.lt /\ s.lt <= Cardinality(rs)
  BY DEF RowsOK, RowRecords
<1>5. Cardinality(rs \cup {r}) <= MaxSwapRows
  BY <1>1, <1>3, SwapAssumptions
<1>6. \A s \in rs \cup {r} : 1 <= s.lt /\ s.lt <= Cardinality(rs \cup {r})
  BY <1>1, <1>3, <1>4
<1>7. \A s, t \in rs \cup {r} : s.lt = t.lt => s = t
  BY <1>1, <1>4 DEF RowsOK
<1>8. \A s, t \in rs \cup {r} : s.kind = "out" /\ t.kind = "out" /\ s.n = t.n => s = t
  <2>1. \A s \in rs : s.kind = "out" /\ r.kind = "out" => s.n # r.n
    BY DEF SentRow
  <2> QED
    BY <2>1 DEF RowsOK
<1>9. rs \cup {r} \subseteq RowRecords
  BY DEF RowsOK
<1> QED
  BY <1>3, <1>5, <1>6, <1>7, <1>8, <1>9 DEF RowsOK

\* What settled a receipt stays.
LEMMA SettledStays ==
    ASSUME NEW rs, NEW r, NEW rc, SettledOK(rc, rs)
    PROVE  SettledOK(rc, rs \cup {r})
  BY DEF SettledOK, SentRow

\* A row is merged and the receipt reconciled with it.
LEMMA Merged ==
    ASSUME ReceiptInv, NEW r \in RowRecords, Merge(r), r.lt = Cardinality(rows) + 1,
           r.kind = "out" => SentRow(rows, r.n) = {}
    PROVE  ReceiptInv'
<1>1. RowsOK(rows \cup {r})
  BY RowAdded DEF ReceiptInv, Merge
<1>2. receipt \in Receipts /\ SettledOK(receipt, rows \cup {r})
  BY SettledStays DEF ReceiptInv
<1>3. /\ Reconciled(receipt, rows \cup {r}) \in Receipts
      /\ SettledOK(Reconciled(receipt, rows \cup {r}), rows \cup {r})
  BY <1>1, <1>2, ReconciledOK
<1>4. rows' = rows \cup {r} /\ receipt' = Reconciled(receipt, rows \cup {r})
  BY DEF Merge
<1> QED
  BY <1>1, <1>3, <1>4 DEF ReceiptInv

-----------------------------------------------------------------------------
(* The theorem.                                                            *)

\* The invariant holds of a new session.
LEMMA SwapFirst == SwapInit => SwapInv
<1> SUFFICES ASSUME SwapInit PROVE SwapInv
  OBVIOUS
<1>1. PageInv
  <2>1. (CHOOSE t \in Tokens : TRUE) \in Tokens /\ (CHOOSE k \in Slippages : TRUE) \in Slippages
    BY SwapAssumptions
  <2>2. 0 \in SwapAmounts
    BY SwapAssumptions
  <2>3. form \in Forms
    BY <2>1, <2>2 DEF SwapInit, Forms, SwapAssets
  <2> QED
    BY <2>3 DEF SwapInit, PageInv, PoolStates, QuoteIsCurrent
<1>2. FlightInv
  <2>1. 0 \in 0..MaxSwaps
    BY SwapAssumptions
  <2> QED
    BY <2>1, NoRequestOK DEF SwapInit, FlightInv, Confirmed
<1>3. ReceiptInv
  BY NoReceiptOK, FS_EmptySet, SwapAssumptions DEF SwapInit, ReceiptInv, RowsOK, SettledOK
<1> QED
  BY <1>1, <1>2, <1>3 DEF SwapInv

\* Every step keeps the three parts.
LEMMA SwapStep == SwapInv /\ [SwapNext]_swapVars => SwapInv'
<1> SUFFICES ASSUME SwapInv, [SwapNext]_swapVars PROVE SwapInv'
  OBVIOUS
<1> USE DEF SwapInv
<1>0. /\ PageInv /\ FlightInv /\ ReceiptInv
      /\ form \in Forms /\ pool \in PoolStates /\ typedOk \in BOOLEAN /\ 0 \in SwapAmounts
  BY SwapAssumptions DEF PageInv
<1> DEFINE Cleared == [form EXCEPT !.amount = 0]
<1>c. Cleared \in Forms
  BY <1>0, FormFields
<1> HIDE DEF Cleared
<1>e. ASSUME NEW f \in Forms, EditForm(f) PROVE SwapInv'
  <2>1. PageInv'
    BY <1>0, <1>e, PageChanges DEF EditForm, Recomputed
  <2>2. FlightInv' /\ ReceiptInv'
    BY <1>0, <1>e, FlightKept, ReceiptKept DEF EditForm
  <2> QED
    BY <2>1, <2>2
<1>1. CASE UNCHANGED swapVars
  BY <1>0, <1>1, PageKept, FlightKept, ReceiptKept DEF swapVars
<1>2. ASSUME NEW p \in Pools, PoolLoaded(p) PROVE SwapInv'
  <2>1. p \in PoolStates /\ Aligned(p, form) \in Forms
    BY <1>0, AlignedForm DEF PoolStates
  <2>2. PageInv'
    BY <1>0, <1>2, <2>1, PageChanges DEF PoolLoaded, Recomputed
  <2>3. FlightInv' /\ ReceiptInv'
    BY <1>0, <1>2, FlightKept, ReceiptKept DEF PoolLoaded
  <2> QED
    BY <2>2, <2>3
<1>3. CASE PoolFailed
  <2>1. NoPool \in PoolStates
    BY DEF PoolStates
  <2>2. PageInv'
    BY <1>0, <1>3, <2>1, PageChanges DEF PoolFailed
  <2>3. FlightInv' /\ ReceiptInv'
    BY <1>0, <1>3, FlightKept, ReceiptKept DEF PoolFailed
  <2> QED
    BY <2>2, <2>3
<1>4. CASE FlipSwap
  BY <1>0, <1>4, <1>e, FormFields DEF FlipSwap
<1>5. CASE TypeNonsense
  <2>1. PageInv'
    BY <1>0, <1>5, PageChanges DEF TypeNonsense, PageInv, QuoteIsCurrent
  <2>2. FlightInv' /\ ReceiptInv'
    BY <1>0, <1>5, FlightKept, ReceiptKept DEF TypeNonsense
  <2> QED
    BY <2>1, <2>2
<1>6. ASSUME NEW a \in SwapAssets, SetFromToken(a) \/ SetToToken(a) PROVE SwapInv'
  BY <1>0, <1>6, <1>e, FormFields DEF SetFromToken, SetToToken
<1>7. ASSUME NEW x \in SwapAmounts, SetAmount(x) PROVE SwapInv'
  BY <1>0, <1>7, <1>e, FormFields DEF SetAmount
<1>8. ASSUME NEW k \in Slippages, SetSlippage(k) PROVE SwapInv'
  <2>1. [form EXCEPT !.slippage = k] \in Forms
    BY <1>0, FormFields
  <2>2. PageInv'
    BY <1>0, <1>8, <2>1, PageChanges DEF SetSlippage, Recomputed
  <2>3. FlightInv' /\ ReceiptInv'
    BY <1>0, <1>8, FlightKept, ReceiptKept DEF SetSlippage
  <2> QED
    BY <2>2, <2>3
<1>9. CASE RequestSwap
  <2>1. PageInv' /\ ReceiptInv'
    BY <1>0, <1>9, PageKept, ReceiptKept DEF RequestSwap
  <2> QED
    BY <1>0, <1>9, <2>1, FlightRequested
<1>10. CASE Cancel
  <2>1. PageInv' /\ ReceiptInv'
    BY <1>0, <1>10, PageKept, ReceiptKept DEF Cancel
  <2>2. FlightInv'
    BY <1>0, <1>10, NoRequestOK DEF Cancel, FlightInv
  <2> QED
    BY <2>1, <2>2
<1>11. CASE DispatchAuthorizedSwap
  <2>1. PageInv' /\ ReceiptInv'
    BY <1>0, <1>11, PageKept, ReceiptKept DEF DispatchAuthorizedSwap
  <2> QED
    BY <1>0, <1>11, <2>1, FlightDispatched
<1>12. CASE NewIdentity
  <2>1. PageInv'
    BY <1>0, <1>c, <1>12, PageChanges DEF NewIdentity, Cleared
  <2>2. FlightInv'
    BY <1>0, <1>12, NoRequestOK DEF NewIdentity, FlightInv, Confirmed
  <2>3. ReceiptInv'
    BY <1>12, NoReceiptOK, FS_EmptySet, SwapAssumptions DEF NewIdentity, ReceiptInv, RowsOK, SettledOK
  <2> QED
    BY <2>1, <2>2, <2>3
<1>13. CASE OwnRow
  <2> DEFINE r == [lt |-> Cardinality(rows) + 1, kind |-> "out", n |-> receipt.n,
                   asset |-> receipt.from, to |-> receipt.to, bounced |-> FALSE]
  <2>1. Cardinality(rows) + 1 \in Nat
    BY <1>0, FS_CardinalityType DEF ReceiptInv, RowsOK
  <2>2. r \in RowRecords
    BY <1>0, <2>1 DEF ReceiptInv, RowRecords, Receipts
  <2>3. Merge(r) /\ r.lt = Cardinality(rows) + 1 /\ SentRow(rows, r.n) = {}
    BY <1>13 DEF OwnRow
  <2>4. ReceiptInv'
    BY <1>0, <2>2, <2>3, Merged
  <2>5. PageInv' /\ FlightInv'
    BY <1>0, <2>3, PageKept, FlightKept DEF Merge
  <2> QED
    BY <2>4, <2>5
<1>14. ASSUME NEW r \in flying, Finished(r) PROVE SwapInv'
  <2>1. PageInv'
    BY <1>0, <1>c, <1>14, PageChanges DEF Finished, Cleared
  <2>2. FlightInv'
    BY <1>0, <1>14, FlightLands DEF Finished
  <2>3. ReceiptInv'
    <3>1. r \in Requests /\ intent \in Requests
      BY <1>0, <1>14 DEF FlightInv, Confirmed
    <3> DEFINE rc == [n |-> r.n, from |-> intent.from, to |-> intent.to, settledBy |-> 0]
    <3>2. 0 \in 0..MaxSwapRows
      BY SwapAssumptions
    <3>3. rc \in Receipts /\ rc.settledBy = 0
      BY <3>1, <3>2 DEF Receipts, Requests
    <3> HIDE DEF rc
    <3>4. SettledOK(rc, rows) /\ SettledOK(NoReceipt, rows)
      BY <3>3, NoReceiptOK DEF SettledOK
    <3>5. receipt' \in Receipts /\ SettledOK(receipt', rows)
      <4>1. receipt' = NoReceipt \/ receipt' = Reconciled(rc, rows)
        BY <1>14 DEF Finished, rc
      <4>2. RowsOK(rows)
        BY <1>0 DEF ReceiptInv
      <4> QED
        BY <3>3, <3>4, <4>1, <4>2, ReconciledOK, NoReceiptOK
    <3>6. rows' = rows /\ RowsOK(rows)
      BY <1>0, <1>14 DEF Finished, ReceiptInv
    <3> QED
      BY <3>5, <3>6 DEF ReceiptInv
  <2> QED
    BY <2>1, <2>2, <2>3
<1>15. ASSUME NEW r \in flying, NotSent(r) PROVE SwapInv'
  <2>1. PageInv' /\ ReceiptInv'
    BY <1>0, <1>15, PageKept, ReceiptKept DEF NotSent
  <2>2. FlightInv'
    BY <1>0, <1>15, FlightLands DEF NotSent
  <2> QED
    BY <2>1, <2>2
<1>16. ASSUME NEW paid \in rows, NEW bounced \in BOOLEAN, PoolAnswers(paid, bounced) PROVE SwapInv'
  <2> DEFINE r == [lt |-> Cardinality(rows) + 1, kind |-> "in", n |-> paid.n,
                   asset |-> IF bounced THEN paid.asset ELSE paid.to,
                   to |-> NoSwap, bounced |-> bounced]
  <2>1. Cardinality(rows) + 1 \in Nat
    BY <1>0, FS_CardinalityType DEF ReceiptInv, RowsOK
  <2>2. paid.n \in 0..MaxSwaps /\ paid.asset \in Sides /\ paid.to \in Sides /\ NoSwap \in Sides
    BY <1>0 DEF ReceiptInv, RowsOK, RowRecords, Sides
  <2>3. r \in RowRecords
    BY <2>1, <2>2 DEF RowRecords
  <2>4. Merge(r) /\ r.lt = Cardinality(rows) + 1 /\ r.kind # "out"
    BY <1>16 DEF PoolAnswers
  <2>5. ReceiptInv'
    BY <1>0, <2>3, <2>4, Merged
  <2>6. PageInv' /\ FlightInv'
    BY <1>0, <2>4, PageKept, FlightKept DEF Merge
  <2> QED
    BY <2>5, <2>6
<1> QED
  BY <1>1, <1>2, <1>3, <1>4, <1>5, <1>6, <1>7, <1>8, <1>9, <1>10, <1>11, <1>12, <1>13, <1>14,
     <1>15, <1>16
  DEF SwapNext

\* The invariant of the swap, for any assets, pools, amounts and tolerances.
THEOREM SwapInvariant == SwapSpec => []SwapInv
  BY SwapFirst, SwapStep, PTL DEF SwapSpec

\* From the receipt's part: a receipt was settled by one row, which came after
\* its swap's own; when every other answer came before that, it is the swap's.
LEMMA OwnReceipt == ReceiptInv => ReceiptIsOwn
<1> SUFFICES ASSUME ReceiptInv, NEW paid \in SentRow(rows, receipt.n), NEW r \in rows,
                    receipt.settledBy = r.lt,
                    \A q \in rows : (q.kind = "in" /\ q.n # receipt.n) => q.lt < paid.lt
             PROVE  r.n = receipt.n
  BY DEF ReceiptIsOwn
<1>1. receipt.settledBy # 0 /\ r.lt \in Nat
  BY DEF ReceiptInv, RowsOK, RowRecords
<1>2. PICK s \in rows : /\ s.lt = receipt.settledBy /\ s.kind = "in"
                        /\ \E own \in SentRow(rows, receipt.n) : Later(s, own)
  BY <1>1 DEF ReceiptInv, SettledOK
<1>3. s = r
  BY <1>2 DEF ReceiptInv, RowsOK
<1>4. PICK own \in SentRow(rows, receipt.n) : Later(r, own)
  BY <1>2, <1>3
<1>5. own = paid /\ paid \in rows
  BY <1>4 DEF ReceiptInv, RowsOK, SentRow
<1>6. paid.lt \in Nat /\ r.lt > paid.lt
  BY <1>4, <1>5 DEF ReceiptInv, RowsOK, RowRecords, Later
<1> QED
  BY <1>1, <1>2, <1>3, <1>6

\* A swap is signed with the limit that follows from the figures confirmed, from
\* a quote of the form and the pool on screen that the pool can pay by the
\* constant product (quote_swap, request_swap, dispatch_authorized_swap), and
\* its receipt is settled by its own payout (reconcile_swap_receipt).
THEOREM SwapConfirmed == SwapSpec => []SwapAsConfirmed
<1>1. SwapInv => SwapAsConfirmed
  <2> SUFFICES ASSUME SwapInv PROVE SwapAsConfirmed
    OBVIOUS
  <2>1. SwapTypeOK
    <3>1. quote.ok \in BOOLEAN
      BY PageQuote DEF SwapInv, Quotes
    <3>2. Cardinality(flying) <= 1
      <4>1. CASE flying = {}
        BY <4>1, FS_EmptySet
      <4>2. CASE flying # {}
        <5>1. PICK r : flying = {r}
          BY <4>2 DEF SwapInv, FlightInv
        <5> QED
          BY <5>1, FS_Singleton
      <4> QED
        BY <4>1, <4>2
    <3>3. pending.from \in SwapAssets \cup {NoSwap} /\ intent.n \in 0..MaxSwaps
      BY DEF SwapInv, FlightInv, Confirmed, Requests, Sides
    <3>4. /\ receipt.n \in 0..MaxSwaps /\ receipt.settledBy \in 0..MaxSwapRows
          /\ Cardinality(rows) <= MaxSwapRows
      BY DEF SwapInv, ReceiptInv, Receipts, RowsOK
    <3> QED
      BY <3>1, <3>2, <3>3, <3>4 DEF SwapTypeOK, SwapInv, PageInv, FlightInv, Forms, PoolStates
  <2>2. QuoteIsCurrent /\ QuoteIsSafe
    BY PageQuote DEF SwapInv, PageInv
  <2>3. SignedAsConfirmed
    BY DEF SwapInv, FlightInv, Confirmed, SignedAsConfirmed
  <2>4. ReceiptIsOwn
    BY OwnReceipt DEF SwapInv
  <2> QED
    BY <2>1, <2>2, <2>3, <2>4 DEF SwapAsConfirmed
<1> QED
  BY <1>1, SwapInvariant, PTL

-----------------------------------------------------------------------------
(* TraceWalk: the invariant.                                               *)

\* p leads from the transaction asked for up to where the climb came, n causes
\* further.
IsPath(p, n) ==
    /\ p \in [0..n -> Txs] /\ p[0] = focus /\ p[n] = root
    /\ \A i \in 0..n : i < n => cause[p[i]] = p[i + 1]

\* A transaction is caused by an earlier one.
Forest == \A t \in Txs : cause[t] < t

\* What a walk has read is a tree below root: everything else was caused by a
\* node of it, whose messages have been asked for; the level being read was
\* caused by the frontier and is in none of the levels above it.
NodesOK ==
    /\ \A t \in nodes : t >= root /\ (t # root => cause[t] \in nodes)
    /\ pc = "climb" => nodes = {} /\ frontier = {} /\ asked = {} /\ depth = 0
    /\ pc = "level" => asked = {}
    /\ pc = "level" => \A t \in nodes : t # root => cause[t] \notin frontier
    /\ pc = "join" =>
        /\ \A t \in asked \cup next : cause[t] \in frontier
        /\ asked \cap nodes = {} /\ frontier \cap next = {}
        /\ \A t \in nodes : t # root => cause[t] \notin next /\ (cause[t] \in frontier => t \in next)

\* Every message of a node above the present level was followed, unless the walk
\* says that it was cut; during a level, those of the frontier are too.
FollowedOK ==
    ~truncated =>
        /\ pc = "level" => \A u \in Txs : cause[u] \in nodes \ frontier => u \in nodes \cup missed
        /\ pc = "join"  => \A u \in Txs : cause[u] \in nodes \ next => u \in nodes \cup missed \cup asked

\* What is asked for has room.
RoomOK == Cardinality(nodes) + Cardinality(asked) <= MaxTxs

\* The answers of this level will fill the trace, or one is missing already.
Full == missed # {} \/ Cardinality(nodes) + Cardinality(asked) = MaxTxs

\* The descent follows the path back, until it is at the transaction asked for.
Underway(p) ==
    /\ pc = "level" => focus \in nodes \/ Full
                       \/ (depth < climbed /\ p[climbed - depth] \in frontier)
    /\ pc = "join"  => focus \in nodes \/ Full
                       \/ (depth <= climbed /\ p[climbed - depth] \in asked \cup next)
    /\ pc = "done"  => focus \in nodes \/ missed # {} \/ Cardinality(nodes) = MaxTxs

\* The inductive invariant of the trace.
TraceInv ==
    /\ TraceTypeOK /\ Forest /\ NodesOK /\ FollowedOK /\ RoomOK /\ CompleteUnlessTruncated
    /\ \E p \in [0..climbed -> Txs] : IsPath(p, climbed) /\ Underway(p)

\* Sets of transactions are finite.
LEMMA FiniteTxs ==
    ASSUME NEW S, S \subseteq Txs
    PROVE  IsFiniteSet(S) /\ Cardinality(S) \in Nat
<1>1. IsFiniteSet(Txs)
  BY TraceAssumptions, FS_Interval DEF Txs
<1> QED
  BY <1>1, FS_Subset, FS_CardinalityType

\* A message of a node leads to a transaction later than the root.
LEMMA BelowRoot ==
    ASSUME TraceTypeOK, Forest, NodesOK, NEW t \in Txs, cause[t] \in nodes
    PROVE  t > root /\ t # root /\ cause[t] # t /\ t >= root
<1>1. cause[t] \in Txs /\ root \in Txs /\ cause[t] < t /\ cause[t] >= root
  BY DEF TraceTypeOK, Forest, NodesOK
<1>2. \A u \in Txs : u \in Int
  BY TraceAssumptions DEF Txs
<1> QED
  BY <1>1, <1>2

\* A step that leaves the climb alone leaves its path a path.
LEMMA SamePath ==
    ASSUME NEW p, IsPath(p, climbed), UNCHANGED <<cause, focus, root, climbed>>
    PROVE  IsPath(p, climbed)'
  BY DEF IsPath

LEMMA TraceInitInv ==
    ASSUME TraceInit
    PROVE  TraceInv
<1> USE TraceAssumptions
<1>1. Cardinality(nodes) = 0 /\ Cardinality(asked) = 0
  BY FS_EmptySet DEF TraceInit
<1>2. TraceTypeOK
  <2>1. cause \in [Txs -> Txs \cup {NoTx}] /\ pruned \subseteq Txs /\ focus \in Txs /\ root = focus
    BY DEF TraceInit
  <2>2. /\ missed = {} /\ nodes = {} /\ frontier = {} /\ asked = {} /\ next = {}
        /\ climbed = 0 /\ depth = 0 /\ pc = "climb" /\ truncated = FALSE
    BY DEF TraceInit
  <2>3. climbed \in 0..MaxClimb /\ depth \in 0..MaxDepth /\ Cardinality(nodes) <= MaxTxs
    BY <1>1, <2>2
  <2>4. /\ missed \subseteq Txs /\ nodes \subseteq Txs /\ frontier \subseteq nodes /\ asked \subseteq Txs
        /\ next \subseteq nodes /\ truncated \in BOOLEAN /\ root \in Txs
    BY <2>1, <2>2
  <2> QED
    BY <2>1, <2>2, <2>3, <2>4 DEF TraceTypeOK
<1>3. Forest /\ NodesOK /\ FollowedOK /\ CompleteUnlessTruncated
  BY DEF TraceInit, Forest, NodesOK, FollowedOK, CompleteUnlessTruncated
<1>4. RoomOK
  BY <1>1 DEF RoomOK
<1> DEFINE p == [i \in 0..0 |-> focus]
<1>5. p \in [0..climbed -> Txs] /\ IsPath(p, climbed) /\ Underway(p)
  BY DEF TraceInit, IsPath, Underway
<1> HIDE DEF p
<1> QED
  BY <1>2, <1>3, <1>4, <1>5 DEF TraceInv

\* One step up: the path is longer by one cause.
LEMMA ClimbStep ==
    ASSUME TraceInv, Climb
    PROVE  TraceInv'
<1> USE TraceAssumptions
<1>1. TraceTypeOK /\ Forest /\ NodesOK /\ FollowedOK /\ RoomOK /\ CompleteUnlessTruncated
  BY DEF TraceInv
<1>2. PICK p \in [0..climbed -> Txs] : IsPath(p, climbed) /\ Underway(p)
  BY DEF TraceInv
<1>3. /\ pc = "climb" /\ climbed < MaxClimb /\ cause[root] # NoTx /\ root' = cause[root] /\ climbed' = climbed + 1
      /\ UNCHANGED <<cause, pruned, missed, focus, pc, nodes, frontier, depth, asked, next, truncated>>
  BY DEF Climb, MayClimb, Climbable
<1>4. cause[root] \in Txs /\ climbed \in Nat
  BY <1>1, <1>3 DEF TraceTypeOK
<1>5. TraceTypeOK'
  BY <1>1, <1>3, <1>4 DEF TraceTypeOK
<1>6. Forest' /\ NodesOK' /\ FollowedOK' /\ RoomOK' /\ CompleteUnlessTruncated'
  BY <1>1, <1>3 DEF Forest, NodesOK, FollowedOK, RoomOK, CompleteUnlessTruncated, Unexecuted
<1>7. PICK q \in [0..(climbed + 1) -> Txs] :
            /\ q[climbed + 1] = cause[root]
            /\ \A i \in 0..climbed : q[i] = p[i]
  <2> DEFINE longer == [i \in 0..(climbed + 1) |-> IF i <= climbed THEN p[i] ELSE cause[root]]
  <2>1. longer \in [0..(climbed + 1) -> Txs]
    BY <1>4
  <2>2. longer[climbed + 1] = cause[root] /\ \A i \in 0..climbed : longer[i] = p[i]
    BY <1>4
  <2> QED
    BY <2>1, <2>2
<1>8. ASSUME NEW i \in 0..(climbed + 1), i < climbed + 1 PROVE cause[q[i]] = q[i + 1]
  <2>1. CASE i = climbed
    BY <1>2, <1>4, <1>7, <2>1 DEF IsPath
  <2>2. CASE i < climbed
    <3>1. i \in 0..climbed /\ i + 1 \in 0..climbed
      BY <1>4, <1>8, <2>2
    <3> QED
      BY <1>2, <1>7, <2>2, <3>1 DEF IsPath
  <2> QED
    BY <1>4, <1>8, <2>1, <2>2
<1>9. q[0] = focus
  BY <1>2, <1>4, <1>7 DEF IsPath
<1>10. IsPath(q, climbed)'
  BY <1>3, <1>7, <1>8, <1>9 DEF IsPath
<1>11. Underway(q)'
  BY <1>3 DEF Underway
<1> QED
  BY <1>3, <1>5, <1>6, <1>7, <1>10, <1>11 DEF TraceInv

\* The walk down starts with the transaction the climb came to.
LEMMA TopStep ==
    ASSUME TraceInv, Top
    PROVE  TraceInv'
<1> USE TraceAssumptions
<1>1. TraceTypeOK /\ Forest /\ NodesOK /\ FollowedOK /\ RoomOK /\ CompleteUnlessTruncated
  BY DEF TraceInv
<1>2. PICK p \in [0..climbed -> Txs] : IsPath(p, climbed) /\ Underway(p)
  BY DEF TraceInv
<1>3. /\ pc = "climb" /\ nodes' = {root} /\ frontier' = {root} /\ pc' = "level"
      /\ UNCHANGED <<cause, pruned, missed, focus, root, climbed, depth, asked, next, truncated>>
  BY DEF Top
<1>4. asked = {} /\ depth = 0 /\ root \in Txs /\ next = {} /\ climbed \in Nat
  BY <1>1, <1>3 DEF NodesOK, TraceTypeOK
<1>5. Cardinality(nodes') = 1 /\ Cardinality(asked') = 0
  BY <1>3, <1>4, FS_Singleton, FS_EmptySet
<1>6. TraceTypeOK' /\ RoomOK'
  BY <1>1, <1>3, <1>4, <1>5 DEF TraceTypeOK, RoomOK
<1>7. Forest' /\ NodesOK' /\ FollowedOK' /\ CompleteUnlessTruncated'
  BY <1>1, <1>3, <1>4 DEF Forest, NodesOK, FollowedOK, CompleteUnlessTruncated
<1>8. IsPath(p, climbed)'
  BY <1>2, <1>3, SamePath
<1>9. Underway(p)'
  BY <1>2, <1>3, <1>4 DEF Underway, IsPath
<1> QED
  BY <1>2, <1>3, <1>6, <1>7, <1>8, <1>9 DEF TraceInv

\* A walk that ends as Finish says: a full trace, or nothing left to ask for.
LEMMA FinishStep ==
    ASSUME TraceInv, pc = "level", NEW cut \in BOOLEAN, Finish(cut), ~cut => Pending(frontier) = {},
           \/ Cardinality(nodes) = MaxTxs
           \/ depth = MaxDepth \/ Pending(frontier) = {}
    PROVE  TraceInv'
<1> USE TraceAssumptions
<1>1. TraceTypeOK /\ Forest /\ NodesOK /\ FollowedOK /\ RoomOK /\ CompleteUnlessTruncated
  BY DEF TraceInv
<1>2. PICK p \in [0..climbed -> Txs] : IsPath(p, climbed) /\ Underway(p)
  BY DEF TraceInv
<1>3. /\ pc' = "done" /\ truncated' = (truncated \/ cut)
      /\ UNCHANGED <<cause, pruned, missed, focus, root, climbed, nodes, frontier, depth, asked, next>>
  BY DEF Finish
<1>4. asked = {} /\ Cardinality(asked) = 0 /\ Cardinality(nodes) \in Nat
  BY <1>1, FS_EmptySet, FiniteTxs DEF NodesOK, TraceTypeOK
<1>5. TraceTypeOK' /\ RoomOK'
  BY <1>1, <1>3 DEF TraceTypeOK, RoomOK
<1>6. Forest' /\ NodesOK' /\ FollowedOK'
  BY <1>1, <1>3 DEF Forest, NodesOK, FollowedOK
<1>7. CompleteUnlessTruncated'
  <2>1. SUFFICES ASSUME ~truncated, ~cut, NEW u \in Txs, cause[u] \in nodes, u \notin nodes
                 PROVE  u \in missed
    BY <1>3 DEF CompleteUnlessTruncated, Unexecuted
  <2>2. cause[u] \notin frontier
    BY <2>1 DEF Pending, Children
  <2> QED
    BY <1>1, <2>1, <2>2 DEF FollowedOK
<1>8. IsPath(p, climbed)'
  BY <1>2, <1>3, SamePath
<1>9. Underway(p)'
  <2>1. SUFFICES focus \in nodes \/ missed # {} \/ Cardinality(nodes) = MaxTxs
    BY <1>3 DEF Underway
  <2>2. CASE depth < climbed /\ p[climbed - depth] \in frontier
    <3>1. depth \in Nat /\ climbed \in Nat /\ climbed <= MaxDepth /\ depth # MaxDepth
      BY <1>1, <2>2 DEF TraceTypeOK
    <3>2. PICK i \in 0..climbed : i = climbed - depth - 1 /\ i < climbed /\ i + 1 = climbed - depth
      BY <2>2, <3>1
    <3>3. p[i] \in Txs /\ cause[p[i]] = p[climbed - depth]
      BY <1>2, <3>2 DEF IsPath
    <3>4. p[i] \in Pending(frontier)
      BY <2>2, <3>3 DEF Pending, Children
    <3> QED
      BY <3>1, <3>4
  <2> QED
    BY <1>2, <1>4, <2>2 DEF Underway, Full
<1> QED
  BY <1>2, <1>3, <1>5, <1>6, <1>7, <1>8, <1>9 DEF TraceInv

\* A level: its requests follow every message of the frontier, or are cut to the
\* room that is left.
LEMMA LevelStep ==
    ASSUME TraceInv, Level
    PROVE  TraceInv'
<1> USE TraceAssumptions
<1>1. TraceTypeOK /\ Forest /\ NodesOK /\ FollowedOK /\ RoomOK /\ CompleteUnlessTruncated
  BY DEF TraceInv
<1>2. PICK p \in [0..climbed -> Txs] : IsPath(p, climbed) /\ Underway(p)
  BY DEF TraceInv
<1>3. /\ pc = "level" /\ depth < MaxDepth /\ asked = {} /\ Cardinality(asked) = 0
      /\ Cardinality(nodes) \in Nat /\ Cardinality(nodes) <= MaxTxs
      /\ depth \in Nat /\ climbed \in Nat
  BY <1>1, FS_EmptySet, FiniteTxs DEF Level, NodesOK, TraceTypeOK
<1>4. CASE Room = 0
  <2>1. Finish(TRUE)
    BY <1>4 DEF Level
  <2>2. Cardinality(nodes) = MaxTxs
    BY <1>3, <1>4 DEF Room
  <2> QED
    BY <1>3, <2>1, <2>2, FinishStep
<1>5. CASE Room # 0
  <2>1. PICK room \in Nat : room = Room /\ room = MaxTxs - Cardinality(nodes)
    BY <1>3 DEF Room
  <2>2. /\ asked' \subseteq Pending(frontier)
        /\ \/ Cardinality(asked') = room /\ truncated' = TRUE
           \/ asked' = Pending(frontier) /\ Cardinality(Pending(frontier)) <= room /\ truncated' = truncated
        /\ depth' = depth + 1 /\ next' = {} /\ pc' = "join"
        /\ UNCHANGED <<cause, pruned, missed, focus, root, climbed, nodes, frontier>>
    <3>1. Pending(frontier) \subseteq Txs
      BY DEF Pending, Children
    <3>2. PICK n \in Nat : n = Cardinality(Pending(frontier))
      BY <3>1, FiniteTxs
    <3>3. truncated \in BOOLEAN
      BY <1>1 DEF TraceTypeOK
    <3>4. CASE n > room
      BY <1>5, <2>1, <3>2, <3>3, <3>4 DEF Level
    <3>5. CASE n <= room
      BY <1>5, <2>1, <3>2, <3>3, <3>5 DEF Level
    <3>6. n > room \/ n <= room
      BY <2>1, <3>2
    <3> QED
      BY <3>4, <3>5, <3>6
  <2>3. \A t \in Pending(frontier) : t \in Txs /\ cause[t] \in frontier
    BY DEF Pending, Children
  <2>4. \A t \in Txs : cause[t] \in frontier => t \in Pending(frontier)
    BY DEF Pending, Children
  <2>5. Cardinality(asked') <= room /\ Cardinality(asked') \in Nat /\ asked' \subseteq Txs
    <3>1. asked' \subseteq Txs
      BY <2>2, <2>3
    <3> QED
      BY <2>1, <2>2, <3>1, FiniteTxs
  <2>6. TraceTypeOK' /\ RoomOK'
    <3>1. truncated' \in BOOLEAN
      BY <1>1, <2>2 DEF TraceTypeOK
    <3>2. RoomOK'
      BY <1>3, <2>1, <2>2, <2>5 DEF RoomOK
    <3> QED
      BY <1>1, <1>3, <2>2, <2>5, <3>1, <3>2 DEF TraceTypeOK
  <2>7. Forest' /\ CompleteUnlessTruncated'
    BY <1>1, <2>2 DEF Forest, CompleteUnlessTruncated
  <2>8. NodesOK'
    <3>1. ASSUME NEW t \in asked' PROVE t \notin nodes
      <4>1. t \in Txs /\ cause[t] \in frontier /\ cause[t] \in nodes /\ cause[t] < t
        BY <1>1, <2>2, <2>3 DEF TraceTypeOK, Forest
      <4>2. t # root
        BY <1>1, <4>1, BelowRoot
      <4> QED
        BY <1>1, <1>3, <4>1, <4>2 DEF NodesOK
    <3> QED
      BY <1>1, <1>3, <2>2, <2>3, <3>1 DEF NodesOK
  <2>9. FollowedOK'
    <3>1. SUFFICES ASSUME ~truncated', NEW u \in Txs, cause[u] \in nodes
                   PROVE  u \in nodes \cup missed \cup asked'
      BY <2>2 DEF FollowedOK
    <3>2. ~truncated /\ asked' = Pending(frontier)
      BY <2>2, <3>1
    <3> QED
      BY <1>1, <1>3, <2>4, <3>1, <3>2 DEF FollowedOK
  <2>10. IsPath(p, climbed)'
    BY <1>2, <2>2, SamePath
  <2>11. Underway(p)'
    <3>1. CASE focus \in nodes \/ Full
      <4>1. CASE Full
        BY <1>3, <1>5, <2>1, <2>2, <4>1 DEF Full, Underway
      <4> QED
        BY <2>2, <3>1, <4>1 DEF Underway
    <3>2. CASE depth < climbed /\ p[climbed - depth] \in frontier
      <4>1. PICK i \in 0..climbed : i = climbed - (depth + 1) /\ i < climbed /\ i + 1 = climbed - depth
        BY <1>3, <3>2
      <4>2. p[i] \in Txs /\ cause[p[i]] = p[climbed - depth]
        BY <1>2, <4>1 DEF IsPath
      <4>3. p[i] \in Pending(frontier)
        BY <2>4, <3>2, <4>2
      <4>4. CASE asked' = Pending(frontier)
        <5>1. depth + 1 <= climbed /\ p[climbed - (depth + 1)] \in asked'
          BY <1>3, <3>2, <4>1, <4>3, <4>4
        <5> QED
          BY <2>2, <5>1 DEF Underway
      <4>5. CASE Cardinality(asked') = room
        <5>1. Full'
          BY <1>3, <2>1, <2>2, <4>5 DEF Full
        <5> QED
          BY <2>2, <5>1 DEF Underway
      <4> QED
        BY <2>2, <4>4, <4>5
    <3> QED
      BY <1>2, <1>3, <3>1, <3>2 DEF Underway
  <2> QED
    BY <1>2, <2>2, <2>6, <2>7, <2>8, <2>9, <2>10, <2>11 DEF TraceInv
<1> QED
  BY <1>4, <1>5

\* One answer of a level: a node more, or a message without a transaction.
LEMMA JoinStep ==
    ASSUME TraceInv, Join
    PROVE  TraceInv'
<1> USE TraceAssumptions
<1>1. TraceTypeOK /\ Forest /\ NodesOK /\ FollowedOK /\ RoomOK /\ CompleteUnlessTruncated
  BY DEF TraceInv
<1>2. PICK p \in [0..climbed -> Txs] : IsPath(p, climbed) /\ Underway(p)
  BY DEF TraceInv
<1>3. PICK t \in asked :
        /\ asked' = asked \ {t}
        /\ \/ nodes' = nodes \cup {t} /\ next' = next \cup {t} /\ missed' = missed
           \/ missed' = missed \cup {t} /\ nodes' = nodes /\ next' = next
  BY DEF Join
<1>4. /\ pc = "join" /\ pc' = "join"
      /\ UNCHANGED <<cause, pruned, focus, root, climbed, frontier, depth, truncated>>
  BY DEF Join
<1>5. /\ t \in Txs /\ t \notin nodes /\ cause[t] \in frontier /\ cause[t] \in nodes /\ cause[t] < t
      /\ asked \subseteq Txs /\ nodes \subseteq Txs /\ t \notin frontier
  BY <1>1, <1>3, <1>4 DEF TraceTypeOK, Forest, NodesOK
<1>6. t >= root /\ cause[t] # t /\ t # root
  BY <1>1, <1>5, BelowRoot
<1>7. PICK a \in Nat, n \in Nat :
        /\ a = Cardinality(asked) /\ n = Cardinality(nodes)
        /\ Cardinality(asked \ {t}) = a - 1 /\ Cardinality(nodes \cup {t}) = n + 1
  <2>1. /\ IsFiniteSet(asked) /\ Cardinality(asked) \in Nat
        /\ IsFiniteSet(nodes) /\ Cardinality(nodes) \in Nat
    BY <1>5, FiniteTxs
  <2>2. Cardinality(asked \ {t}) = Cardinality(asked) - 1
    BY <1>3, <2>1, FS_RemoveElement
  <2>3. Cardinality(nodes \cup {t}) = Cardinality(nodes) + 1
    BY <1>5, <2>1, FS_AddElement
  <2> QED
    BY <2>1, <2>2, <2>3
<1>8. /\ Cardinality(asked') = a - 1
      /\ nodes' = nodes \cup {t} => Cardinality(nodes') = n + 1
      /\ nodes' = nodes => Cardinality(nodes') = n
  BY <1>3, <1>7
<1>9. RoomOK' /\ TraceTypeOK'
  <2>1. a + n <= MaxTxs /\ a >= 1
    <3>1. asked \ {t} \subseteq Txs
      BY <1>5
    <3>2. a - 1 \in Nat
      BY <1>7, <3>1, FiniteTxs
    <3> QED
      BY <1>1, <1>7, <3>2 DEF RoomOK
  <2>2. Cardinality(nodes') = n \/ Cardinality(nodes') = n + 1
    BY <1>3, <1>8
  <2>3. RoomOK' /\ Cardinality(nodes') <= MaxTxs
    BY <1>8, <2>1, <2>2 DEF RoomOK
  <2> QED
    BY <1>1, <1>3, <1>4, <1>5, <2>3 DEF TraceTypeOK
<1>10. Forest' /\ CompleteUnlessTruncated'
  BY <1>1, <1>4 DEF Forest, CompleteUnlessTruncated
<1>11. NodesOK'
  <2>1. CASE nodes' = nodes \cup {t} /\ next' = next \cup {t}
    <3>1. \A s \in nodes' : s >= root /\ (s # root => cause[s] \in nodes)
      BY <1>1, <1>5, <1>6, <2>1 DEF NodesOK, TraceTypeOK, Txs
    <3>2. \A s \in asked' \cup next' : cause[s] \in frontier
      BY <1>1, <1>3, <1>4, <1>5, <2>1 DEF NodesOK
    <3>3. asked' \cap nodes' = {} /\ frontier \cap next' = {}
      BY <1>1, <1>3, <1>4, <1>5, <2>1 DEF NodesOK
    <3>4. ASSUME NEW s \in nodes', s # root
          PROVE  cause[s] \notin next' /\ (cause[s] \in frontier => s \in next')
      <4>1. CASE s = t
        BY <1>1, <1>4, <1>5, <1>6, <2>1, <4>1 DEF NodesOK
      <4>2. CASE s \in nodes
        <5>1. cause[s] # t
          BY <1>5, <3>1, <3>4
        <5> QED
          BY <1>1, <1>4, <2>1, <3>4, <4>2, <5>1 DEF NodesOK
      <4> QED
        BY <2>1, <4>1, <4>2
    <3> QED
      BY <1>4, <2>1, <3>1, <3>2, <3>3, <3>4 DEF NodesOK
  <2>2. CASE nodes' = nodes /\ next' = next
    BY <1>1, <1>3, <1>4, <2>2 DEF NodesOK
  <2> QED
    BY <1>3, <2>1, <2>2
<1>12. FollowedOK'
  BY <1>1, <1>3, <1>4 DEF FollowedOK
<1>13. IsPath(p, climbed)'
  BY <1>2, <1>4, SamePath
<1>14. Underway(p)'
  <2>1. CASE missed' # {}
    BY <1>4, <2>1 DEF Underway, Full
  <2>2. CASE nodes' = nodes \cup {t} /\ next' = next \cup {t} /\ missed' = missed
    <3>1. Full => Full'
      BY <1>7, <1>8, <2>2 DEF Full
    <3>2. p[climbed - depth] \in asked \cup next => p[climbed - depth] \in asked' \cup next'
      BY <1>3, <2>2
    <3> QED
      BY <1>2, <1>4, <2>2, <3>1, <3>2 DEF Underway
  <2> QED
    BY <1>3, <2>1, <2>2
<1> QED
  BY <1>2, <1>4, <1>9, <1>10, <1>11, <1>12, <1>13, <1>14 DEF TraceInv

\* The answers of a level are the next frontier.
LEMMA LevelEndsStep ==
    ASSUME TraceInv, LevelEnds
    PROVE  TraceInv'
<1> USE TraceAssumptions
<1>1. TraceTypeOK /\ Forest /\ NodesOK /\ FollowedOK /\ RoomOK /\ CompleteUnlessTruncated
  BY DEF TraceInv
<1>2. PICK p \in [0..climbed -> Txs] : IsPath(p, climbed) /\ Underway(p)
  BY DEF TraceInv
<1>3. /\ pc = "join" /\ asked = {} /\ frontier' = next /\ pc' = "level"
      /\ UNCHANGED <<cause, pruned, missed, focus, root, climbed, nodes, depth, asked, next, truncated>>
  BY DEF LevelEnds
<1>4. TraceTypeOK' /\ RoomOK' /\ Forest' /\ CompleteUnlessTruncated'
  BY <1>1, <1>3 DEF TraceTypeOK, RoomOK, Forest, CompleteUnlessTruncated
<1>5. NodesOK' /\ FollowedOK'
  BY <1>1, <1>3 DEF NodesOK, FollowedOK
<1>6. IsPath(p, climbed)'
  BY <1>2, <1>3, SamePath
<1>7. Underway(p)'
  <2>1. CASE focus \in nodes \/ Full
    BY <1>3, <2>1 DEF Underway, Full
  <2>2. CASE depth <= climbed /\ p[climbed - depth] \in asked \cup next
    <3>1. CASE depth < climbed
      BY <1>3, <2>2, <3>1 DEF Underway
    <3>2. CASE depth = climbed
      <4>1. p[0] \in next /\ next \subseteq nodes
        BY <1>1, <1>3, <2>2, <3>2 DEF TraceTypeOK
      <4> QED
        BY <1>2, <1>3, <4>1 DEF Underway, IsPath
    <3> QED
      BY <1>1, <2>2, <3>1, <3>2 DEF TraceTypeOK
  <2> QED
    BY <1>2, <1>3, <2>1, <2>2 DEF Underway
<1> QED
  BY <1>2, <1>3, <1>4, <1>5, <1>6, <1>7 DEF TraceInv

LEMMA TraceNextInv ==
    ASSUME TraceInv, [TraceNext]_traceVars
    PROVE  TraceInv'
<1>1. CASE Climb
  BY <1>1, ClimbStep
<1>2. CASE Top
  BY <1>2, TopStep
<1>3. CASE Level
  BY <1>3, LevelStep
<1>4. CASE Join
  BY <1>4, JoinStep
<1>5. CASE JoinFails
  <2>1. /\ pc = "join" /\ pc' = "failed"
        /\ UNCHANGED <<cause, pruned, missed, focus, root, climbed, nodes, frontier, depth, asked, next, truncated>>
    BY <1>5 DEF JoinFails
  <2>2. TraceTypeOK /\ Forest /\ NodesOK /\ FollowedOK /\ RoomOK /\ CompleteUnlessTruncated
    BY DEF TraceInv
  <2>3. PICK p \in [0..climbed -> Txs] : IsPath(p, climbed) /\ Underway(p)
    BY DEF TraceInv
  <2>4. IsPath(p, climbed)' /\ Underway(p)'
    BY <2>1, <2>3 DEF IsPath, Underway
  <2>5. TraceTypeOK' /\ Forest' /\ NodesOK' /\ FollowedOK' /\ RoomOK' /\ CompleteUnlessTruncated'
    BY <2>1, <2>2 DEF TraceTypeOK, Forest, NodesOK, FollowedOK, RoomOK, CompleteUnlessTruncated
  <2> QED
    BY <2>1, <2>3, <2>4, <2>5 DEF TraceInv
<1>6. CASE LevelEnds
  BY <1>6, LevelEndsStep
<1>7. CASE Bottom
  <2>1. pc = "level" /\ (depth = MaxDepth \/ Pending(frontier) = {})
    BY <1>7 DEF Bottom
  <2>2. CASE Pending(frontier) = {}
    <3>1. Finish(FALSE)
      BY <1>7, <2>2 DEF Bottom, Finish
    <3> QED
      BY <2>1, <2>2, <3>1, FinishStep
  <2>3. CASE Pending(frontier) # {}
    <3>1. Finish(TRUE)
      BY <1>7, <2>3 DEF Bottom, Finish
    <3> QED
      BY <2>1, <3>1, FinishStep
  <2> QED
    BY <2>2, <2>3
<1>8. CASE UNCHANGED traceVars
  BY <1>8 DEF traceVars, TraceInv, TraceTypeOK, Forest, NodesOK, FollowedOK, RoomOK,
              CompleteUnlessTruncated, Unexecuted, IsPath, Underway, Full
<1> QED
  BY <1>1, <1>2, <1>3, <1>4, <1>5, <1>6, <1>7, <1>8 DEF TraceNext, Ended

\* For any tree of transactions and any limits of which the climb's is no larger
\* than the descent's, the walk keeps to TraceInv: what it has read is a tree
\* below where the climb came, every message above the present level was
\* followed, and the descent is on the way back to where the climb began.
THEOREM TraceInvariant == TraceSpec => []TraceInv
  BY TraceInitInv, TraceNextInv, PTL DEF TraceSpec

\* For any tree and such limits, a trace holds the transaction it was asked for,
\* unless it is full or a transaction was not found, and one not marked as
\* truncated has followed every message (trace_transaction).
THEOREM TraceWhole == TraceSpec => []TraceIsWhole
<1>1. TraceInv => TraceIsWhole
  BY DEF TraceInv, TraceIsWhole, FocusIsShown, Underway
<1> QED
  BY <1>1, TraceInvariant, PTL

-----------------------------------------------------------------------------
(* RecordStorage: the parts of the inductive invariant.                    *)

OpRecords ==
    [kind : {"none", "create", "put", "delete"}, id : 0..(Limit + 1), saw : Contents,
     n : 0..MaxOps, owner : Owners, session : 0..MaxLocks,
     state : {"none", "preparing", "reached", "failed", "sent"}]

\* A request names a number of the list; a delete one whose content was seen.
GoodOp(op) ==
    /\ op \in OpRecords
    /\ op.kind \in {"put", "delete"} => op.id \in Ids
    /\ op.kind = "delete" => op.saw \notin {Nothing, Junk}

GoodLists(list) == list \in Lists /\ (list.exists \/ TakenIds(list) = {})
GoodView(list) == GoodLists(list) /\ \A i \in Ids : list.cells[i] # Junk

ReadRecords == [seq : 1..MaxReads, owner : Owners, stale : BOOLEAN, read : BOOLEAN, list : Lists]

\* Requests that are signed: on their way, or at a node.
SignedOps == opsFlying \cup sent

StoreShape ==
    /\ chain \in [Owners -> [list : Lists, guard : 0..MaxOps]]
    /\ \A o \in Owners : /\ GoodLists(chain[o].list)
                         /\ Cardinality(TakenIds(chain[o].list)) <= Limit
    /\ me \in Owners /\ GoodView(shown)
    /\ loaded \in BOOLEAN /\ loading \in BOOLEAN /\ asking \in BOOLEAN /\ busy \in BOOLEAN
    /\ collided \in BOOLEAN
    /\ seq \in 0..MaxReads /\ session \in 0..MaxLocks /\ opCount \in 0..MaxOps
    /\ reads \subseteq ReadRecords /\ \A r \in reads : GoodView(r.list)
    /\ GoodOp(pendingOp) /\ (pendingOp.kind = "none" <=> pendingOp = NoOp)
    /\ pendingOp # NoOp => pendingOp.owner = me
    /\ asking => pendingOp # NoOp
    /\ GoodOp(watch) /\ (watch.kind = "none" <=> watch = NoOp) /\ watch.n <= opCount
    /\ \A op \in SignedOps : /\ GoodOp(op) /\ op.kind # "none" /\ op.state # "none"
                          /\ op.n \in 1..opCount

\* Reads are numbered apart; the last one, while it is current, is waited for.
ReadsApart ==
    /\ \A r \in reads : r.seq <= seq
    /\ \A r, q \in reads : r.seq = q.seq => r = q
    /\ \A r \in reads : ~r.stale => r.owner = me
    /\ \A r \in reads : OwnRead(r) => loading

Cell(o, i) == chain[o].list.cells[i]

\* The record x is under number i, or a put of it is signed.
Live(o, i, x) ==
    \/ x = Cell(o, i) /\ x # Nothing
    \/ \E op \in SignedOps : op.kind = "put" /\ op.owner = o /\ op.id = i /\ op.n = x

\* A record that is stored or was seen has been executed: it cannot come back.
Executed(o, x) == x \in 1..MaxOps => x <= chain[o].guard

\* The answer that will be shown, and what the user acts on: that or the list shown.
OwnReplies == {r.list : r \in {q \in reads : OwnRead(q) /\ q.read}}
Views == OwnReplies \cup {l \in {shown} : l.exists}

\* The requests, of which a delete names what was seen.
AllRequests == SignedOps \cup {pendingOp, watch}

SeenIsExecuted ==
    /\ \A o \in Owners, i \in Ids : Executed(o, Cell(o, i))
    /\ \A v \in Views, i \in Ids : Executed(me, v.cells[i])
    /\ \A op \in AllRequests : op.kind = "delete" => Executed(op.owner, op.saw)

\* Lists are shown in the order they were read.
ViewsAdvance ==
    /\ \A a \in OwnReplies : a.exists => chain[me].list.exists
    /\ shown.exists => \A a \in OwnReplies, i \in Ids :
          shown.cells[i] # Nothing /\ a.cells[i] = Nothing => Cell(me, i) # shown.cells[i]
    /\ \A op \in AllRequests : op.kind = "delete" /\ op.owner = me =>
          \A v \in Views : v.cells[op.id] = Nothing => Cell(me, op.id) # op.saw

\* A number is given to one record at a time.
OneLive == \A o \in Owners, i \in Ids : \A x, y \in Contents : Live(o, i, x) /\ Live(o, i, y) => x = y

\* What a view shows is the record its number stands for, or gone.
ViewIsLive ==
    \A v \in Views, i \in Ids : v.cells[i] # Nothing =>
        \A x \in Contents : Live(me, i, x) => x = v.cells[i]

\* A delete meets what was seen, unless a later put comes first, which the
\* replay guard prevents.
DeleteMeetsSeen ==
    /\ \A d \in SignedOps : d.kind = "delete" =>
          \A x \in Contents : Live(d.owner, d.id, x) => x = d.saw \/ (x \in 1..MaxOps /\ x > d.n)
    /\ pendingOp.kind = "delete" =>
          \A x \in Contents : Live(me, pendingOp.id, x) => x = pendingOp.saw

\* While a put waits for its dialog, nothing that is seen under its number can
\* be deleted.
PutWaits ==
    pendingOp.kind = "put" =>
        /\ \A v \in Views : v.cells[pendingOp.id] \in {Nothing, Cell(me, pendingOp.id)}
        /\ \A d \in SignedOps :
              (/\ d.kind = "delete" /\ d.owner = me /\ d.id = pendingOp.id
               /\ Cell(me, pendingOp.id) # Nothing)
              => Cell(me, pendingOp.id) \in 1..MaxOps /\ Cell(me, pendingOp.id) > d.n

\* What a number stands for is the put that was given it, or a later one.
PutIsLatest ==
    /\ \A op \in SignedOps \cup {watch} : op.kind = "put" =>
          \A x \in Contents : Live(op.owner, op.id, x) => x \in 1..MaxOps /\ x >= op.n
    /\ watch.kind = "put" /\ watch.owner = me =>
          \A a \in OwnReplies : a.cells[watch.id] # Nothing => chain[me].guard >= watch.n

KeptApart == OneLive /\ ViewIsLive /\ DeleteMeetsSeen /\ PutWaits /\ PutIsLatest

StoreIInv ==
    /\ StoreShape /\ ReadsApart /\ SeenIsExecuted /\ ViewsAdvance
    /\ ~collided => KeptApart

-----------------------------------------------------------------------------
(* next_free_id: while the list is not full, the one pass over the numbers *)
(* ends at the least number that is not taken.                             *)
LEMMA NextFreeIdIsFree ==
    ASSUME NEW taken \in SUBSET Ids, Cardinality(taken) < Limit
    PROVE  /\ NextFreeId(taken) \in Ids \ taken
           /\ \A i \in Ids \ taken : NextFreeId(taken) <= i
  <1>0. Limit \in Nat
    BY StorageAssumptions
  <1>1. Ids \ taken # {}
    <2>1. IsFiniteSet(Ids) /\ Cardinality(Ids) = Limit + 1
      BY <1>0, FS_Interval DEF Ids
    <2>2. taken # Ids
      BY <1>0, <2>1
    <2> QED
      BY <2>2
  <1>2. PICK m \in Ids \ taken : \A i \in Ids \ taken : m <= i
    <2> DEFINE T == Ids \ taken
    <2>1. T \subseteq Nat /\ T # {}
      BY <1>0, <1>1 DEF Ids
    <2> HIDE DEF T
    <2>2. \E i \in T : \A j \in T : i <= j
      BY <2>1, LeastNat
    <2> QED
      BY <2>2 DEF T
  <1>3. m \in 1..(Limit + 1) /\ m \notin taken /\ \A i \in 1..(m - 1) : i \in taken
    BY <1>0, <1>2 DEF Ids
  <1> DEFINE D == 0..(Limit + 1)
             Body(p, i) == IF i = 0 THEN 1
                           ELSE IF i \in taken THEN StepCandidate(p[i - 1], i) ELSE p[i - 1]
             w == [i \in D |-> IF i < m THEN i + 1 ELSE m]
             pass == CHOOSE p : p = [i \in D |-> Body(p, i)]
  <1>4. w = [i \in D |-> Body(w, i)]
    <2> SUFFICES ASSUME NEW i \in D PROVE w[i] = Body(w, i)
      OBVIOUS
    <2>1. CASE i = 0
      BY <1>3, <2>1
    <2>2. CASE i # 0
      <3>1. i - 1 \in D /\ i \in Nat /\ w[i - 1] = IF i - 1 < m THEN i ELSE m
        BY <1>0, <1>3, <2>2
      <3> QED
        BY <1>0, <1>3, <2>2, <3>1 DEF StepCandidate
    <2> QED
      BY <2>1, <2>2
  <1>5. pass = [i \in D |-> Body(pass, i)]
    BY <1>4
  <1> HIDE DEF w, pass, Body
  <1>6. \A i \in D : pass[i] = w[i]
    <2> DEFINE Bad == {i \in D : pass[i] # w[i]}
    <2> SUFFICES ASSUME Bad # {} PROVE FALSE
      OBVIOUS
    <2>0. Bad \subseteq Nat
      BY <1>0
    <2> HIDE DEF Bad
    <2>1. PICK i \in Bad : \A j \in Bad : i <= j
      BY <2>0, LeastNat
    <2> USE DEF Bad
    <2>2. i \in D /\ pass[i] = Body(pass, i) /\ w[i] = Body(w, i) /\ pass[i] # w[i]
      BY <1>4, <1>5, <2>1
    <2>3. i # 0
      BY <2>2 DEF Body
    <2>4. i - 1 \in D /\ i - 1 \notin Bad
      BY <1>0, <2>1, <2>2, <2>3
    <2>5. pass[i - 1] = w[i - 1]
      BY <2>4
    <2> QED
      BY <2>2, <2>5 DEF Body
  <1>7. NextFreeId(taken) = pass[Limit + 1]
    BY DEF NextFreeId, pass, Body
  <1>8. Limit + 1 \in D /\ w[Limit + 1] = m
    BY <1>0, <1>3 DEF w
  <1> QED
    BY <1>2, <1>6, <1>7, <1>8

-----------------------------------------------------------------------------
(* Steps that neither read nor execute nor sign.                           *)

\* The same request, whatever has become of it.
Twin(p, q) ==
    /\ p.kind = q.kind /\ p.id = q.id /\ p.saw = q.saw
    /\ p.n = q.n /\ p.owner = q.owner

\* What the requests and the lists may lose in such a step.
Quiet ==
    /\ me' = me /\ chain' = chain /\ collided' = collided
    /\ \A op \in SignedOps' : \E q \in SignedOps : Twin(op, q)
    /\ OwnReplies' \subseteq OwnReplies
    /\ \/ shown' = shown \/ ~shown'.exists
       \/ shown' \in OwnReplies /\ OwnReplies' = {}
    /\ pendingOp' \in {pendingOp, NoOp}
    /\ \/ watch' \in {watch, NoOp}
       \/ OwnReplies' = {} /\ \E q \in SignedOps : Twin(watch', q)

\* What was live was live before.
LEMMA QuietFacts ==
    ASSUME Quiet
    PROVE  /\ Views' \subseteq Views
           /\ \A o, i : Cell(o, i)' = Cell(o, i)
           /\ \A o, i, x : Live(o, i, x)' => Live(o, i, x)
           /\ \A op \in AllRequests' : op.kind = "none" \/ \E q \in AllRequests : Twin(op, q)
  <1>1. Views' \subseteq Views
    BY DEF Views, Quiet
  <1>2. \A o, i : Cell(o, i)' = Cell(o, i)
    BY DEF Cell, Quiet
  <1>3. \A o, i, x : Live(o, i, x)' => Live(o, i, x)
    BY <1>2 DEF Live, Quiet, Twin
  <1>4. ASSUME NEW op \in AllRequests' PROVE op.kind = "none" \/ \E q \in AllRequests : Twin(op, q)
    <2>1. NoOp.kind = "none"
      BY DEF NoOp
    <2> QED
      BY <1>4, <2>1 DEF AllRequests, Quiet, Twin
  <1> QED
    BY <1>1, <1>2, <1>3, <1>4

\* A quiet step keeps the invariant.
LEMMA QuietKeeps ==
    ASSUME Quiet, SeenIsExecuted, ViewsAdvance, ~collided => KeptApart
    PROVE  SeenIsExecuted' /\ ViewsAdvance' /\ (~collided' => KeptApart')
  <1>1. /\ Views' \subseteq Views
        /\ \A o, i : Cell(o, i)' = Cell(o, i)
        /\ \A o, i, x : Live(o, i, x)' => Live(o, i, x)
        /\ \A op \in AllRequests' : op.kind = "none" \/ \E q \in AllRequests : Twin(op, q)
    BY QuietFacts
  <1>2. \A o, x : Executed(o, x)' <=> Executed(o, x)
    BY DEF Executed, Quiet
  <1>3. SeenIsExecuted'
    BY <1>1, <1>2 DEF SeenIsExecuted, Twin, Quiet
  <1>4. ViewsAdvance'
    <2>1. \A a \in OwnReplies' : a.exists => chain[me].list.exists
      BY DEF ViewsAdvance, Quiet
    <2>2. shown'.exists => \A a \in OwnReplies', i \in Ids :
            shown'.cells[i] # Nothing /\ a.cells[i] = Nothing => Cell(me, i) # shown'.cells[i]
      BY DEF ViewsAdvance, Quiet
    <2>3. \A op \in AllRequests' : op.kind = "delete" /\ op.owner = me =>
            \A v \in Views' : v.cells[op.id] = Nothing => Cell(me, op.id) # op.saw
      BY <1>1 DEF ViewsAdvance, Twin
    <2> QED
      BY <1>1, <2>1, <2>2, <2>3 DEF ViewsAdvance, Quiet
  <1>5. ASSUME ~collided PROVE KeptApart'
    <2>1. OneLive'
      BY <1>1, <1>5 DEF KeptApart, OneLive
    <2>2. ViewIsLive'
      BY <1>1, <1>5 DEF KeptApart, ViewIsLive, Quiet
    <2>3. DeleteMeetsSeen'
      BY <1>1, <1>5 DEF KeptApart, DeleteMeetsSeen, Quiet, Twin, NoOp
    <2>4. PutWaits'
      BY <1>1, <1>5 DEF KeptApart, PutWaits, Quiet, Twin, NoOp
    <2>5. PutIsLatest'
      BY <1>1, <1>5 DEF KeptApart, PutIsLatest, Quiet, Twin, NoOp
    <2> QED
      BY <2>1, <2>2, <2>3, <2>4, <2>5 DEF KeptApart
  <1> QED
    BY <1>3, <1>4, <1>5 DEF Quiet

\* What the empty request and the empty list are.
LEMMA Empties ==
    /\ 0 \in Nat /\ NoOp.kind = "none" /\ NoOp.n = 0
    /\ \A o \in Owners : GoodOp(NoOp)
    /\ GoodView(NoList) /\ ~NoList.exists
    /\ \A i \in Ids : NoList.cells[i] = Nothing
  <1>1. {Limit, MaxOps, MaxReads, MaxLocks} \subseteq Nat
    BY StorageAssumptions
  <1>2. ASSUME NEW o \in Owners PROVE GoodOp(NoOp)
    <2>1. (CHOOSE p \in Owners : TRUE) \in Owners
      BY <1>2
    <2> QED
      BY <1>1, <2>1 DEF GoodOp, OpRecords, NoOp, Contents, Nothing
  <1>3. GoodView(NoList)
    BY <1>1 DEF GoodView, GoodLists, NoList, Lists, Contents, TakenIds, Nothing, Junk
  <1> QED
    BY <1>2, <1>3 DEF NoOp, NoList

\* A new read (refresh_storage).
LEMMA RefreshedFacts ==
    ASSUME StoreShape, ReadsApart, NEW owner \in Owners, NEW rs,
           rs \subseteq ReadRecords, \A r \in rs : GoodView(r.list) /\ r.seq <= seq,
           \A r, q \in rs : r.seq = q.seq => r = q,
           \A r \in rs : ~r.stale => r.owner = owner,
           Refreshed(owner, rs), me' = owner
    PROVE  /\ reads' \subseteq ReadRecords /\ \A r \in reads' : GoodView(r.list)
           /\ loading' \in BOOLEAN /\ seq' \in 0..MaxReads
           /\ ReadsApart' /\ OwnReplies' = {}
  <1> DEFINE new == [seq |-> seq + 1, owner |-> owner, stale |-> FALSE, read |-> FALSE,
                     list |-> NoList]
  <1>1. seq \in 0..MaxReads /\ seq < MaxReads /\ MaxReads \in Nat
    BY StorageAssumptions DEF StoreShape, Refreshed
  <1>2. new \in ReadRecords /\ GoodView(new.list)
    BY <1>1, Empties DEF ReadRecords, GoodView, GoodLists
  <1>3. /\ reads' = rs \cup {new} /\ seq' = seq + 1 /\ loading' = TRUE
        /\ new.seq = seq + 1 /\ new.owner = owner /\ ~new.read
    BY DEF Refreshed
  <1> HIDE DEF new
  <1>4. \A r \in rs : r.seq \in 1..MaxReads
    BY DEF ReadRecords
  <1>5. ReadsApart'
    BY <1>1, <1>3, <1>4 DEF ReadsApart
  <1>6. OwnReplies' = {}
    BY <1>1, <1>3, <1>4 DEF OwnReplies, OwnRead
  <1> QED
    BY <1>1, <1>2, <1>3, <1>5, <1>6

\* Reads that end leave the others as they were.
LEMMA FewerReads ==
    ASSUME reads' \subseteq reads, seq' = seq
    PROVE  OwnReplies' \subseteq OwnReplies
  BY DEF OwnReplies, OwnRead

\* Without a current read there is no answer to come.
LEMMA OutdatedFacts ==
    ASSUME StoreShape, ReadsApart
    PROVE  /\ Outdated \subseteq ReadRecords
           /\ \A r \in Outdated : GoodView(r.list) /\ r.seq <= seq /\ r.stale
           /\ \A r, q \in Outdated : r.seq = q.seq => r = q
  <1>1. ASSUME NEW r \in reads
        PROVE  /\ [r EXCEPT !.stale = TRUE] \in ReadRecords
               /\ [r EXCEPT !.stale = TRUE].list = r.list
               /\ [r EXCEPT !.stale = TRUE].seq = r.seq
               /\ [r EXCEPT !.stale = TRUE].stale
    BY <1>1 DEF StoreShape, ReadRecords
  <1>2. ASSUME NEW r \in Outdated
        PROVE  r \in ReadRecords /\ GoodView(r.list) /\ r.seq <= seq /\ r.stale
    <2>1. PICK q \in reads : r = [q EXCEPT !.stale = TRUE]
      BY <1>2 DEF Outdated
    <2> QED
      BY <1>1, <2>1 DEF StoreShape, ReadsApart
  <1>3. ASSUME NEW r \in Outdated, NEW q \in Outdated, r.seq = q.seq PROVE r = q
    <2>1. PICK s \in reads : r = [s EXCEPT !.stale = TRUE]
      BY <1>3 DEF Outdated
    <2>2. PICK t \in reads : q = [t EXCEPT !.stale = TRUE]
      BY <1>3 DEF Outdated
    <2>3. s.seq = t.seq
      BY <1>1, <1>3, <2>1, <2>2
    <2>4. s = t
      BY <2>3 DEF ReadsApart
    <2> QED
      BY <2>1, <2>2, <2>4
  <1> QED
    BY <1>2, <1>3

-----------------------------------------------------------------------------
(* One lemma per operation that is quiet.                                  *)

\* Asking for the list again is quiet: the new read has answered nothing yet.
LEMMA RefreshQuiet ==
    ASSUME StoreShape, ReadsApart, RefreshStorage
    PROVE  StoreShape' /\ ReadsApart' /\ Quiet
  <1>1. Refreshed(me, reads) /\ me' = me /\ UNCHANGED <<shown, loaded, watch, request, network, me, session>>
    BY DEF RefreshStorage
  <1>2. /\ reads' \subseteq ReadRecords /\ \A r \in reads' : GoodView(r.list)
        /\ loading' \in BOOLEAN /\ seq' \in 0..MaxReads
        /\ ReadsApart' /\ OwnReplies' = {}
    <2>1. /\ me \in Owners /\ reads \subseteq ReadRecords
          /\ \A r \in reads : GoodView(r.list) /\ r.seq <= seq
          /\ \A r, q \in reads : r.seq = q.seq => r = q
          /\ \A r \in reads : ~r.stale => r.owner = me
      BY DEF StoreShape, ReadsApart
    <2> QED
      BY <1>1, <2>1, RefreshedFacts
  <1>3. StoreShape'
    BY <1>1, <1>2 DEF StoreShape, request, network, SignedOps
  <1>4. SignedOps' = SignedOps
    BY <1>1 DEF SignedOps, request, network
  <1>5. Quiet
    BY <1>1, <1>2, <1>4 DEF Quiet, request, network, Twin
  <1> QED
    BY <1>2, <1>3, <1>5

\* A failed read is quiet: there is one answer less to come.
LEMMA LoadFailedQuiet ==
    ASSUME StoreShape, ReadsApart, NEW r \in reads, StorageLoadFailed(r)
    PROVE  StoreShape' /\ ReadsApart' /\ Quiet
  <1>1. /\ reads' = reads \ {r} /\ loading' = (loading /\ r.seq # seq)
        /\ UNCHANGED <<shown, loaded, seq, watch, request, network, me, session>>
    BY DEF StorageLoadFailed
  <1>2. SignedOps' = SignedOps /\ OwnReplies' \subseteq OwnReplies
    BY <1>1, FewerReads DEF SignedOps, request, network
  <1>3. StoreShape'
    BY <1>1, <1>2 DEF StoreShape, request, network
  <1>4. ReadsApart'
    BY <1>1 DEF ReadsApart, OwnRead
  <1>5. Quiet
    BY <1>1, <1>2 DEF Quiet, request, network, Twin
  <1> QED
    BY <1>3, <1>4, <1>5

\* Showing an answer is quiet: what was to come is now what is seen.
LEMMA LoadedQuiet ==
    ASSUME StoreShape, ReadsApart, NEW r \in reads, StorageLoaded(r)
    PROVE  StoreShape' /\ ReadsApart' /\ Quiet
  <1>1. /\ r.read /\ reads' = reads \ {r}
        /\ UNCHANGED <<seq, request, network, me, session>>
    BY DEF StorageLoaded
  <1>2. SignedOps' = SignedOps /\ OwnReplies' \subseteq OwnReplies
    BY <1>1, FewerReads DEF SignedOps, request, network
  <1>3. CASE OwnRead(r)
    <2>1. /\ shown' = r.list /\ loaded' = TRUE /\ loading' = FALSE
          /\ watch' \in {watch, NoOp}
      BY <1>3 DEF StorageLoaded
    <2>2. \A q \in reads' : ~OwnRead(q)'
      BY <1>1, <1>3 DEF OwnRead, ReadsApart
    <2>3. OwnReplies' = {} /\ r.list \in OwnReplies
      BY <1>1, <1>3, <2>2 DEF OwnReplies
    <2>4. StoreShape'
      <3>1. GoodView(shown')
        BY <2>1 DEF StoreShape
      <3>2. opCount \in Nat /\ opCount >= 0
        BY StorageAssumptions DEF StoreShape
      <3>3. GoodOp(watch') /\ (watch'.kind = "none" <=> watch' = NoOp) /\ watch'.n <= opCount
        BY <2>1, <3>2, Empties DEF StoreShape
      <3>4. reads' \subseteq ReadRecords /\ \A q \in reads' : GoodView(q.list)
        BY <1>1 DEF StoreShape
      <3> QED
        BY <1>1, <1>2, <2>1, <3>1, <3>3, <3>4 DEF StoreShape, request, network
    <2>5. ReadsApart'
      BY <1>1, <2>1, <2>2 DEF ReadsApart
    <2> QED
      BY <1>1, <1>2, <2>1, <2>3, <2>4, <2>5 DEF Quiet, request, network, Twin
  <1>4. CASE ~OwnRead(r)
    <2>1. loading' = (loading /\ r.seq # seq) /\ UNCHANGED <<shown, loaded, watch>>
      BY <1>4 DEF StorageLoaded
    <2>4. StoreShape'
      BY <1>1, <1>2, <2>1 DEF StoreShape, request, network
    <2>5. ReadsApart'
      BY <1>1, <2>1 DEF ReadsApart, OwnRead
    <2> QED
      BY <1>1, <1>2, <2>1, <2>4, <2>5 DEF Quiet, request, network, Twin
  <1> QED
    BY <1>3, <1>4

\* A watch given up, or a request cancelled in its dialog, is quiet.
LEMMA GiveUpQuiet ==
    ASSUME StoreShape, ReadsApart, GiveUp \/ CancelRequest
    PROVE  StoreShape' /\ ReadsApart' /\ Quiet
  <1>1. /\ UNCHANGED <<shown, loaded, loading, seq, reads, busy, opsFlying, opCount, collided,
                       chain, sent, me, session>>
        /\ watch' \in {watch, NoOp} /\ pendingOp' \in {pendingOp, NoOp}
        /\ asking' \in BOOLEAN /\ (asking' => asking /\ pendingOp' = pendingOp)
    <2>0. asking \in BOOLEAN
      BY DEF StoreShape
    <2>1. CASE GiveUp
      BY <2>0, <2>1 DEF GiveUp, request, network
    <2>2. CASE CancelRequest
      BY <2>2 DEF CancelRequest, network, ui
    <2> QED
      BY <2>1, <2>2
  <1>2. SignedOps' = SignedOps /\ OwnReplies' \subseteq OwnReplies
    BY <1>1, FewerReads DEF SignedOps
  <1>3. StoreShape'
    BY <1>1, <1>2, Empties DEF StoreShape
  <1>4. ReadsApart'
    BY <1>1 DEF ReadsApart, OwnRead
  <1>5. Quiet
    BY <1>1, <1>2 DEF Quiet, Twin
  <1> QED
    BY <1>3, <1>4, <1>5

\* A request whose state changes.
LEMMA TwinFacts ==
    ASSUME NEW op, GoodOp(op), NEW s \in {"preparing", "reached", "failed", "sent"}
    PROVE  /\ GoodOp([op EXCEPT !.state = s]) /\ Twin([op EXCEPT !.state = s], op)
           /\ [op EXCEPT !.state = s].state # "none"
  BY DEF GoodOp, OpRecords, Twin

\* A broadcast, or a request that ends before it, is quiet: nothing new is signed.
LEMMA BroadcastQuiet ==
    ASSUME StoreShape, ReadsApart, NEW op \in opsFlying, NEW taken \in BOOLEAN,
           OpNotSent(op) \/ Broadcast(op, taken)
    PROVE  StoreShape' /\ ReadsApart' /\ Quiet
  <1>1. /\ UNCHANGED <<shown, loaded, loading, seq, reads, busy, asking, pendingOp, watch, opCount,
                       collided, chain, me, session>>
        /\ \E s \in {"reached", "failed"} :
              opsFlying' = (opsFlying \ {op}) \cup {[op EXCEPT !.state = s]}
        /\ sent' \in {sent, sent \cup {[op EXCEPT !.state = "sent"]}}
    BY DEF OpNotSent, Broadcast, request, network, ui
  <1>2. GoodOp(op) /\ op.kind # "none" /\ op.n \in 1..opCount /\ op \in SignedOps
    BY DEF StoreShape, SignedOps
  <1>3. ASSUME NEW q \in SignedOps'
        PROVE  /\ GoodOp(q) /\ q.kind # "none" /\ q.state # "none" /\ q.n \in 1..opCount
               /\ \E p \in SignedOps : Twin(q, p)
    <2>1. CASE q \in SignedOps
      BY <2>1 DEF StoreShape, Twin
    <2>2. CASE \E s \in {"reached", "failed", "sent"} : q = [op EXCEPT !.state = s]
      <3>1. PICK s \in {"reached", "failed", "sent"} : q = [op EXCEPT !.state = s]
        BY <2>2
      <3>2. GoodOp(q) /\ Twin(q, op) /\ q.state # "none"
        BY <1>2, <3>1, TwinFacts
      <3> QED
        BY <1>2, <3>2 DEF Twin
    <2>3. q \in SignedOps \/ \E s \in {"reached", "failed", "sent"} : q = [op EXCEPT !.state = s]
      BY <1>1, <1>3 DEF SignedOps
    <2> QED
      BY <2>1, <2>2, <2>3
  <1>4. OwnReplies' = OwnReplies
    BY <1>1 DEF OwnReplies, OwnRead
  <1>5. StoreShape'
    BY <1>1, <1>3 DEF StoreShape
  <1>6. ReadsApart'
    BY <1>1 DEF ReadsApart, OwnRead
  <1>7. Quiet
    BY <1>1, <1>3, <1>4 DEF Quiet
  <1> QED
    BY <1>5, <1>6, <1>7

\* The report of a request is quiet, and sets the watch to one that was signed.
LEMMA FinishedQuiet ==
    ASSUME StoreShape, ReadsApart, NEW op \in opsFlying, StorageFinished(op)
    PROVE  StoreShape' /\ ReadsApart' /\ Quiet
  <1>1. /\ opsFlying' = opsFlying \ {op} /\ busy' = FALSE
        /\ UNCHANGED <<pendingOp, asking, opCount, collided, shown, loaded, network, me, session>>
    BY DEF StorageFinished
  <1>2. GoodOp(op) /\ op.kind # "none" /\ op \in SignedOps /\ op.n <= opCount
    BY DEF StoreShape, SignedOps
  <1>3. SignedOps' \subseteq SignedOps /\ \A q \in SignedOps' : \E p \in SignedOps : Twin(q, p)
    BY <1>1 DEF SignedOps, network, Twin
  <1>4. CASE watch' = op /\ Refreshed(me, reads)
    <2>1. /\ reads' \subseteq ReadRecords /\ \A r \in reads' : GoodView(r.list)
          /\ loading' \in BOOLEAN /\ seq' \in 0..MaxReads
          /\ ReadsApart' /\ OwnReplies' = {}
      <3>1. /\ me \in Owners /\ reads \subseteq ReadRecords
            /\ \A r \in reads : GoodView(r.list) /\ r.seq <= seq
            /\ \A r, q \in reads : r.seq = q.seq => r = q
            /\ \A r \in reads : ~r.stale => r.owner = me
        BY DEF StoreShape, ReadsApart
      <3> QED
        BY <1>1, <1>4, <3>1, RefreshedFacts
    <2>2. op # NoOp
      BY <1>2, Empties
    <2>3. StoreShape'
      BY <1>1, <1>2, <1>3, <1>4, <2>1, <2>2 DEF StoreShape, network
    <2>4. Twin(watch', op)
      BY <1>4 DEF Twin
    <2>5. Quiet
      BY <1>1, <1>2, <1>3, <2>1, <2>4 DEF Quiet, network
    <2> QED
      BY <2>1, <2>3, <2>5
  <1>5. CASE UNCHANGED <<watch, loading, seq, reads>>
    <2>1. OwnReplies' = OwnReplies
      BY <1>5 DEF OwnReplies, OwnRead
    <2>2. StoreShape'
      BY <1>1, <1>3, <1>5 DEF StoreShape, network
    <2>3. ReadsApart'
      BY <1>1, <1>5 DEF ReadsApart, OwnRead
    <2>4. Quiet
      BY <1>1, <1>3, <1>5, <2>1 DEF Quiet, network
    <2> QED
      BY <2>2, <2>3, <2>4
  <1> QED
    BY <1>4, <1>5 DEF StorageFinished

\* A message that expires is quiet: there is one signed request less.
LEMMA LostQuiet ==
    ASSUME StoreShape, ReadsApart, NEW op \in sent, Lost(op)
    PROVE  StoreShape' /\ ReadsApart' /\ Quiet
  <1>1. sent' = sent \ {op} /\ UNCHANGED <<chain, ui, request, me, session>>
    BY DEF Lost
  <1>2. SignedOps' \subseteq SignedOps /\ \A q \in SignedOps' : \E p \in SignedOps : Twin(q, p)
    BY <1>1 DEF SignedOps, request, Twin
  <1>3. OwnReplies' = OwnReplies
    BY <1>1 DEF OwnReplies, OwnRead, ui
  <1>4. StoreShape'
    BY <1>1, <1>2 DEF StoreShape, ui, request
  <1>5. ReadsApart'
    BY <1>1 DEF ReadsApart, OwnRead, ui
  <1>6. Quiet
    BY <1>1, <1>2, <1>3 DEF Quiet, ui, request
  <1> QED
    BY <1>4, <1>5, <1>6

\* A lock and an unlock are quiet: every read is out of date.
LEMMA LockQuiet ==
    ASSUME StoreShape, ReadsApart, LockAndUnlock
    PROVE  StoreShape' /\ ReadsApart' /\ Quiet
  <1>1. /\ session' \in 0..MaxLocks
        /\ asking' = FALSE /\ busy' = FALSE
        /\ shown' = NoList /\ loaded' = FALSE /\ loading' = FALSE
        /\ reads' = Outdated
        /\ UNCHANGED <<pendingOp, watch, seq, opsFlying, opCount, collided, network, me>>
    BY StorageAssumptions DEF LockAndUnlock, StoreShape
  <1>2. /\ Outdated \subseteq ReadRecords
        /\ \A r \in Outdated : GoodView(r.list) /\ r.seq <= seq /\ r.stale
        /\ \A r, q \in Outdated : r.seq = q.seq => r = q
    BY OutdatedFacts
  <1>3. SignedOps' = SignedOps
    BY <1>1 DEF SignedOps, network
  <1>4. OwnReplies' = {}
    BY <1>1, <1>2 DEF OwnReplies, OwnRead
  <1>5. StoreShape'
    BY <1>1, <1>2, <1>3, Empties DEF StoreShape, network
  <1>6. ReadsApart'
    BY <1>1, <1>2 DEF ReadsApart, OwnRead
  <1>7. Quiet
    BY <1>1, <1>3, <1>4, Empties DEF Quiet, network, Twin
  <1> QED
    BY <1>5, <1>6, <1>7

-----------------------------------------------------------------------------
(* Another identity: nothing of the first one is shown or waited for.      *)
LEMMA IdentityKeeps ==
    ASSUME StoreIInv, NEW o \in Owners, NEW open \in BOOLEAN, OtherIdentity(o, open)
    PROVE  StoreIInv'
  <1>1. /\ me' = o /\ pendingOp' = NoOp /\ asking' = FALSE /\ busy' = FALSE /\ watch' = NoOp
        /\ shown' = NoList /\ loaded' = FALSE
        /\ UNCHANGED <<opsFlying, opCount, collided, network, session>>
    BY DEF OtherIdentity
  <1>2. /\ Outdated \subseteq ReadRecords
        /\ \A r \in Outdated : GoodView(r.list) /\ r.seq <= seq /\ r.stale
        /\ \A r, q \in Outdated : r.seq = q.seq => r = q
    BY OutdatedFacts DEF StoreIInv
  <1>3. /\ reads' \subseteq ReadRecords /\ \A r \in reads' : GoodView(r.list)
        /\ loading' \in BOOLEAN /\ seq' \in 0..MaxReads
        /\ ReadsApart' /\ OwnReplies' = {}
    <2>1. CASE open
      BY <1>1, <1>2, <2>1, RefreshedFacts DEF StoreIInv, OtherIdentity
    <2>2. CASE ~open
      <3>1. loading' = FALSE /\ reads' = Outdated /\ seq' = seq
        BY <2>2 DEF OtherIdentity
      <3> QED
        BY <1>2, <3>1 DEF ReadsApart, OwnReplies, OwnRead, StoreIInv, StoreShape
    <2> QED
      BY <2>1, <2>2
  <1>4. SignedOps' = SignedOps
    BY <1>1 DEF SignedOps, network
  <1>5. StoreShape'
    <2>1. 0 <= opCount
      BY StorageAssumptions DEF StoreIInv, StoreShape
    <2> QED
      BY <1>1, <1>3, <1>4, <2>1, Empties DEF StoreIInv, StoreShape, network
  <1>6. Views' = {}
    BY <1>1, <1>3, Empties DEF Views
  <1>7. \A p, i : Cell(p, i)' = Cell(p, i)
    BY <1>1 DEF Cell, network
  <1>8. \A p, i, x : Live(p, i, x)' => Live(p, i, x)
    BY <1>4, <1>7 DEF Live
  <1>9. \A p, x : Executed(p, x)' <=> Executed(p, x)
    BY <1>1 DEF Executed, network
  <1>10. SeenIsExecuted' /\ ViewsAdvance'
    BY <1>1, <1>3, <1>4, <1>6, <1>7, <1>9, Empties
       DEF StoreIInv, SeenIsExecuted, ViewsAdvance, AllRequests
  <1>11. ASSUME ~collided PROVE KeptApart'
    BY <1>1, <1>3, <1>4, <1>6, <1>8, <1>11, Empties
       DEF StoreIInv, KeptApart, OneLive, ViewIsLive, DeleteMeetsSeen, PutWaits, PutIsLatest
  <1> QED
    BY <1>1, <1>3, <1>5, <1>10, <1>11 DEF StoreIInv

-----------------------------------------------------------------------------
(* The endpoint reads the account.                                         *)
LEMMA ReadableFacts ==
    ASSUME NEW l, GoodLists(l)
    PROVE  /\ GoodView(Readable(l)) /\ Readable(l).exists = l.exists
           /\ \A i \in Ids : /\ Readable(l).cells[i] \in {Nothing, l.cells[i]}
                             /\ l.cells[i] # Junk => Readable(l).cells[i] = l.cells[i]
  <1>1. Nothing # Junk /\ Nothing \in Contents
    BY StorageAssumptions DEF Nothing, Junk, Contents
  <1> DEFINE cs == [i \in Ids |-> IF l.cells[i] = Junk THEN Nothing ELSE l.cells[i]]
  <1>2. Readable(l) = [l EXCEPT !.cells = cs] /\ l \in Lists
    BY DEF Readable, GoodLists
  <1>3. cs \in [Ids -> Contents]
    BY <1>1, <1>2 DEF Lists
  <1>4. Readable(l) \in Lists /\ Readable(l).exists = l.exists /\ Readable(l).cells = cs
    BY <1>2, <1>3 DEF Lists
  <1>5. \A i \in Ids : cs[i] \in {Nothing, l.cells[i]} /\ cs[i] # Junk
                       /\ (l.cells[i] # Junk => cs[i] = l.cells[i])
    BY <1>1
  <1> HIDE DEF cs
  <1> QED
    BY <1>4, <1>5 DEF GoodView, GoodLists, TakenIds

\* An endpoint that reads the account keeps the invariant: it reads what is there.
LEMMA NodeReadsKeeps ==
    ASSUME StoreIInv, NEW r \in reads, NodeReads(r)
    PROVE  StoreIInv'
  <1> DEFINE L == Readable(chain[me].list)
             new == [r EXCEPT !.read = TRUE, !.list = Readable(chain[r.owner].list)]
  <1>1. /\ reads' = (reads \ {r}) \cup {new}
        /\ UNCHANGED <<shown, loaded, loading, seq, watch, request, network, me, session>>
    BY DEF NodeReads
  <1>2. r \in ReadRecords /\ me \in Owners /\ \A o \in Owners : GoodLists(chain[o].list)
    BY DEF StoreIInv, StoreShape
  <1>3. /\ GoodView(L) /\ L.exists = chain[me].list.exists
        /\ \A i \in Ids : /\ L.cells[i] \in {Nothing, Cell(me, i)}
                          /\ Cell(me, i) # Junk => L.cells[i] = Cell(me, i)
    BY <1>2, ReadableFacts DEF Cell
  <1>4. /\ new \in ReadRecords /\ GoodView(new.list)
        /\ new.seq = r.seq /\ new.owner = r.owner /\ new.stale = r.stale
        /\ (r.owner = me => new.list = L)
    <2>1. GoodView(Readable(chain[r.owner].list))
      BY <1>2, ReadableFacts DEF ReadRecords
    <2> QED
      BY <1>2, <2>1 DEF ReadRecords, GoodView, GoodLists
  <1> HIDE DEF new, L
  <1>5. ReadsApart'
    BY <1>1, <1>4 DEF StoreIInv, ReadsApart, OwnRead
  <1>6. OwnReplies' \subseteq OwnReplies \cup {L}
    BY <1>1, <1>4 DEF StoreIInv, ReadsApart, OwnReplies, OwnRead
  <1>7. Views' \subseteq Views \cup {L}
    BY <1>1, <1>6 DEF Views
  <1>8. SignedOps' = SignedOps /\ AllRequests' = AllRequests
    BY <1>1 DEF SignedOps, AllRequests, request, network
  <1>9. StoreShape'
    BY <1>1, <1>4, <1>8 DEF StoreIInv, StoreShape, request, network
  <1>10. /\ chain' = chain /\ me' = me /\ collided' = collided /\ pendingOp' = pendingOp
         /\ watch' = watch /\ shown' = shown
    BY <1>1 DEF request, network
  <1>11. /\ \A o, i : Cell(o, i)' = Cell(o, i)
         /\ \A o, i, x : Live(o, i, x)' <=> Live(o, i, x)
         /\ \A o, x : Executed(o, x)' <=> Executed(o, x)
    BY <1>8, <1>10 DEF Cell, Live, Executed
  <1>12. \A i \in Ids : Cell(me, i) \in Contents
    BY <1>2 DEF GoodLists, Lists, Cell
  <1>13. SeenIsExecuted'
    <2>1. \A i \in Ids : Executed(me, L.cells[i])
      BY <1>2, <1>3 DEF StoreIInv, SeenIsExecuted, Executed, Nothing
    <2> QED
      BY <1>7, <1>8, <1>10, <1>11, <2>1 DEF StoreIInv, SeenIsExecuted
  <1>14. ViewsAdvance'
    <2>1. \A a \in OwnReplies' : a.exists => chain[me].list.exists
      BY <1>3, <1>6 DEF StoreIInv, ViewsAdvance
    <2>2. shown.exists => \A a \in OwnReplies', i \in Ids :
            shown.cells[i] # Nothing /\ a.cells[i] = Nothing => Cell(me, i) # shown.cells[i]
      BY <1>3, <1>6 DEF StoreIInv, ViewsAdvance, StoreShape, GoodView
    <2>3. \A op \in AllRequests : op.kind = "delete" /\ op.owner = me =>
            \A v \in Views' : v.cells[op.id] = Nothing => Cell(me, op.id) # op.saw
      <3>1. \A op \in AllRequests : op.kind = "delete" => op.id \in Ids /\ op.saw \notin {Nothing, Junk}
        BY DEF StoreIInv, StoreShape, AllRequests, GoodOp
      <3> QED
        BY <1>3, <1>7, <3>1 DEF StoreIInv, ViewsAdvance
    <2> QED
      BY <1>8, <1>10, <1>11, <2>1, <2>2, <2>3 DEF ViewsAdvance
  <1>15. ASSUME ~collided PROVE KeptApart'
    <2>0. KeptApart
      BY <1>15 DEF StoreIInv
    <2>1. OneLive'
      BY <1>11, <2>0 DEF KeptApart, OneLive
    <2>2. ViewIsLive'
      <3>1. \A i \in Ids : L.cells[i] # Nothing =>
              \A x \in Contents : Live(me, i, x) => x = L.cells[i]
        <4> SUFFICES ASSUME NEW i \in Ids, L.cells[i] # Nothing, NEW x \in Contents, Live(me, i, x)
                     PROVE  x = L.cells[i]
          OBVIOUS
        <4>1. L.cells[i] = Cell(me, i) /\ Live(me, i, Cell(me, i))
          BY <1>3 DEF Live
        <4> QED
          BY <1>2, <1>12, <2>0, <4>1 DEF KeptApart, OneLive
      <3> QED
        BY <1>7, <1>10, <1>11, <2>0, <3>1 DEF KeptApart, ViewIsLive
    <2>3. DeleteMeetsSeen'
      BY <1>8, <1>10, <1>11, <2>0 DEF KeptApart, DeleteMeetsSeen
    <2>4. PutWaits'
      <3>1. pendingOp.kind = "put" => pendingOp.id \in Ids
        BY DEF StoreIInv, StoreShape, GoodOp
      <3> QED
        BY <1>3, <1>7, <1>8, <1>10, <1>11, <2>0, <3>1 DEF KeptApart, PutWaits
    <2>5. PutIsLatest'
      <3>1. ASSUME watch.kind = "put", watch.owner = me, L.cells[watch.id] # Nothing
            PROVE  chain[me].guard >= watch.n
        <4>1. watch.id \in Ids /\ watch.n \in Nat
          BY <3>1 DEF StoreIInv, StoreShape, GoodOp, OpRecords
        <4>2. L.cells[watch.id] = Cell(me, watch.id) /\ Live(me, watch.id, Cell(me, watch.id))
          BY <1>3, <3>1, <4>1 DEF Live
        <4>3. Cell(me, watch.id) \in 1..MaxOps /\ Cell(me, watch.id) >= watch.n
          BY <1>12, <2>0, <3>1, <4>1, <4>2 DEF KeptApart, PutIsLatest
        <4>4. Cell(me, watch.id) <= chain[me].guard /\ chain[me].guard \in Nat
          BY <1>2, <4>1, <4>3 DEF StoreIInv, SeenIsExecuted, Executed, StoreShape
        <4> QED
          BY <4>1, <4>3, <4>4
      <3> QED
        BY <1>6, <1>8, <1>10, <1>11, <2>0, <3>1 DEF KeptApart, PutIsLatest
    <2> QED
      BY <2>1, <2>2, <2>3, <2>4, <2>5 DEF KeptApart
  <1> QED
    BY <1>5, <1>9, <1>10, <1>13, <1>14, <1>15 DEF StoreIInv

-----------------------------------------------------------------------------
(* A request is put to the user.                                           *)

\* What a request leaves alone.
LEMMA RequestFacts ==
    ASSUME StoreIInv, NEW kind, NEW id, NEW saw, RequestOp(kind, id, saw),
           kind \in {"create", "put", "delete"}, id \in 0..(Limit + 1), saw \in Contents,
           kind \in {"put", "delete"} => id \in Ids,
           kind = "delete" => saw \notin {Nothing, Junk}
    PROVE  /\ StoreShape' /\ ReadsApart' /\ OwnReplies' = OwnReplies /\ Views' = Views
           /\ SignedOps' = SignedOps /\ AllRequests' \subseteq AllRequests \cup {pendingOp'}
           /\ UNCHANGED <<chain, me, collided, watch, shown>>
           /\ \A o, i : Cell(o, i)' = Cell(o, i)
           /\ \A o, i, x : Live(o, i, x)' <=> Live(o, i, x)
           /\ \A o, x : Executed(o, x)' <=> Executed(o, x)
           /\ pendingOp'.kind = kind /\ pendingOp'.id = id /\ pendingOp'.saw = saw
           /\ pendingOp'.owner = me
  <1>1. /\ pendingOp' = [NoOp EXCEPT !.kind = kind, !.id = id, !.saw = saw, !.owner = me]
        /\ asking' = TRUE
        /\ UNCHANGED <<busy, opsFlying, opCount, collided, ui, network, me, session>>
    BY DEF RequestOp
  <1>2. GoodOp(NoOp) /\ me \in Owners /\ NoOp.kind = "none"
    BY Empties DEF StoreIInv, StoreShape
  <1>3. /\ pendingOp'.kind = kind /\ pendingOp'.id = id /\ pendingOp'.saw = saw
        /\ pendingOp'.owner = me /\ GoodOp(pendingOp')
    BY <1>1, <1>2 DEF GoodOp, OpRecords
  <1>4. SignedOps' = SignedOps /\ OwnReplies' = OwnReplies /\ Views' = Views
    BY <1>1 DEF SignedOps, Views, OwnReplies, OwnRead, ui, network
  <1>5. UNCHANGED <<chain, me, collided, watch, shown>>
    BY <1>1 DEF ui, network
  <1>6. StoreShape'
    BY <1>1, <1>2, <1>3, <1>4, <1>5 DEF StoreIInv, StoreShape, ui, network
  <1>7. ReadsApart'
    BY <1>1 DEF StoreIInv, ReadsApart, OwnRead, ui
  <1>8. /\ \A o, i : Cell(o, i)' = Cell(o, i)
        /\ \A o, i, x : Live(o, i, x)' <=> Live(o, i, x)
        /\ \A o, x : Executed(o, x)' <=> Executed(o, x)
    BY <1>4, <1>5 DEF Cell, Live, Executed
  <1>9. AllRequests' \subseteq AllRequests \cup {pendingOp'}
    BY <1>4, <1>5 DEF AllRequests
  <1> QED
    BY <1>3, <1>4, <1>5, <1>6, <1>7, <1>8, <1>9

\* What is left to show of a request.
LEMMA RequestKeeps ==
    ASSUME StoreIInv, NEW kind, NEW id, NEW saw, RequestOp(kind, id, saw),
           kind \in {"create", "put", "delete"}, id \in 0..(Limit + 1), saw \in Contents,
           kind \in {"put", "delete"} => id \in Ids,
           kind = "delete" => saw \notin {Nothing, Junk},
           kind = "delete" => /\ Executed(me, saw)
                              /\ \A v \in Views : v.cells[id] = Nothing => Cell(me, id) # saw,
           ~collided /\ kind = "delete" => \A x \in Contents : Live(me, id, x) => x = saw,
           ~collided /\ kind = "put" =>
               /\ \A v \in Views : v.cells[id] \in {Nothing, Cell(me, id)}
               /\ \A d \in SignedOps :
                     (/\ d.kind = "delete" /\ d.owner = me /\ d.id = id
                      /\ Cell(me, id) # Nothing)
                     => Cell(me, id) \in 1..MaxOps /\ Cell(me, id) > d.n
    PROVE  StoreIInv'
  <1>1. /\ StoreShape' /\ ReadsApart' /\ OwnReplies' = OwnReplies /\ Views' = Views
        /\ SignedOps' = SignedOps /\ AllRequests' \subseteq AllRequests \cup {pendingOp'}
        /\ UNCHANGED <<chain, me, collided, watch, shown>>
        /\ \A o, i : Cell(o, i)' = Cell(o, i)
        /\ \A o, i, x : Live(o, i, x)' <=> Live(o, i, x)
        /\ \A o, x : Executed(o, x)' <=> Executed(o, x)
        /\ pendingOp'.kind = kind /\ pendingOp'.id = id /\ pendingOp'.saw = saw
        /\ pendingOp'.owner = me
    BY RequestFacts
  <1>2. SeenIsExecuted'
    BY <1>1 DEF StoreIInv, SeenIsExecuted
  <1>3. ViewsAdvance'
    BY <1>1 DEF StoreIInv, ViewsAdvance
  <1>4. ASSUME ~collided PROVE KeptApart'
    <2>0. KeptApart
      BY <1>4 DEF StoreIInv
    <2>1. OneLive' /\ ViewIsLive'
      BY <1>1, <2>0 DEF KeptApart, OneLive, ViewIsLive
    <2>2. DeleteMeetsSeen'
      BY <1>1, <1>4, <2>0 DEF KeptApart, DeleteMeetsSeen
    <2>3. PutWaits'
      BY <1>1, <1>4 DEF PutWaits
    <2>4. PutIsLatest'
      BY <1>1, <2>0 DEF KeptApart, PutIsLatest
    <2> QED
      BY <2>1, <2>2, <2>3, <2>4 DEF KeptApart
  <1> QED
    BY <1>1, <1>2, <1>3, <1>4 DEF StoreIInv

\* A request to create the list keeps the invariant.
LEMMA CreateKeeps ==
    ASSUME StoreIInv, CreateStorage
    PROVE  StoreIInv'
  <1>1. 0 \in 0..(Limit + 1) /\ Nothing \in Contents
    BY StorageAssumptions DEF Contents
  <1> QED
    BY <1>1, RequestKeeps DEF CreateStorage

\* A request to add a record, under the number next_free_id finds, keeps the invariant.
LEMMA AddKeeps ==
    ASSUME StoreIInv, AddStorageRecord
    PROVE  StoreIInv'
  <1> DEFINE id == NextFreeId(TakenIds(shown))
  <1>1. /\ shown.exists /\ ~loading /\ Cardinality(TakenIds(shown)) < Limit
        /\ RequestOp("put", id, Nothing)
    BY DEF AddStorageRecord
  <1>2. id \in Ids /\ shown.cells[id] = Nothing
    <2>1. TakenIds(shown) \in SUBSET Ids
      BY DEF TakenIds
    <2>2. id \in Ids \ TakenIds(shown)
      BY <1>1, <2>1, NextFreeIdIsFree
    <2> QED
      BY <2>2 DEF TakenIds
  <1> HIDE DEF id
  <1>3. id \in 0..(Limit + 1) /\ Nothing \in Contents
    BY <1>2, StorageAssumptions DEF Contents, Ids
  <1>4. Views = {shown}
    BY <1>1 DEF StoreIInv, ReadsApart, Views, OwnReplies
  <1>5. me \in Owners /\ Cell(me, id) \in Contents
    BY <1>2 DEF StoreIInv, StoreShape, GoodLists, Lists, Cell
  <1>6. ASSUME ~collided, NEW d \in SignedOps, d.kind = "delete", d.owner = me, d.id = id,
               Cell(me, id) # Nothing
        PROVE  Cell(me, id) \in 1..MaxOps /\ Cell(me, id) > d.n
    <2>1. Live(me, id, Cell(me, id))
      BY <1>6 DEF Live
    <2>2. Cell(me, id) = d.saw \/ (Cell(me, id) \in 1..MaxOps /\ Cell(me, id) > d.n)
      BY <1>5, <1>6, <2>1 DEF StoreIInv, KeptApart, DeleteMeetsSeen
    <2>3. Cell(me, id) # d.saw
      BY <1>2, <1>4, <1>6 DEF StoreIInv, ViewsAdvance, AllRequests
    <2> QED
      BY <2>2, <2>3
  <1> QED
    BY <1>1, <1>2, <1>3, <1>4, <1>6, RequestKeeps

\* A request to delete a record that is shown keeps the invariant.
LEMMA DeleteKeeps ==
    ASSUME StoreIInv, NEW id \in Ids, DeleteStorageRecord(id)
    PROVE  StoreIInv'
  <1> DEFINE saw == shown.cells[id]
  <1>1. id \in TakenIds(shown) /\ RequestOp("delete", id, saw)
    BY DEF DeleteStorageRecord
  <1>2. GoodView(shown)
    BY DEF StoreIInv, StoreShape
  <1>3. saw \in Contents /\ saw \notin {Nothing, Junk} /\ shown.exists
    BY <1>1, <1>2 DEF GoodView, GoodLists, Lists, TakenIds
  <1>4. id \in 0..(Limit + 1) /\ shown \in Views
    BY <1>3, StorageAssumptions DEF Ids, Views
  <1>5. Executed(me, saw)
    BY <1>4 DEF StoreIInv, SeenIsExecuted
  <1>6. \A v \in Views : v.cells[id] = Nothing => Cell(me, id) # saw
    BY <1>3 DEF StoreIInv, ViewsAdvance, Views
  <1>7. ~collided => \A x \in Contents : Live(me, id, x) => x = saw
    BY <1>3, <1>4 DEF StoreIInv, KeptApart, ViewIsLive
  <1> HIDE DEF saw
  <1> QED
    BY <1>1, <1>3, <1>4, <1>5, <1>6, <1>7, RequestKeeps

-----------------------------------------------------------------------------
(* The request is signed.                                                  *)
LEMMA DispatchKeeps ==
    ASSUME StoreIInv, DispatchAuthorizedStorage
    PROVE  StoreIInv'
  <1> DEFINE op == [pendingOp EXCEPT !.n = opCount + 1, !.session = session,
                                    !.state = "preparing"]
             put == pendingOp.kind = "put"
  <1>1. /\ asking /\ opCount < MaxOps
        /\ opCount' = opCount + 1 /\ busy' = TRUE /\ asking' = FALSE /\ pendingOp' = NoOp
        /\ opsFlying' = opsFlying \cup {op}
        /\ collided' = (collided \/ (put /\ pendingOp.id \in InUse(pendingOp.owner)))
        /\ UNCHANGED <<ui, network, me, session>>
    BY DEF DispatchAuthorizedStorage
  <1>2. /\ StoreShape /\ GoodOp(pendingOp) /\ pendingOp # NoOp /\ pendingOp.kind # "none"
        /\ pendingOp.owner = me /\ me \in Owners
        /\ opCount \in 0..MaxOps /\ MaxOps \in Nat /\ session \in 0..MaxLocks
    BY <1>1, StorageAssumptions DEF StoreIInv, StoreShape
  <1>3. /\ op.n = opCount + 1 /\ op.kind = pendingOp.kind /\ op.id = pendingOp.id
        /\ op.saw = pendingOp.saw /\ op.owner = me /\ GoodOp(op) /\ op.state # "none"
    <2>1. opCount + 1 \in 0..MaxOps
      BY <1>1, <1>2
    <2>2. op \in OpRecords
      BY <1>2, <2>1 DEF GoodOp, OpRecords
    <2> QED
      BY <1>2, <2>2 DEF GoodOp, OpRecords
  <1>4. /\ SignedOps' = SignedOps \cup {op} /\ OwnReplies' = OwnReplies /\ Views' = Views
        /\ UNCHANGED <<chain, me, watch, shown>>
    BY <1>1 DEF SignedOps, Views, OwnReplies, OwnRead, ui, network
  <1> HIDE DEF op
  <1>5. opCount + 1 \in 1..MaxOps /\ \A q \in SignedOps : q.n \in 1..opCount
    BY <1>1, <1>2 DEF StoreShape
  <1>6. StoreShape'
    <2>1. collided' \in BOOLEAN /\ opCount' \in 0..MaxOps
      BY <1>1, <1>2
    <2>2. \A q \in SignedOps' : /\ GoodOp(q) /\ q.kind # "none" /\ q.state # "none"
                             /\ q.n \in 1..opCount'
      BY <1>1, <1>2, <1>3, <1>4, <1>5 DEF StoreShape
    <2>3. watch.n <= opCount' /\ GoodOp(NoOp) /\ NoOp.kind = "none"
      BY <1>1, <1>2, Empties DEF StoreShape, GoodOp, OpRecords
    <2>4. seq' \in 0..MaxReads /\ session' \in 0..MaxLocks /\ reads' \subseteq ReadRecords
          /\ \A r \in reads' : GoodView(r.list)
      BY <1>1, <1>2 DEF StoreShape, ui
    <2> QED
      BY <1>1, <1>2, <1>4, <2>1, <2>2, <2>3, <2>4 DEF StoreShape, ui
  <1>7. ReadsApart'
    BY <1>1 DEF StoreIInv, ReadsApart, OwnRead, ui
  <1>8. /\ \A o, i : Cell(o, i)' = Cell(o, i)
        /\ \A o, x : Executed(o, x)' <=> Executed(o, x)
    BY <1>4 DEF Cell, Executed
  <1>9. \A o, i, x : Live(o, i, x)' =>
            Live(o, i, x) \/ (put /\ o = me /\ i = pendingOp.id /\ x = opCount + 1)
    BY <1>3, <1>4, <1>8 DEF Live
  <1>10. \A q \in AllRequests' : q.kind = "none" \/ \E p \in AllRequests :
            p.kind = q.kind /\ p.owner = q.owner /\ p.saw = q.saw /\ p.id = q.id
    BY <1>1, <1>2, <1>3, <1>4, Empties DEF AllRequests
  <1>11. SeenIsExecuted'
    BY <1>4, <1>8, <1>10 DEF StoreIInv, SeenIsExecuted
  <1>12. ViewsAdvance'
    BY <1>4, <1>8, <1>10 DEF StoreIInv, ViewsAdvance
  <1>13. ASSUME ~collided' PROVE KeptApart'
    <2>0. ~collided /\ KeptApart
      BY <1>1, <1>13 DEF StoreIInv
    <2>1. ASSUME put PROVE \A x : ~Live(me, pendingOp.id, x)
      <3>1. pendingOp.id \notin InUse(me) /\ pendingOp.id \in Ids
        BY <1>1, <1>2, <1>13, <2>1 DEF GoodOp
      <3> QED
        BY <3>1 DEF InUse, TakenIds, Live, Cell, SignedOps
    <2>2. OneLive'
      BY <1>9, <2>0, <2>1 DEF KeptApart, OneLive
    <2>3. ViewIsLive'
      <3>1. ASSUME put, NEW v \in Views, v.cells[pendingOp.id] # Nothing PROVE FALSE
        <4>1. v.cells[pendingOp.id] = Cell(me, pendingOp.id)
          BY <2>0, <3>1 DEF KeptApart, PutWaits
        <4> QED
          BY <2>1, <3>1, <4>1 DEF Live
      <3> QED
        BY <1>4, <1>9, <2>0, <3>1 DEF KeptApart, ViewIsLive
    <2>4. DeleteMeetsSeen'
      <3>1. ASSUME NEW d \in SignedOps', d.kind = "delete", NEW x \in Contents,
                   Live(d.owner, d.id, x)'
            PROVE  x = d.saw \/ (x \in 1..MaxOps /\ x > d.n)
        <4>1. CASE Live(d.owner, d.id, x)
          BY <1>2, <1>3, <1>4, <2>0, <3>1, <4>1 DEF KeptApart, DeleteMeetsSeen
        <4>2. CASE ~Live(d.owner, d.id, x)
          <5>1. put /\ x = opCount + 1
            BY <1>9, <3>1, <4>2
          <5>2. d \in SignedOps
            BY <1>3, <1>4, <3>1, <5>1
          <5> QED
            BY <1>2, <1>5, <5>1, <5>2
        <4> QED
          BY <4>1, <4>2
      <3> QED
        BY <1>1, <3>1, Empties DEF DeleteMeetsSeen
    <2>5. PutWaits'
      BY <1>1, Empties DEF PutWaits
    <2>6. PutIsLatest'
      <3>1. ASSUME NEW p \in SignedOps' \cup {watch}, p.kind = "put", NEW x \in Contents,
                   Live(p.owner, p.id, x)'
            PROVE  x \in 1..MaxOps /\ x >= p.n
        <4>1. p.n <= opCount + 1 /\ p.n \in Nat
          BY <1>2, <1>3, <1>4, <1>5, <3>1 DEF StoreShape, GoodOp, OpRecords
        <4>2. CASE Live(p.owner, p.id, x)
          <5>1. p # op
            BY <1>3, <2>1, <3>1, <4>2
          <5> QED
            BY <1>4, <2>0, <3>1, <4>2, <5>1 DEF KeptApart, PutIsLatest
        <4>3. CASE ~Live(p.owner, p.id, x)
          <5>1. x = opCount + 1
            BY <1>9, <3>1, <4>3
          <5> QED
            BY <1>2, <1>5, <4>1, <5>1
        <4> QED
          BY <4>2, <4>3
      <3> QED
        BY <1>4, <2>0, <3>1 DEF KeptApart, PutIsLatest
    <2> QED
      BY <2>2, <2>3, <2>4, <2>5, <2>6 DEF KeptApart
  <1> QED
    BY <1>6, <1>7, <1>11, <1>12, <1>13 DEF StoreIInv

-----------------------------------------------------------------------------
(* The chain executes a message.                                           *)

\* What a request leaves of the list: one cell may change.
LEMMA AppliedFacts ==
    ASSUME NEW l, GoodLists(l), Cardinality(TakenIds(l)) <= Limit,
           NEW op, GoodOp(op), op.n \in 1..MaxOps
    PROVE  /\ GoodLists(Applied(l, op)) /\ Cardinality(TakenIds(Applied(l, op))) <= Limit
           /\ l.exists => Applied(l, op).exists
           /\ \A i \in Ids : \/ Applied(l, op).cells[i] = l.cells[i]
                             \/ /\ op.kind = "put" /\ i = op.id
                                /\ Applied(l, op).cells[i] = op.n
                             \/ /\ op.kind = "delete" /\ i = op.id
                                /\ Applied(l, op).cells[i] = Nothing
  <1>1. Limit \in Nat /\ MaxOps \in Nat /\ op.n \in Contents /\ Nothing \in Contents /\ op.n # Nothing
    BY StorageAssumptions DEF Contents, Nothing
  <1>2. l \in Lists /\ l.cells \in [Ids -> Contents] /\ l.exists \in BOOLEAN
    BY DEF GoodLists, Lists
  <1>3. IsFiniteSet(TakenIds(l)) /\ Cardinality(TakenIds(l)) \in Nat
    <2>1. IsFiniteSet(Ids)
      BY <1>1, FS_Interval DEF Ids
    <2>2. IsFiniteSet(TakenIds(l))
      BY <2>1, FS_Subset DEF TakenIds
    <2> QED
      BY <2>2, FS_CardinalityType
  <1>4. CASE Applied(l, op) = l
    BY <1>4 DEF Applied
  <1>5. CASE op.kind = "create"
    <2>1. Applied(l, op) = [l EXCEPT !.exists = TRUE]
      BY <1>5 DEF Applied
    <2>2. Applied(l, op) \in Lists /\ Applied(l, op).exists /\ Applied(l, op).cells = l.cells
      BY <1>2, <2>1 DEF Lists
    <2> QED
      BY <1>5, <2>2 DEF GoodLists, TakenIds
  <1>6. CASE op.kind = "put" /\ l.exists
             /\ (l.cells[op.id] # Nothing \/ Cardinality(TakenIds(l)) < Limit)
    <2>1. Applied(l, op) = [l EXCEPT !.cells[op.id] = op.n] /\ op.id \in Ids
      BY <1>6 DEF Applied, GoodOp
    <2>2. /\ Applied(l, op) \in Lists /\ Applied(l, op).exists
          /\ \A i \in Ids : Applied(l, op).cells[i] = IF i = op.id THEN op.n ELSE l.cells[i]
      BY <1>1, <1>2, <1>6, <2>1 DEF Lists
    <2>3. TakenIds(Applied(l, op)) = TakenIds(l) \cup {op.id}
      BY <1>1, <2>1, <2>2 DEF TakenIds
    <2>4. Cardinality(TakenIds(l) \cup {op.id}) <= Limit
      <3>1. CASE op.id \in TakenIds(l)
        <4>1. TakenIds(l) \cup {op.id} = TakenIds(l)
          BY <3>1
        <4> QED
          BY <4>1
      <3>2. CASE op.id \notin TakenIds(l)
        <4>1. Cardinality(TakenIds(l) \cup {op.id}) = Cardinality(TakenIds(l)) + 1
          BY <1>3, <3>2, FS_AddElement
        <4>2. Cardinality(TakenIds(l)) < Limit
          BY <1>6, <2>1, <3>2 DEF TakenIds
        <4> QED
          BY <1>1, <1>3, <4>1, <4>2
      <3> QED
        BY <3>1, <3>2
    <2> QED
      BY <1>6, <2>2, <2>3, <2>4 DEF GoodLists
  <1>7. CASE op.kind = "delete" /\ l.exists
    <2>1. Applied(l, op) = [l EXCEPT !.cells[op.id] = Nothing] /\ op.id \in Ids
      BY <1>7 DEF Applied, GoodOp
    <2>2. /\ Applied(l, op) \in Lists /\ Applied(l, op).exists
          /\ \A i \in Ids : Applied(l, op).cells[i] = IF i = op.id THEN Nothing ELSE l.cells[i]
      BY <1>1, <1>2, <1>7, <2>1 DEF Lists
    <2>3. TakenIds(Applied(l, op)) \subseteq TakenIds(l)
      BY <2>1, <2>2 DEF TakenIds
    <2>4. Cardinality(TakenIds(Applied(l, op))) <= Limit
      <3>1. /\ Cardinality(TakenIds(Applied(l, op))) <= Cardinality(TakenIds(l))
            /\ IsFiniteSet(TakenIds(Applied(l, op)))
        BY <1>3, <2>3, FS_Subset
      <3>2. Cardinality(TakenIds(Applied(l, op))) \in Nat
        BY <3>1, FS_CardinalityType
      <3> QED
        BY <1>1, <1>3, <3>1, <3>2
    <2> QED
      BY <1>7, <2>1, <2>2, <2>4 DEF GoodLists
  <1>8. \/ op.kind = "create" \/ Applied(l, op) = l
        \/ op.kind = "put" /\ l.exists
             /\ (l.cells[op.id] # Nothing \/ Cardinality(TakenIds(l)) < Limit)
        \/ op.kind = "delete" /\ l.exists
    BY DEF Applied
  <1> QED
    BY <1>4, <1>5, <1>6, <1>7, <1>8

\* What an executed message changes: the cell it names, and the guard.
LEMMA ExecuteFacts ==
    ASSUME StoreIInv, NEW op \in sent, Execute(op)
    PROVE  /\ StoreShape' /\ ReadsApart' /\ OwnReplies' = OwnReplies /\ Views' = Views
           /\ SignedOps' \subseteq SignedOps /\ AllRequests' \subseteq AllRequests
           /\ UNCHANGED <<me, collided, pendingOp, watch, shown>>
           /\ op \in SignedOps /\ op.owner \in Owners /\ op.n \in 1..MaxOps
           /\ chain[op.owner].guard \in Nat /\ op.n > chain[op.owner].guard
           /\ \A o \in Owners : /\ chain[o].guard \in Nat /\ chain'[o].guard \in Nat
                                /\ chain[o].guard <= chain'[o].guard
                                /\ chain[o].list.exists => chain'[o].list.exists
           /\ chain'[op.owner].guard = op.n
           /\ \A o \in Owners, i \in Ids :
                 \/ Cell(o, i)' = Cell(o, i)
                 \/ op.kind = "put" /\ o = op.owner /\ i = op.id /\ Cell(o, i)' = op.n
                 \/ op.kind = "delete" /\ o = op.owner /\ i = op.id /\ Cell(o, i)' = Nothing
  <1>1. /\ op.n > chain[op.owner].guard
        /\ chain' = [chain EXCEPT ![op.owner] = [list |-> Applied(chain[op.owner].list, op),
                                                 guard |-> op.n]]
        /\ sent' = sent \ {op} /\ UNCHANGED <<ui, request, me, session>>
    BY DEF Execute
  <1>2. /\ op \in SignedOps /\ GoodOp(op) /\ op.n \in 1..opCount /\ opCount \in 0..MaxOps
        /\ MaxOps \in Nat /\ op.owner \in Owners
    BY StorageAssumptions DEF StoreIInv, StoreShape, SignedOps, GoodOp, OpRecords
  <1>3. op.n \in 1..MaxOps
    BY <1>2
  <1>4. /\ chain \in [Owners -> [list : Lists, guard : 0..MaxOps]]
        /\ \A o \in Owners : /\ GoodLists(chain[o].list)
                             /\ Cardinality(TakenIds(chain[o].list)) <= Limit
    BY DEF StoreIInv, StoreShape
  <1> DEFINE l == chain[op.owner].list
             k == Applied(l, op)
  <1>5. /\ GoodLists(k) /\ Cardinality(TakenIds(k)) <= Limit /\ (l.exists => k.exists)
        /\ \A i \in Ids : \/ k.cells[i] = l.cells[i]
                          \/ op.kind = "put" /\ i = op.id /\ k.cells[i] = op.n
                          \/ op.kind = "delete" /\ i = op.id /\ k.cells[i] = Nothing
    BY <1>2, <1>3, <1>4, AppliedFacts
  <1> HIDE DEF k
  <1>6. \A o \in Owners : chain'[o] = IF o = op.owner THEN [list |-> k, guard |-> op.n] ELSE chain[o]
    BY <1>1, <1>4 DEF k
  <1>7. chain' \in [Owners -> [list : Lists, guard : 0..MaxOps]]
    <2>1. [list |-> k, guard |-> op.n] \in [list : Lists, guard : 0..MaxOps]
      BY <1>3, <1>5 DEF GoodLists
    <2> QED
      BY <1>1, <1>4, <2>1 DEF k
  <1>8. SignedOps' \subseteq SignedOps /\ OwnReplies' = OwnReplies /\ Views' = Views
        /\ UNCHANGED <<collided, pendingOp, watch, shown>>
    BY <1>1 DEF SignedOps, Views, OwnReplies, OwnRead, ui, request
  <1>9. StoreShape'
    <2>1. \A o \in Owners : /\ GoodLists(chain'[o].list)
                            /\ Cardinality(TakenIds(chain'[o].list)) <= Limit
      BY <1>4, <1>5, <1>6
    <2> QED
      BY <1>1, <1>7, <1>8, <2>1 DEF StoreIInv, StoreShape, ui, request
  <1>10. ReadsApart'
    BY <1>1 DEF StoreIInv, ReadsApart, OwnRead, ui
  <1>11. AllRequests' \subseteq AllRequests
    BY <1>8 DEF AllRequests
  <1>12. \A o \in Owners : /\ chain[o].guard \in Nat /\ chain'[o].guard \in Nat
                           /\ chain[o].guard <= chain'[o].guard
                           /\ chain[o].list.exists => chain'[o].list.exists
    BY <1>1, <1>3, <1>4, <1>5, <1>6
  <1>13. \A o \in Owners, i \in Ids :
            \/ Cell(o, i)' = Cell(o, i)
            \/ op.kind = "put" /\ o = op.owner /\ i = op.id /\ Cell(o, i)' = op.n
            \/ op.kind = "delete" /\ o = op.owner /\ i = op.id /\ Cell(o, i)' = Nothing
    BY <1>5, <1>6 DEF Cell
  <1>14. chain'[op.owner].guard = op.n
    BY <1>2, <1>6
  <1> QED
    BY <1>1, <1>2, <1>3, <1>8, <1>9, <1>10, <1>11, <1>12, <1>13, <1>14

\* A message the wallet executes keeps the invariant.
LEMMA ExecuteKeeps ==
    ASSUME StoreIInv, NEW op \in sent, Execute(op)
    PROVE  StoreIInv'
  <1>1. /\ StoreShape' /\ ReadsApart' /\ OwnReplies' = OwnReplies /\ Views' = Views
        /\ SignedOps' \subseteq SignedOps /\ AllRequests' \subseteq AllRequests
        /\ UNCHANGED <<me, collided, pendingOp, watch, shown>>
        /\ op \in SignedOps /\ op.owner \in Owners /\ op.n \in 1..MaxOps
        /\ chain[op.owner].guard \in Nat /\ op.n > chain[op.owner].guard
        /\ \A o \in Owners : /\ chain[o].guard \in Nat /\ chain'[o].guard \in Nat
                             /\ chain[o].guard <= chain'[o].guard
                             /\ chain[o].list.exists => chain'[o].list.exists
        /\ chain'[op.owner].guard = op.n
    BY ExecuteFacts
  <1>2. \A o \in Owners, i \in Ids :
            \/ Cell(o, i)' = Cell(o, i)
            \/ op.kind = "put" /\ o = op.owner /\ i = op.id /\ Cell(o, i)' = op.n
            \/ op.kind = "delete" /\ o = op.owner /\ i = op.id /\ Cell(o, i)' = Nothing
    BY ExecuteFacts
  <1> DEFINE New(o, i) == chain'[o].list.cells[i]
  <1>0. \A o \in Owners, i \in Ids :
            \/ New(o, i) = Cell(o, i)
            \/ op.kind = "put" /\ o = op.owner /\ i = op.id /\ New(o, i) = op.n
            \/ op.kind = "delete" /\ o = op.owner /\ i = op.id /\ New(o, i) = Nothing
    BY <1>2 DEF Cell
  <1> HIDE DEF New
  <1>3. me \in Owners /\ MaxOps \in Nat /\ op.n \in Contents /\ op.n # Nothing
        /\ \A i \in Ids : Cell(me, i) \in Contents
    BY <1>1, StorageAssumptions DEF StoreIInv, StoreShape, GoodLists, Lists, Cell, Contents, Nothing
  <1>4. ASSUME NEW o \in Owners, NEW x, Executed(o, x)
        PROVE  Executed(o, x)' /\ (o = op.owner => x # op.n)
    BY <1>1, <1>4 DEF Executed
  <1>5. \A o \in Owners, i \in Ids, x \in Contents : Live(o, i, x)' => Live(o, i, x)
    <2> SUFFICES ASSUME NEW o \in Owners, NEW i \in Ids, NEW x \in Contents, Live(o, i, x)'
                 PROVE  Live(o, i, x)
      OBVIOUS
    <2>1. CASE x = Cell(o, i)' /\ x # Nothing
      BY <1>1, <1>2, <2>1 DEF Live
    <2>2. CASE \E q \in SignedOps' : q.kind = "put" /\ q.owner = o /\ q.id = i /\ q.n = x
      BY <1>1, <2>2 DEF Live
    <2> QED
      BY <2>1, <2>2 DEF Live
  <1>6. \A q \in AllRequests : /\ q.kind \in {"put", "delete"} => q.id \in Ids
                            /\ q.owner \in Owners
    BY DEF StoreIInv, StoreShape, AllRequests, GoodOp, OpRecords
  <1>7. SignedOps \subseteq AllRequests /\ pendingOp \in AllRequests /\ watch \in AllRequests
    BY DEF AllRequests
  <1>8. SeenIsExecuted'
    <2>1. ASSUME NEW o \in Owners, NEW i \in Ids PROVE Executed(o, Cell(o, i))'
      <3>1. CASE Cell(o, i)' = Cell(o, i)
        <4>1. Executed(o, Cell(o, i))
          BY DEF StoreIInv, SeenIsExecuted
        <4> QED
          BY <1>1, <3>1, <4>1 DEF Executed
      <3>2. CASE o = op.owner /\ Cell(o, i)' = op.n
        BY <1>1, <3>2 DEF Executed
      <3>3. CASE Cell(o, i)' = Nothing
        BY <3>3 DEF Executed, Nothing
      <3> QED
        BY <1>2, <3>1, <3>2, <3>3
    <2>2. \A v \in Views', i \in Ids : Executed(me, v.cells[i])'
      BY <1>1, <1>3, <1>4 DEF StoreIInv, SeenIsExecuted
    <2>3. \A q \in AllRequests' : q.kind = "delete" => Executed(q.owner, q.saw)'
      BY <1>1, <1>4, <1>6 DEF StoreIInv, SeenIsExecuted
    <2> QED
      BY <1>1, <2>1, <2>2, <2>3 DEF SeenIsExecuted
  <1>9. ASSUME NEW i \in Ids, NEW x, Executed(me, x), x # Nothing, Cell(me, i) # x
        PROVE  New(me, i) # x
    <2>1. me = op.owner => x # op.n
      BY <1>3, <1>4, <1>9
    <2> QED
      BY <1>0, <1>3, <1>9, <2>1
  <1>10. ViewsAdvance'
    <2>1. \A a \in OwnReplies' : a.exists => chain'[me].list.exists
      BY <1>1, <1>3 DEF StoreIInv, ViewsAdvance
    <2>2. shown.exists => \A a \in OwnReplies, i \in Ids :
            shown.cells[i] # Nothing /\ a.cells[i] = Nothing => New(me, i) # shown.cells[i]
      <3>1. shown.exists => \A i \in Ids : Executed(me, shown.cells[i])
        BY DEF StoreIInv, SeenIsExecuted, Views
      <3> QED
        BY <1>9, <3>1 DEF StoreIInv, ViewsAdvance
    <2>3. \A q \in AllRequests : q.kind = "delete" /\ q.owner = me =>
            \A v \in Views : v.cells[q.id] = Nothing => New(me, q.id) # q.saw
      <3>1. \A q \in AllRequests : q.kind = "delete" =>
               q.id \in Ids /\ Executed(q.owner, q.saw) /\ q.saw # Nothing
        BY DEF StoreIInv, SeenIsExecuted, StoreShape, AllRequests, GoodOp
      <3> QED
        BY <1>9, <3>1 DEF StoreIInv, ViewsAdvance
    <2> QED
      BY <1>1, <2>1, <2>2, <2>3 DEF ViewsAdvance, Cell, New
  <1>11. ASSUME ~collided PROVE KeptApart'
    <2>0. KeptApart
      BY <1>11 DEF StoreIInv
    <2>1. OneLive'
      BY <1>5, <2>0 DEF KeptApart, OneLive
    <2>2. ViewIsLive'
      BY <1>1, <1>3, <1>5, <2>0 DEF KeptApart, ViewIsLive
    <2>3. DeleteMeetsSeen'
      <3>1. pendingOp.kind = "delete" => pendingOp.id \in Ids
        BY <1>6, <1>7
      <3>2. \A d \in SignedOps : d.kind = "delete" => d.id \in Ids /\ d.owner \in Owners
        BY <1>6, <1>7
      <3> QED
        BY <1>1, <1>3, <1>5, <2>0, <3>1, <3>2 DEF KeptApart, DeleteMeetsSeen
    <2>4. PutWaits'
      <3> SUFFICES ASSUME pendingOp.kind = "put" PROVE PutWaits'
        BY <1>1 DEF PutWaits
      <3> DEFINE i == pendingOp.id
      <3>1. i \in Ids
        BY <1>6, <1>7
      <3>2. op.kind = "put" /\ op.owner = me /\ op.id = i => Live(me, i, op.n)
        BY <1>1 DEF Live
      <3>3. Cell(me, i) # Nothing => Live(me, i, Cell(me, i))
        BY DEF Live
      <3>4. Executed(me, Cell(me, i))
        BY <1>3, <3>1 DEF StoreIInv, SeenIsExecuted
      <3> HIDE DEF i
      <3>5. Cell(me, i) = Nothing \/ New(me, i) = Cell(me, i)
        <4> SUFFICES ASSUME Cell(me, i) # Nothing, New(me, i) # Cell(me, i) PROVE FALSE
          OBVIOUS
        <4>1. op.owner = me /\ op.id = i
          BY <1>0, <1>3, <3>1
        <4>2. CASE op.kind = "put"
          <5>1. Cell(me, i) = op.n
            BY <1>3, <2>0, <3>1, <3>2, <3>3, <4>1, <4>2 DEF KeptApart, OneLive
          <5>2. Cell(me, i) # op.n
            BY <1>3, <1>4, <3>4, <4>1
          <5> QED
            BY <5>1, <5>2
        <4>3. CASE op.kind = "delete"
          <5>1. Cell(me, i) \in 1..MaxOps /\ Cell(me, i) > op.n
            BY <1>1, <2>0, <4>1, <4>3 DEF KeptApart, PutWaits, i
          <5> QED
            BY <1>1, <3>4, <4>1, <5>1 DEF Executed
        <4> QED
          BY <1>0, <1>3, <3>1, <4>2, <4>3
      <3>6. \A v \in Views : v.cells[i] \in {Nothing, New(me, i)}
        BY <2>0, <3>5 DEF KeptApart, PutWaits, i
      <3>7. ASSUME NEW d \in SignedOps, d.kind = "delete", d.owner = me, d.id = i,
                   New(me, i) # Nothing
            PROVE  New(me, i) \in 1..MaxOps /\ New(me, i) > d.n
        <4>1. CASE New(me, i) = Cell(me, i)
          BY <2>0, <3>7, <4>1 DEF KeptApart, PutWaits, i
        <4>2. CASE New(me, i) # Cell(me, i)
          <5>1. op.kind = "put" /\ op.owner = me /\ op.id = i /\ New(me, i) = op.n
            BY <1>0, <1>3, <3>1, <3>7, <4>2
          <5>2. op.n = d.saw \/ op.n > d.n
            BY <1>3, <2>0, <3>2, <3>7, <5>1 DEF KeptApart, DeleteMeetsSeen
          <5>3. op.n # d.saw
            <6>1. Executed(me, d.saw)
              BY <1>7, <3>7 DEF StoreIInv, SeenIsExecuted
            <6>2. me = op.owner => d.saw # op.n
              BY <1>3, <1>4, <6>1
            <6> QED
              BY <5>1, <6>2
          <5> QED
            BY <1>1, <5>1, <5>2, <5>3
        <4> QED
          BY <4>1, <4>2
      <3> QED
        BY <1>1, <3>6, <3>7 DEF PutWaits, i, Cell, New
    <2>5. PutIsLatest'
      <3>1. \A q \in SignedOps \cup {watch} : q.kind = "put" => q.id \in Ids /\ q.owner \in Owners
        BY <1>6, <1>7
      <3>2. \A q \in SignedOps' \cup {watch} : q.kind = "put" =>
              \A x \in Contents : Live(q.owner, q.id, x)' => x \in 1..MaxOps /\ x >= q.n
        BY <1>1, <1>5, <2>0, <3>1 DEF KeptApart, PutIsLatest
      <3>3. watch.kind = "put" /\ watch.owner = me =>
              \A a \in OwnReplies : a.cells[watch.id] # Nothing => chain'[me].guard >= watch.n
        <4>1. watch.n \in Nat
          BY DEF StoreIInv, StoreShape, GoodOp, OpRecords
        <4> QED
          BY <1>1, <1>3, <2>0, <4>1 DEF KeptApart, PutIsLatest
      <3> QED
        BY <1>1, <3>2, <3>3 DEF PutIsLatest
    <2> QED
      BY <2>1, <2>2, <2>3, <2>4, <2>5 DEF KeptApart
  <1> QED
    BY <1>1, <1>8, <1>10, <1>11 DEF StoreIInv

-----------------------------------------------------------------------------
(* The invariant, and what follows from it.                                *)

\* The invariant holds at the start.
LEMMA StoreInitOK == StoreInit => StoreIInv
  <1> SUFFICES ASSUME StoreInit PROVE StoreIInv
    OBVIOUS
  <1>1. /\ chain \in [Owners -> [list : Stored, guard : {0}]]
        /\ me \in Owners /\ shown = NoList /\ loaded = FALSE /\ loading = FALSE
        /\ seq = 0 /\ reads = {} /\ pendingOp = NoOp /\ asking = FALSE /\ busy = FALSE
        /\ opsFlying = {} /\ sent = {} /\ watch = NoOp /\ session = 0 /\ opCount = 0
        /\ collided = FALSE
    BY DEF StoreInit
  <1>2. GoodOp(NoOp) /\ NoOp.kind = "none" /\ NoOp.n = 0 /\ GoodView(NoList) /\ ~NoList.exists
    BY <1>1, Empties
  <1>3. {Limit, MaxOps, MaxReads, MaxLocks} \subseteq Nat
    BY StorageAssumptions
  <1>4. \A l \in Stored : /\ GoodLists(l) /\ Cardinality(TakenIds(l)) <= Limit
                          /\ \A i \in Ids : l.cells[i] \in {Nothing, Junk, Old}
    <2>1. {Nothing, Junk, Old} \subseteq Contents
      BY DEF Contents
    <2> QED
      BY <2>1, StorageAssumptions DEF GoodLists, Lists
  <1>5. chain \in [Owners -> [list : Lists, guard : 0..MaxOps]]
    BY <1>1, <1>3, <1>4 DEF GoodLists
  <1>6. SignedOps = {} /\ OwnReplies = {} /\ Views = {} /\ AllRequests = {NoOp}
    BY <1>1, <1>2 DEF SignedOps, OwnReplies, Views, AllRequests
  <1>7. StoreShape
    <2>1. \A o \in Owners : /\ GoodLists(chain[o].list)
                            /\ Cardinality(TakenIds(chain[o].list)) <= Limit
      BY <1>1, <1>4
    <2>2. seq \in 0..MaxReads /\ session \in 0..MaxLocks /\ opCount \in 0..MaxOps
          /\ watch.n <= opCount
      BY <1>1, <1>2, <1>3
    <2>3. GoodView(shown) /\ GoodOp(pendingOp) /\ GoodOp(watch) /\ pendingOp.kind = "none"
          /\ watch.kind = "none"
      BY <1>1, <1>2
    <2> QED
      BY <1>1, <1>5, <1>6, <2>1, <2>2, <2>3 DEF StoreShape
  <1>8. ReadsApart
    BY <1>1 DEF ReadsApart
  <1>9. SeenIsExecuted
    <2>1. \A o \in Owners, i \in Ids : Cell(o, i) \in {Nothing, Junk, Old}
      BY <1>1, <1>4 DEF Cell
    <2>2. \A o \in Owners, i \in Ids : Executed(o, Cell(o, i))
      BY <1>3, <2>1 DEF Executed, Nothing, Junk, Old
    <2> QED
      BY <1>2, <1>6, <2>2 DEF SeenIsExecuted
  <1>10. ViewsAdvance
    BY <1>1, <1>2, <1>6 DEF ViewsAdvance
  <1>11. KeptApart
    BY <1>1, <1>2, <1>6
       DEF KeptApart, OneLive, ViewIsLive, DeleteMeetsSeen, PutWaits, PutIsLatest, Live
  <1> QED
    BY <1>7, <1>8, <1>9, <1>10, <1>11 DEF StoreIInv

\* Every step keeps the invariant.
LEMMA StoreNextOK == StoreIInv /\ [StoreNext]_storeVars => StoreIInv'
  <1> SUFFICES ASSUME StoreIInv, [StoreNext]_storeVars PROVE StoreIInv'
    OBVIOUS
  <1>0. StoreShape /\ ReadsApart /\ SeenIsExecuted /\ ViewsAdvance /\ (~collided => KeptApart)
    BY DEF StoreIInv
  <1>1. ASSUME StoreShape', ReadsApart', Quiet PROVE StoreIInv'
    BY <1>0, <1>1, QuietKeeps DEF StoreIInv
  <1>2. CASE RefreshStorage \/ GiveUp \/ CancelRequest \/ LockAndUnlock
    BY <1>0, <1>1, <1>2, RefreshQuiet, GiveUpQuiet, LockQuiet
  <1>3. CASE CreateStorage \/ AddStorageRecord \/ DispatchAuthorizedStorage
    BY <1>3, CreateKeeps, AddKeeps, DispatchKeeps
  <1>4. ASSUME NEW i \in Ids, DeleteStorageRecord(i) PROVE StoreIInv'
    BY <1>4, DeleteKeeps
  <1>5. ASSUME NEW o \in Owners, NEW open \in BOOLEAN, OtherIdentity(o, open) PROVE StoreIInv'
    BY <1>5, IdentityKeeps
  <1>6. ASSUME NEW r \in reads, NodeReads(r) \/ StorageLoaded(r) \/ StorageLoadFailed(r)
        PROVE  StoreIInv'
    BY <1>0, <1>1, <1>6, NodeReadsKeeps, LoadedQuiet, LoadFailedQuiet
  <1>7. ASSUME NEW op \in opsFlying, NEW t \in BOOLEAN,
               OpNotSent(op) \/ StorageFinished(op) \/ Broadcast(op, t)
        PROVE  StoreIInv'
    BY <1>0, <1>1, <1>7, BroadcastQuiet, FinishedQuiet
  <1>8. ASSUME NEW op \in sent, Execute(op) \/ Lost(op) PROVE StoreIInv'
    BY <1>0, <1>1, <1>8, ExecuteKeeps, LostQuiet
  <1>9. CASE UNCHANGED storeVars
    <2>1. UNCHANGED <<shown, loaded, loading, seq, reads, watch, pendingOp, asking, busy, opsFlying,
                      opCount, collided, chain, sent, me, session>>
      BY <1>9 DEF storeVars, ui, request, network
    <2>2. SignedOps' = SignedOps /\ OwnReplies' = OwnReplies
      BY <2>1 DEF SignedOps, OwnReplies, OwnRead
    <2>3. StoreShape' /\ ReadsApart'
      BY <1>0, <2>1, <2>2 DEF StoreShape, ReadsApart, OwnRead
    <2>4. Quiet
      BY <2>1, <2>2 DEF Quiet, Twin
    <2> QED
      BY <1>1, <2>3, <2>4
  <1> QED
    BY <1>2, <1>3, <1>4, <1>5, <1>6, <1>7, <1>8, <1>9 DEF StoreNext

\* The invariant implies the types.
LEMMA StoreTyped == StoreIInv => StoreTypeOK
  <1> SUFFICES ASSUME StoreShape PROVE StoreTypeOK
    BY DEF StoreIInv
  <1>1. ASSUME NEW op \in SignedOps
        PROVE  op \in [kind : {"create", "put", "delete"}, id : 0..(Limit + 1),
                       saw : Contents, n : 1..MaxOps, owner : Owners, session : 0..MaxLocks,
                       state : {"preparing", "reached", "failed", "sent"}]
    <2>1. /\ op \in OpRecords /\ op.kind # "none" /\ op.state # "none" /\ op.n \in 1..opCount
          /\ opCount \in 0..MaxOps
      BY DEF StoreShape, GoodOp
    <2>2. op.n \in 1..MaxOps
      BY <2>1, StorageAssumptions
    <2> QED
      BY <2>1, <2>2 DEF OpRecords
  <1>2. shown.exists \in BOOLEAN /\ shown.cells \in [Ids -> Contents \ {Junk}]
    BY DEF StoreShape, GoodView, GoodLists, Lists
  <1> QED
    BY <1>1, <1>2 DEF StoreShape, StoreTypeOK, SignedOps, GoodLists

\* A delete that is executed removes what was seen, while numbers are apart.
LEMMA ExecutedDelete ==
    ASSUME StoreIInv, NEW op \in sent, Execute(op), op.kind = "delete", ~collided
    PROVE  chain[op.owner].list.cells[op.id] \in {Nothing, op.saw}
  <1> DEFINE c == Cell(op.owner, op.id)
  <1>1. /\ op \in SignedOps /\ op.owner \in Owners /\ op.id \in Ids /\ op.n \in Nat
        /\ op.n > chain[op.owner].guard /\ chain[op.owner].guard \in Nat
    BY ExecuteFacts DEF StoreIInv, StoreShape, GoodOp
  <1>2. c \in Contents /\ Executed(op.owner, c)
    BY <1>1 DEF StoreIInv, StoreShape, SeenIsExecuted, GoodLists, Lists, Cell
  <1>3. c # Nothing => Live(op.owner, op.id, c)
    BY DEF Live
  <1>4. c # Nothing => c = op.saw \/ (c \in 1..MaxOps /\ c > op.n)
    BY <1>1, <1>2, <1>3 DEF StoreIInv, KeptApart, DeleteMeetsSeen
  <1>5. ~(c \in 1..MaxOps /\ c > op.n)
    BY <1>1, <1>2 DEF Executed
  <1> QED
    BY <1>4, <1>5 DEF Cell

\* A watch that ends with a new list ends for a request that was done.
LEMMA AnsweredWatch ==
    ASSUME StoreIInv, NEW r \in reads, r.read, OwnRead(r), watch # NoOp, ~collided,
           watch.owner = me, MetBy(watch, r.list)
    PROVE  Done(watch)
  <1>1. r.list \in OwnReplies /\ r.list \in Views /\ watch \in AllRequests /\ watch \in OpRecords
    BY DEF OwnReplies, Views, AllRequests, StoreIInv, StoreShape, GoodOp
  <1>2. watch.kind \in {"create", "put", "delete"}
    BY <1>1 DEF StoreIInv, StoreShape, OpRecords
  <1>3. CASE watch.kind = "create"
    BY <1>1, <1>3 DEF StoreIInv, ViewsAdvance, MetBy, Done
  <1>4. CASE watch.kind = "put"
    BY <1>1, <1>4 DEF StoreIInv, KeptApart, PutIsLatest, MetBy, Done
  <1>5. CASE watch.kind = "delete"
    BY <1>1, <1>5 DEF StoreIInv, ViewsAdvance, MetBy, Done, Cell
  <1> QED
    BY <1>2, <1>3, <1>4, <1>5

(* For any number of identities, records, requests, reads and locks: the   *)
(* inductive invariant of the record storage (storage.rs), with its types. *)
THEOREM StoreInvariant == StoreSpec => [](StoreIInv /\ StoreTypeOK)
  BY StoreInitOK, StoreNextOK, StoreTyped, PTL DEF StoreSpec

(* A delete that is executed removes the record its user saw under that    *)
(* number or nothing, and a watch ends by a list only if what it waited    *)
(* for has been done, although numbers are reused and lists arrive late    *)
(* (apply_storage_loaded, dispatch_authorized_storage, met_by).            *)
THEOREM StoreRecordsSafe == StoreSpec => RecordsAreSafe
  <1>1. ASSUME StoreIInv, StoreTypeOK', [StoreNext]_storeVars
        PROVE  [StoreTypeOK' /\ DeleteRemovesWhatWasSeen /\ SettledMeansDone]_storeVars
    <2> SUFFICES ASSUME StoreNext
                 PROVE  StoreTypeOK' /\ DeleteRemovesWhatWasSeen /\ SettledMeansDone
      BY <1>1
    <2>1. DeleteRemovesWhatWasSeen
      <3> SUFFICES ASSUME NEW op \in sent \ sent', op.kind = "delete",
                          op.n = chain'[op.owner].guard, chain[op.owner].guard # op.n, ~collided
                   PROVE  chain[op.owner].list.cells[op.id] \in {Nothing, op.saw}
        BY DEF DeleteRemovesWhatWasSeen
      <3>1. sent' # sent
        OBVIOUS
      <3>2. PICK q \in sent : Execute(q) \/ Lost(q)
        BY <3>1 DEF StoreNext, RefreshStorage, GiveUp, CreateStorage, AddStorageRecord,
             CancelRequest, DispatchAuthorizedStorage, LockAndUnlock, DeleteStorageRecord,
             OtherIdentity, NodeReads, StorageLoaded, StorageLoadFailed, OpNotSent,
             StorageFinished, Broadcast, RequestOp, network
      <3>3. sent' = sent \ {q} /\ op = q
        BY <3>2 DEF Execute, Lost
      <3>4. Execute(op)
        BY <3>2, <3>3 DEF Lost
      <3> QED
        BY <1>1, <3>4, ExecutedDelete
    <2>2. SettledMeansDone
      <3> SUFFICES ASSUME watch # NoOp, watch' = NoOp, shown' # shown, ~collided,
                          watch.owner = me, me' = me
                   PROVE  Done(watch)
        BY DEF SettledMeansDone
      <3>1. PICK r \in reads : StorageLoaded(r)
        BY DEF StoreNext, RefreshStorage, GiveUp, CreateStorage, AddStorageRecord,
             CancelRequest, DispatchAuthorizedStorage, LockAndUnlock, DeleteStorageRecord,
             OtherIdentity, NodeReads, StorageLoadFailed, OpNotSent, StorageFinished,
             Broadcast, Execute, Lost, RequestOp, ui
      <3>2. r.read /\ OwnRead(r) /\ MetBy(watch, r.list)
        BY <3>1 DEF StorageLoaded
      <3> QED
        BY <1>1, <3>2, AnsweredWatch
    <2> QED
      BY <1>1, <2>1, <2>2
  <1> QED
    BY <1>1, StoreInvariant, PTL DEF StoreSpec, RecordsAreSafe

-----------------------------------------------------------------------------
(* Affordability: sums.                                                    *)

\* t adds up, one after the other, the weights w of the numbers in S.
AddsUp(t, w, S, N) ==
    /\ t[0] = 0
    /\ \A n \in 1..N : t[n] = t[n - 1] + IF n \in S THEN w[n] ELSE 0

\* There is such a sum.
LEMMA SumExists ==
    ASSUME NEW N \in Nat, NEW w \in [1..N -> Nat], NEW S
    PROVE  \E t \in [0..N -> Nat] : AddsUp(t, w, S, N)
  <1> DEFINE P(k) == \E t \in [0..k -> Nat] :
                        /\ t[0] = 0
                        /\ \A n \in 1..k : t[n] = t[n - 1] + IF n \in S THEN w[n] ELSE 0
             Bad == {k \in 0..N : ~P(k)}
  <1>1. P(0)
    <2> DEFINE z == [n \in 0..0 |-> 0]
    <2>1. z \in [0..0 -> Nat] /\ z[0] = 0 /\ 1..0 = {}
      OBVIOUS
    <2> QED
      BY <2>1
  <1>2. ASSUME NEW k \in 1..N, P(k - 1) PROVE P(k)
    <2>1. PICK t \in [0..(k - 1) -> Nat] :
            /\ t[0] = 0
            /\ \A n \in 1..(k - 1) : t[n] = t[n - 1] + IF n \in S THEN w[n] ELSE 0
      BY <1>2
    <2> DEFINE e == IF k \in S THEN w[k] ELSE 0
               u == [n \in 0..k |-> IF n = k THEN t[k - 1] + e ELSE t[n]]
    <2>2. e \in Nat /\ t[k - 1] \in Nat
      BY <1>2
    <2>3. u \in [0..k -> Nat]
      BY <1>2, <2>2
    <2>4. u[0] = 0
      BY <1>2, <2>1
    <2>5. \A n \in 1..k : u[n] = u[n - 1] + IF n \in S THEN w[n] ELSE 0
      BY <1>2, <2>1
    <2> QED
      BY <2>3, <2>4, <2>5
  <1> HIDE DEF P
  <1>3. Bad = {}
    <2> SUFFICES ASSUME Bad # {} PROVE FALSE
      OBVIOUS
    <2>1. Bad \subseteq Nat
      OBVIOUS
    <2> HIDE DEF Bad
    <2>2. PICK k \in Bad : \A j \in Bad : k <= j
      BY <2>1, LeastNat
    <2> USE DEF Bad
    <2>3. k \in 1..N
      BY <1>1, <2>2
    <2>4. P(k - 1)
      BY <2>2, <2>3
    <2> QED
      BY <1>2, <2>2, <2>3, <2>4
  <1>4. P(N)
    BY <1>3
  <1> QED
    BY <1>4 DEF P, AddsUp

\* Two such sums are the same.
LEMMA SumUnique ==
    ASSUME NEW N \in Nat, NEW w, NEW S, NEW s, NEW t, AddsUp(s, w, S, N), AddsUp(t, w, S, N)
    PROVE  s[N] = t[N]
  <1> DEFINE Bad == {n \in 0..N : s[n] # t[n]}
  <1>1. Bad \subseteq Nat
    OBVIOUS
  <1>2. Bad = {}
    <2> SUFFICES ASSUME Bad # {} PROVE FALSE
      OBVIOUS
    <2> HIDE DEF Bad
    <2>1. PICK k \in Bad : \A j \in Bad : k <= j
      BY <1>1, LeastNat
    <2> USE DEF Bad
    <2>2. k \in 1..N
      BY <2>1 DEF AddsUp
    <2>3. s[k - 1] = t[k - 1]
      BY <2>1, <2>2
    <2> QED
      BY <2>1, <2>2, <2>3 DEF AddsUp
  <1> QED
    BY <1>2

\* The sum of the weights of S.
SumOf(w, S, N) == (CHOOSE t : AddsUp(t, w, S, N))[N]

\* Any t that adds up gives the sum.
LEMMA SumOfIs ==
    ASSUME NEW N \in Nat, NEW w, NEW S, NEW t, AddsUp(t, w, S, N)
    PROVE  SumOf(w, S, N) = t[N]
  <1> DEFINE c == CHOOSE u : AddsUp(u, w, S, N)
  <1>1. AddsUp(c, w, S, N)
    OBVIOUS
  <1> HIDE DEF c
  <1>2. c[N] = t[N]
    BY <1>1, SumUnique
  <1> QED
    BY <1>2 DEF SumOf, c

\* The sum of natural weights is a natural number.
LEMMA SumOfType ==
    ASSUME NEW N \in Nat, NEW w \in [1..N -> Nat], NEW S
    PROVE  SumOf(w, S, N) \in Nat
  <1>1. PICK t \in [0..N -> Nat] : AddsUp(t, w, S, N)
    BY SumExists
  <1>2. SumOf(w, S, N) = t[N] /\ N \in 0..N
    BY <1>1, SumOfIs
  <1> QED
    BY <1>1, <1>2

\* The sum over the empty set is 0.
LEMMA SumOfEmpty ==
    ASSUME NEW N \in Nat, NEW w \in [1..N -> Nat]
    PROVE  SumOf(w, {}, N) = 0
  <1> DEFINE z == [n \in 0..N |-> 0]
  <1>1. AddsUp(z, w, {}, N)
    BY DEF AddsUp
  <1> QED
    BY <1>1, SumOfIs

\* The sum is the weight of any element and the sum of the others.
LEMMA SumOfLess ==
    ASSUME NEW N \in Nat, NEW w \in [1..N -> Nat], NEW S \in SUBSET (1..N), NEW x \in S
    PROVE  SumOf(w, S, N) = w[x] + SumOf(w, S \ {x}, N)
  <1>1. PICK t \in [0..N -> Nat] : AddsUp(t, w, S \ {x}, N)
    BY SumExists
  <1> DEFINE u == [n \in 0..N |-> t[n] + IF x <= n THEN w[x] ELSE 0]
  <1>2. x \in 1..N /\ w[x] \in Nat /\ t \in [0..N -> Nat] /\ t[0] = 0
    BY <1>1 DEF AddsUp
  <1>3. u \in [0..N -> Nat] /\ u[0] = 0 /\ u[N] = t[N] + w[x]
    BY <1>2
  <1>4. ASSUME NEW n \in 1..N PROVE u[n] = u[n - 1] + IF n \in S THEN w[n] ELSE 0
    <2>1. /\ t[n] = t[n - 1] + IF n \in S \ {x} THEN w[n] ELSE 0
          /\ t[n - 1] \in Nat /\ n - 1 \in 0..N /\ w[n] \in Nat
      BY <1>1, <1>2, <1>4 DEF AddsUp
    <2>2. CASE n = x
      <3>1. u[n] = t[n] + w[x] /\ u[n - 1] = t[n - 1] + 0 /\ t[n] = t[n - 1] + 0 /\ n \in S
        BY <1>2, <2>1, <2>2
      <3> QED
        BY <1>2, <2>1, <2>2, <3>1
    <2>3. CASE n # x
      <3> DEFINE e == IF x <= n THEN w[x] ELSE 0
                 d == IF n \in S THEN w[n] ELSE 0
      <3>1. (x <= n) <=> (x <= n - 1)
        BY <1>2, <2>3
      <3>2. u[n] = t[n] + e /\ e \in Nat /\ d \in Nat
        BY <1>2, <2>1
      <3>3. u[n - 1] = t[n - 1] + e
        BY <2>1, <3>1
      <3>4. t[n] = t[n - 1] + d
        BY <2>1, <2>3
      <3> HIDE DEF e, d, u
      <3>5. u[n] = u[n - 1] + d
        BY <2>1, <3>2, <3>3, <3>4
      <3> QED
        BY <3>5 DEF d
    <2> QED
      BY <2>2, <2>3
  <1>5. AddsUp(u, w, S, N)
    BY <1>3, <1>4 DEF AddsUp
  <1>6. SumOf(w, S, N) = u[N] /\ SumOf(w, S \ {x}, N) = t[N]
    BY <1>1, <1>5, SumOfIs
  <1> QED
    BY <1>2, <1>3, <1>6

\* Adding the numbers of a set up in any order.
\* The sum that NeverOverdraws forms, one element of the set after the other.
RowSum(given, N) == CHOOSE g : g = [S \in SUBSET (1..N) |->
    IF S = {} THEN 0 ELSE given[CHOOSE x \in S : TRUE].amount + g[S \ {CHOOSE x \in S : TRUE}]]

\* It is the sum of the weights, whatever order CHOOSE takes the elements in.
LEMMA SetSum ==
    ASSUME NEW N \in Nat, NEW w \in [1..N -> Nat], NEW given,
           \A n \in 1..N : given[n].amount = w[n]
    PROVE  \A S \in SUBSET (1..N) : RowSum(given, N)[S] = SumOf(w, S, N)
  <1>0. IsFiniteSet(1..N)
    <2>1. 1 \in Int /\ N \in Int
      OBVIOUS
    <2> QED
      BY <2>1, FS_Interval, Zenon
  <1> DEFINE f == RowSum(given, N)
  <1> DEFINE D == SUBSET (1..N)
             pick(S) == CHOOSE x \in S : TRUE
             Body(g, S) == IF S = {} THEN 0 ELSE given[pick(S)].amount + g[S \ {pick(S)}]
             g0 == [S \in D |-> SumOf(w, S, N)]
  <1>1. \A S \in D : S # {} => pick(S) \in S /\ S \ {pick(S)} \in D
    OBVIOUS
  <1>2. \A S \in D : SumOf(w, S, N) = Body(g0, S)
    <2> SUFFICES ASSUME NEW S \in D PROVE SumOf(w, S, N) = Body(g0, S)
      OBVIOUS
    <2>1. CASE S = {}
      BY <2>1, SumOfEmpty
    <2>2. CASE S # {}
      <3>1. /\ pick(S) \in S /\ g0[S \ {pick(S)}] = SumOf(w, S \ {pick(S)}, N)
            /\ given[pick(S)].amount = w[pick(S)]
        BY <1>1, <2>2
      <3> HIDE DEF pick, g0
      <3>2. SumOf(w, S, N) = w[pick(S)] + SumOf(w, S \ {pick(S)}, N)
        BY <3>1, SumOfLess
      <3> QED
        BY <2>2, <3>1, <3>2
    <2> QED
      BY <2>1, <2>2
  <1>3. g0 = [S \in D |-> Body(g0, S)]
    BY <1>2
  <1>4. f = [S \in D |-> Body(f, S)]
    <2>1. \E g : g = [S \in D |-> Body(g, S)]
      BY <1>3
    <2> QED
      BY <2>1 DEF RowSum
  <1> HIDE DEF g0, f
  <1>5. ASSUME NEW S \in D, f[S] # g0[S] PROVE FALSE
    <2> DEFINE Bad == {Cardinality(T) : T \in {U \in D : f[U] # g0[U]}}
    <2>1. \A T \in D : IsFiniteSet(T) /\ Cardinality(T) \in Nat
      BY <1>0, FS_Subset, FS_CardinalityType
    <2>2. Bad \subseteq Nat /\ Bad # {}
      BY <1>5, <2>1
    <2> HIDE DEF Bad
    <2>3. PICK c \in Bad : \A j \in Bad : c <= j
      BY <2>2, LeastNat
    <2> USE DEF Bad
    <2>4. PICK T \in D : f[T] # g0[T] /\ c = Cardinality(T)
      BY <2>3
    <2>5. f[T] = Body(f, T) /\ g0[T] = Body(g0, T)
      BY <1>3, <1>4
    <2>6. T # {}
      BY <2>4, <2>5
    <2>7. pick(T) \in T /\ T \ {pick(T)} \in D
      BY <1>1, <2>6
    <2> HIDE DEF pick
    <2>8. Cardinality(T \ {pick(T)}) = Cardinality(T) - 1
      BY <2>1, <2>7, FS_RemoveElement, Zenon
    <2>9. f[T \ {pick(T)}] = g0[T \ {pick(T)}]
      <3> SUFFICES ASSUME f[T \ {pick(T)}] # g0[T \ {pick(T)}] PROVE FALSE
        OBVIOUS
      <3>1. Cardinality(T \ {pick(T)}) \in Bad
        BY <2>7
      <3>2. c <= c - 1 /\ c \in Nat
        BY <2>1, <2>3, <2>4, <2>8, <3>1
      <3> QED
        BY <3>2
    <2> QED
      BY <2>4, <2>5, <2>6, <2>9
  <1> QED
    BY <1>5 DEF g0, f

-----------------------------------------------------------------------------
(* Affordability: what is reserved and what fits.                          *)

Weights(in) == [n \in 1..Len(in.rows) |-> in.rows[n].amount]
CountedRows(in, a) == {n \in 1..Len(in.rows) : Counts(in, a, in.rows[n])}

\* What an input is made of.
LEMMA InputFacts ==
    ASSUME NEW in \in Inputs
    PROVE  /\ Len(in.rows) \in Nat /\ in.rows \in Seq(Rows) /\ in.overlap \in Seq(Rows)
           /\ Weights(in) \in [1..Len(in.rows) -> Nat]
           /\ in.balance \in [Assets -> Nat] /\ in.asset \in Assets /\ Native \in Assets
           /\ in.amount \in Nat /\ in.exact \in Nat
           /\ Relevant(in) \subseteq Assets
  <1>1. in.rows \in Seq(Rows)
    <2>1. PICK n \in 0..MaxRows : in.rows \in [1..n -> Rows]
      BY DEF Inputs, RowLists
    <2>2. n \in Nat
      BY AffordAssumptions
    <2> QED
      BY <2>1, <2>2, SeqDef
  <1>2. in.overlap \in Seq(Rows)
    <2>1. PICK n \in 0..1 : in.overlap \in [1..n -> Rows]
      BY DEF Inputs
    <2>2. n \in Nat
      OBVIOUS
    <2> QED
      BY <2>1, <2>2, SeqDef
  <1>3. Len(in.rows) \in Nat /\ \A n \in 1..Len(in.rows) : in.rows[n] \in Rows
    BY <1>1
  <1>4. \A r \in Rows : r.amount \in Nat /\ r.asset \in Assets
    BY AffordAssumptions DEF Rows
  <1>5. Weights(in) \in [1..Len(in.rows) -> Nat]
    BY <1>3, <1>4 DEF Weights
  <1>6. in.balance \in [Assets -> Nat] /\ in.asset \in Assets /\ Native \in Assets
        /\ in.amount \in Nat /\ in.exact \in Nat
    <2>1. /\ in.balance \in [Assets -> 0..Cap] /\ in.asset \in Assets
          /\ in.amount \in Amounts /\ in.exact \in Fees
      BY DEF Inputs
    <2>2. 0..Cap \subseteq Nat
      BY AffordAssumptions
    <2>3. in.balance \in [Assets -> Nat]
      BY <2>1, <2>2
    <2> QED
      BY <2>1, <2>3, AffordAssumptions DEF Assets
  <1>7. Relevant(in) \subseteq Assets
    BY <1>3, <1>4, <1>6 DEF Relevant
  <1> QED
    BY <1>1, <1>2, <1>3, <1>5, <1>6, <1>7

\* The running total is the sum of the rows that count.
LEMMA ReservedIs ==
    ASSUME NEW in \in Inputs, NEW a
    PROVE  /\ Reserved(in, a) = SumOf(Weights(in), CountedRows(in, a), Len(in.rows))
           /\ Reserved(in, a) \in Nat
  <1> DEFINE N == Len(in.rows)
             w == Weights(in)
             K == CountedRows(in, a)
             e(n) == IF Counts(in, a, in.rows[n]) THEN in.rows[n].amount ELSE 0
             s == CHOOSE t : t = [n \in 0..N |-> IF n = 0 THEN 0 ELSE t[n - 1] + e(n)]
  <1>1. N \in Nat /\ w \in [1..N -> Nat]
    BY InputFacts
  <1>2. \A n \in 1..N : e(n) = IF n \in K THEN w[n] ELSE 0
    BY DEF Weights, CountedRows
  <1>3. Reserved(in, a) = s[N]
    BY DEF Reserved
  <1> HIDE DEF e, w, K, N
  <1>4. PICK t \in [0..N -> Nat] : AddsUp(t, w, K, N)
    BY <1>1, SumExists
  <1>5. t = [n \in 0..N |-> IF n = 0 THEN 0 ELSE t[n - 1] + e(n)]
    <2>1. ASSUME NEW n \in 0..N PROVE t[n] = IF n = 0 THEN 0 ELSE t[n - 1] + e(n)
      <3>1. CASE n = 0
        BY <1>4, <3>1 DEF AddsUp
      <3>2. CASE n # 0
        <4>1. n \in 1..N
          BY <1>1, <3>2
        <4>2. t[n] = t[n - 1] + (IF n \in K THEN w[n] ELSE 0)
          BY <1>4, <4>1 DEF AddsUp
        <4> QED
          BY <1>2, <3>2, <4>1, <4>2
      <3> QED
        BY <3>1, <3>2
    <2> QED
      BY <1>4, <2>1
  <1>6. s = [n \in 0..N |-> IF n = 0 THEN 0 ELSE s[n - 1] + e(n)]
    BY <1>5
  <1> HIDE DEF s
  <1>7. AddsUp(s, w, K, N)
    BY <1>1, <1>2, <1>6 DEF AddsUp
  <1>8. SumOf(w, K, N) = s[N] /\ SumOf(w, K, N) \in Nat
    BY <1>1, <1>7, SumOfIs, SumOfType
  <1> QED
    BY <1>3, <1>8 DEF w, K, N

\* What is requested of an asset is a natural number that grows with the fee.
LEMMA RequestedFacts ==
    ASSUME NEW in \in Inputs, NEW fee \in Nat, NEW less \in Nat, less <= fee, NEW a
    PROVE  /\ Requested(in, fee, a) \in Nat /\ Requested(in, less, a) \in Nat
           /\ Requested(in, less, a) <= Requested(in, fee, a)
  <1>1. in.amount \in Nat
    BY InputFacts
  <1> QED
    BY <1>1 DEF Requested

\* What is available of an asset is its balance without what is reserved of it.
LEMMA AvailableFacts ==
    ASSUME NEW in \in Inputs, NEW a \in Assets
    PROVE  /\ Available(in, a) \in Int /\ in.balance[a] \in Nat
           /\ Available(in, a) >= 0 => Reserved(in, a) + Available(in, a) = in.balance[a]
  <1>1. Reserved(in, a) \in Nat /\ in.balance[a] \in Nat
    BY ReservedIs, InputFacts
  <1> QED
    BY <1>1 DEF Available

\* A smaller fee fits where a larger one does.
LEMMA FitsBelow ==
    ASSUME NEW in \in Inputs, NEW fee \in Nat, NEW less \in Nat, less <= fee, Fits(in, fee)
    PROVE  Fits(in, less)
  <1> SUFFICES ASSUME NEW a \in Relevant(in)
               PROVE  Sufficient(in, a, Requested(in, less, a))
    BY DEF Fits
  <1>1. a \in Assets
    BY InputFacts
  <1>2. /\ Available(in, a) >= 0 /\ Requested(in, fee, a) <= in.balance[a]
        /\ Requested(in, fee, a) <= Available(in, a)
    BY DEF Fits, Sufficient
  <1>3. Available(in, a) \in Int /\ in.balance[a] \in Nat
    BY <1>1, AvailableFacts
  <1>4. /\ Requested(in, fee, a) \in Nat /\ Requested(in, less, a) \in Nat
        /\ Requested(in, less, a) <= Requested(in, fee, a)
    BY RequestedFacts
  <1> QED
    BY <1>2, <1>3, <1>4 DEF Sufficient

-----------------------------------------------------------------------------
(* Affordability: the search.                                              *)

\* From the exact fee on, lo fits; while the interval is halved, hi does not.
AffordInv ==
    /\ AffordTypeOK
    /\ stage \in {"desired", "search", "done"} => input.exact <= lo /\ Fits(input, lo)
    /\ stage = "desired" => lo = input.exact
    /\ stage = "search" => lo < hi /\ ~Fits(input, hi)
    /\ stage = "done" => lo = Desired(input) \/ ~Fits(input, lo + 1)

\* The numbers of the search are natural numbers.
LEMMA AffordNats ==
    ASSUME AffordTypeOK
    PROVE  /\ input \in Inputs /\ input.exact \in Nat /\ Headroom \in Nat
           /\ Desired(input) \in Nat /\ input.exact <= Desired(input)
           /\ lo \in Nat /\ hi \in Nat /\ lo <= Desired(input) /\ hi <= Desired(input)
  <1>1. input \in Inputs /\ input.exact \in Nat /\ Headroom \in Nat
    BY InputFacts, AffordAssumptions DEF AffordTypeOK
  <1>2. Desired(input) = input.exact + Headroom
    BY DEF Desired
  <1> QED
    BY <1>1, <1>2 DEF AffordTypeOK

\* The invariant of the search holds at the start.
LEMMA AffordInitOK == AffordInit => AffordInv
  <1> SUFFICES ASSUME AffordInit PROVE AffordInv
    OBVIOUS
  <1>1. input \in Inputs /\ stage = "exact" /\ lo = 0 /\ hi = 0
    BY DEF AffordInit
  <1>2. Desired(input) \in Nat
    BY <1>1, InputFacts, AffordAssumptions DEF Desired
  <1> QED
    BY <1>1, <1>2 DEF AffordInv, AffordTypeOK

\* Every step of the search keeps its invariant.
LEMMA AffordNextOK == AffordInv /\ [AffordNext]_affordVars => AffordInv'
  <1> SUFFICES ASSUME AffordInv, [AffordNext]_affordVars PROVE AffordInv'
    OBVIOUS
  <1>1. /\ input \in Inputs /\ input.exact \in Nat /\ Headroom \in Nat
        /\ Desired(input) \in Nat /\ input.exact <= Desired(input)
        /\ lo \in Nat /\ hi \in Nat /\ lo <= Desired(input) /\ hi <= Desired(input)
    BY AffordNats DEF AffordInv
  <1>2. Desired(input) = input.exact + Headroom
    BY DEF Desired
  <1>3. ASSUME NEW fee, Fail(fee) PROVE AffordInv'
    BY <1>1, <1>3 DEF Fail, AffordInv, AffordTypeOK
  <1>4. CASE CheckExact
    <2>1. CASE Answers(input.exact)
      <3>1. /\ stage' = (IF ~Fits(input, input.exact) THEN "refused"
                         ELSE IF Headroom = 0 THEN "done" ELSE "desired")
            /\ lo' = input.exact /\ UNCHANGED <<input, hi>>
        BY <1>4, <2>1 DEF CheckExact, Fail
      <3> QED
        BY <1>1, <1>2, <3>1 DEF AffordInv, AffordTypeOK
    <2> QED
      BY <1>3, <1>4, <2>1 DEF CheckExact
  <1>5. CASE CheckDesired
    <2>1. CASE Fits(input, Desired(input)) /\ stage' = "done" /\ lo' = Desired(input)
               /\ UNCHANGED <<input, hi>>
      BY <1>1, <2>1 DEF AffordInv, AffordTypeOK
    <2>2. CASE ~Fits(input, Desired(input)) /\ stage = "desired" /\ stage' = "search"
               /\ hi' = Desired(input) /\ UNCHANGED <<input, lo>>
      <3>1. lo # Desired(input)
        BY <2>2 DEF AffordInv
      <3> QED
        BY <1>1, <2>2, <3>1 DEF AffordInv, AffordTypeOK
    <2> QED
      BY <1>3, <1>5, <2>1, <2>2 DEF CheckDesired
  <1>6. CASE Halve
    <2> DEFINE mid == lo + (hi - lo) \div 2
    <2>1. stage = "search" /\ lo + 1 < hi /\ UNCHANGED <<input, stage>>
      BY <1>6 DEF Halve, Apart
    <2>2. mid \in Nat /\ lo < mid /\ mid < hi
      BY <1>1, <2>1
    <2>3. IF Fits(input, mid) THEN lo' = mid /\ UNCHANGED hi ELSE hi' = mid /\ UNCHANGED lo
      BY <1>6 DEF Halve
    <2> HIDE DEF mid
    <2> QED
      BY <1>1, <2>1, <2>2, <2>3 DEF AffordInv, AffordTypeOK
  <1>7. CASE Settle
    <2>1. stage = "search" /\ ~(lo + 1 < hi) /\ stage' = "done" /\ UNCHANGED <<input, lo, hi>>
      BY <1>7 DEF Settle, Apart
    <2>2. lo + 1 = hi
      BY <1>1, <2>1 DEF AffordInv
    <2> QED
      BY <1>1, <2>1, <2>2 DEF AffordInv, AffordTypeOK
  <1>8. CASE UNCHANGED affordVars
    BY <1>8 DEF affordVars, AffordInv, AffordTypeOK
  <1> QED
    BY <1>4, <1>5, <1>6, <1>7, <1>8 DEF AffordNext

\* A finished search has the largest ceiling that fits.
LEMMA CeilingOK == AffordInv => CeilingIsLargest
  <1> SUFFICES ASSUME AffordInv, stage = "done"
               PROVE  /\ lo \in input.exact..Desired(input) /\ Fits(input, lo)
                      /\ \A fee \in (lo + 1)..Desired(input) : ~Fits(input, fee)
    BY DEF CeilingIsLargest
  <1>1. /\ input \in Inputs /\ input.exact \in Nat /\ Desired(input) \in Nat
        /\ lo \in Nat /\ lo <= Desired(input)
    BY AffordNats DEF AffordInv
  <1>2. input.exact <= lo /\ Fits(input, lo) /\ (lo = Desired(input) \/ ~Fits(input, lo + 1))
    BY DEF AffordInv
  <1>3. ASSUME NEW fee \in (lo + 1)..Desired(input) PROVE ~Fits(input, fee)
    <2>1. fee \in Nat /\ lo + 1 \in Nat /\ lo + 1 <= fee /\ ~Fits(input, lo + 1)
      BY <1>1, <1>2, <1>3
    <2> QED
      BY <1>1, <2>1, FitsBelow
  <1> QED
    BY <1>1, <1>2, <1>3

\* With the ceiling of a finished search no balance is overdrawn.
LEMMA OverdrawOK == AffordInv => NeverOverdraws
  <1> SUFFICES ASSUME AffordInv, stage = "done" PROVE NeverOverdraws
    BY DEF NeverOverdraws
  <1> DEFINE N == Len(input.rows)
             w == Weights(input)
             kept(a) == {i \in 1..N : /\ input.rows[i].asset = a
                                      /\ \A j \in 1..Len(input.overlap) :
                                            input.overlap[j] # input.rows[i]}
             f == RowSum(input.rows, N)
  <1>1. /\ input \in Inputs /\ N \in Nat /\ w \in [1..N -> Nat] /\ input.overlap \in Seq(Rows)
        /\ lo \in Nat /\ Fits(input, lo) /\ input.balance \in [Assets -> Nat]
        /\ Native \in Relevant(input) /\ input.asset \in Relevant(input)
    BY AffordNats, InputFacts DEF AffordInv, Relevant
  <1>2. ASSUME NEW a PROVE kept(a) = CountedRows(input, a)
    <2>1. DOMAIN input.overlap = 1..Len(input.overlap)
      BY <1>1
    <2>2. \A r : r \in ToSet(input.overlap) <=>
                \E j \in 1..Len(input.overlap) : input.overlap[j] = r
      BY <2>1 DEF ToSet
    <2> QED
      BY <2>2 DEF CountedRows, Counts
  <1>3. \A S \in SUBSET (1..N) : f[S] = SumOf(w, S, N)
    <2>1. \A n \in 1..N : input.rows[n].amount = w[n]
      BY DEF Weights
    <2> QED
      BY <1>1, <2>1, SetSum
  <1>4. ASSUME NEW a \in Assets
        PROVE  f[kept(a)] + Requested(input, lo, a) <= input.balance[a]
    <2>1. f[kept(a)] = Reserved(input, a) /\ Reserved(input, a) \in Nat
      <3>1. kept(a) = CountedRows(input, a) /\ kept(a) \in SUBSET (1..N)
        BY <1>2
      <3>2. f[kept(a)] = SumOf(w, CountedRows(input, a), N)
        BY <1>3, <3>1
      <3> QED
        BY <1>1, <3>2, ReservedIs
    <2>2. CASE a \in Relevant(input)
      <3>1. Available(input, a) >= 0 /\ Requested(input, lo, a) <= Available(input, a)
        BY <1>1, <2>2 DEF Fits, Sufficient
      <3>2. Available(input, a) \in Int /\ Requested(input, lo, a) \in Nat /\ input.balance[a] \in Nat
            /\ Reserved(input, a) + Available(input, a) = input.balance[a]
        BY <1>1, <3>1, AvailableFacts, RequestedFacts
      <3> QED
        BY <2>1, <3>1, <3>2
    <2>3. CASE a \notin Relevant(input)
      <3>1. kept(a) = {} /\ Requested(input, lo, a) = 0
        BY <1>1, <2>3 DEF Relevant, Requested
      <3>2. f[kept(a)] = SumOf(w, {}, N) /\ SumOf(w, {}, N) = 0
        BY <1>1, <1>3, <3>1, SumOfEmpty
      <3> QED
        BY <1>1, <3>1, <3>2
    <2> QED
      BY <2>2, <2>3
  <1> QED
    BY <1>4 DEF NeverOverdraws, RowSum

(* The fee ceiling that select_affordable_fee_ceiling chooses is the       *)
(* largest one from the exact fee up to the desired one that the balances  *)
(* carry, and with it no balance is overdrawn by what stays reserved and   *)
(* the new transfer together, for any assets, amounts and reservations.    *)
THEOREM AffordAmountsFit == AffordSpec => []AmountsFit
  <1>1. AffordInv => AmountsFit
    BY CeilingOK, OverdrawOK DEF AmountsFit, AffordInv
  <1> QED
    BY <1>1, AffordInitOK, AffordNextOK, PTL DEF AffordSpec
=============================================================================
