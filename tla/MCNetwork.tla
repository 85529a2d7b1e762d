------------------------------ MODULE MCNetwork ------------------------------
(* Answers from the network, in five parts that TLC explores side by side: *)
(* the queries of the pages, the snapshot and its subscription, the walk   *)
(* of a message trace, the JSON-RPC client, the fee estimate and MAX.  A   *)
(* behaviour is one of a single part; the variables of the others keep one *)
(* of their initial values.                                                *)
EXTENDS LateAnswers, LiveWallet, TraceWalk, JrpcClient, FeeEstimates, TLC

VARIABLE part

allVars == <<part, lateVars, liveVars, traceVars, rpcVars, feeVars>>

\* Endpoints and identities are interchangeable for the pages, so a behaviour
\* may start at any one of them.
MCInit ==
    /\ part \in {"late", "live", "trace", "rpc", "fee"}
    /\ LateInit /\ world = CHOOSE w \in World : TRUE
    /\ part # "late" => active = {"clock"}
    /\ RpcInit
    /\ part # "rpc" => endpoint.host = "local" /\ endpoint.scheme = "http" /\ endpoint.path = "/"
    /\ TraceInit
    /\ part # "trace" => focus = 1 /\ pruned = {} /\ cause = [t \in Txs |-> t - 1]
    /\ LiveInit /\ FeeInit

MCNext ==
    \/ /\ part = "late" /\ LateNext /\ UNCHANGED <<part, liveVars, traceVars, rpcVars, feeVars>>
       /\ Cardinality(reqs') <= 4             \* bound: requests under way at once
    \/ /\ part = "live" /\ LiveNext /\ UNCHANGED <<part, lateVars, traceVars, rpcVars, feeVars>>
       /\ Len(custom') = 3 => liveGen' <= 2   \* bound
    \/ part = "trace" /\ TraceNext /\ UNCHANGED <<part, lateVars, liveVars, rpcVars, feeVars>>
    \/ part = "rpc" /\ RpcNext /\ UNCHANGED <<part, lateVars, liveVars, traceVars, feeVars>>
    \/ part = "fee" /\ FeeNext /\ UNCHANGED <<part, lateVars, liveVars, traceVars, rpcVars>>

MCSpec == MCInit /\ [][MCNext]_allVars
=============================================================================
