----------------------------- MODULE TraceWalk -----------------------------
(***************************************************************************)
(* A message trace in the explorer: from the transaction asked for the     *)
(* walk climbs to the transaction that started it all, then descends level *)
(* by level through the internal messages, asking for every level at once, *)
(* until nothing is pending or a limit is met.  flatten turns the nodes    *)
(* into edges and counts what was not executed.                            *)
(* cc-wallet-chain: wallet_service.rs (trace_transaction), trace.rs.       *)
(*                                                                         *)
(* External: the chain, a tree of transactions of which an endpoint may    *)
(* have dropped some.  Answers of one level arrive in any order.           *)
(***************************************************************************)
EXTENDS Naturals, FiniteSets

CONSTANTS
    Size,        \* bound: transactions of the whole tree
    MaxTxs,      \* TRACE_MAX_TRANSACTIONS
    MaxDepth,    \* TRACE_MAX_DEPTH
    MaxClimb     \* TRACE_MAX_CLIMB

\* The climb is no longer than the descent (trace.rs: both are 12).
ASSUME TraceAssumptions ==
    /\ Size \in Nat /\ MaxTxs \in Nat \ {0} /\ MaxDepth \in Nat
    /\ MaxClimb \in Nat /\ MaxClimb <= MaxDepth

Txs == 1..Size
NoTx == 0

VARIABLES
    cause,     \* the chain: the transaction whose message started each one
    pruned,    \* transactions the endpoint no longer lists
    missed,    \* messages whose transaction the endpoint did not find
    focus,     \* the transaction asked for
    root,      \* where the climb has come to
    climbed,   \* steps of the climb so far
    pc,        \* climb, level, join, done, failed
    nodes,     \* transactions of the trace
    frontier,  \* nodes of the deepest level
    depth,     \* its depth
    asked,     \* transactions requested for the next level, still unanswered
    next,      \* transactions answered for it
    truncated  \* a limit was met

traceVars == <<cause, pruned, missed, focus, root, climbed, pc, nodes, frontier, depth, asked, next, truncated>>

Children(t) == {u \in Txs : cause[u] = t}

\* Types of the walk's state.
TraceTypeOK ==
    /\ cause \in [Txs -> Txs \cup {NoTx}] /\ pruned \subseteq Txs /\ missed \subseteq Txs
    /\ focus \in Txs /\ root \in Txs /\ climbed \in 0..MaxClimb
    /\ pc \in {"climb", "level", "join", "done", "failed"}
    /\ nodes \subseteq Txs /\ Cardinality(nodes) <= MaxTxs
    /\ frontier \subseteq nodes /\ depth \in 0..MaxDepth
    /\ asked \subseteq Txs /\ next \subseteq nodes /\ truncated \in BOOLEAN

\* A transaction is caused by an earlier one; the first has an external or no
\* inbound message.
TraceInit ==
    /\ cause \in {c \in [Txs -> Txs \cup {NoTx}] : \A t \in Txs : c[t] < t /\ (c[t] = NoTx <=> t = 1)}
    /\ focus \in Txs /\ pruned \in SUBSET (Txs \ {focus})
    /\ missed = {} /\ root = focus /\ climbed = 0 /\ pc = "climb"
    /\ nodes = {} /\ frontier = {} /\ depth = 0 /\ asked = {} /\ next = {}
    /\ truncated = FALSE

-----------------------------------------------------------------------------
\* The parent is looked for among the transactions of the message's sender
\* just before it: an endpoint that has dropped it ends the climb.
Climbable == cause[root] # NoTx /\ cause[root] \notin pruned

\* A plausible bug: the climb goes one step past its limit.
MutOneStepMore == climbed <= MaxClimb
MayClimb == climbed < MaxClimb

Climb ==
    /\ pc = "climb" /\ MayClimb /\ Climbable
    /\ root' = cause[root] /\ climbed' = climbed + 1
    /\ UNCHANGED <<cause, pruned, missed, focus, pc, nodes, frontier, depth, asked, next, truncated>>

\* No parent, or TRACE_MAX_CLIMB steps: the walk down starts here, and the
\* limit leaves no mark.
Top ==
    /\ pc = "climb" /\ ~(MayClimb /\ Climbable)
    /\ nodes' = {root} /\ frontier' = {root} /\ pc' = "level"
    /\ UNCHANGED <<cause, pruned, missed, focus, root, climbed, depth, asked, next, truncated>>

\* Every internal message of a transaction is pending, executed or not.
Pending(ts) == UNION {Children(t) : t \in ts}

Room == MaxTxs - Cardinality(nodes)

Finish(cut) ==
    /\ pc' = "done" /\ truncated' = (truncated \/ cut)
    /\ UNCHANGED <<cause, pruned, missed, focus, root, climbed, nodes, frontier, depth, asked, next>>

\* The requests of the next level, cut to the room that is left.
Level ==
    /\ pc = "level" /\ depth < MaxDepth /\ Pending(frontier) # {}
    /\ IF Room = 0 THEN Finish(TRUE)
       ELSE /\ asked' \in {a \in SUBSET Pending(frontier) :
                             IF Cardinality(Pending(frontier)) > Room THEN Cardinality(a) = Room
                             ELSE a = Pending(frontier)}
            /\ truncated' = (truncated \/ Cardinality(Pending(frontier)) > Room)
            /\ depth' = depth + 1 /\ next' = {} /\ pc' = "join"
            /\ UNCHANGED <<cause, pruned, missed, focus, root, climbed, nodes, frontier>>

\* One worker of the level ends: it found the transaction, or nothing.
Join ==
    /\ pc = "join"
    /\ \E t \in asked :
          /\ asked' = asked \ {t}
          /\ \/ nodes' = nodes \cup {t} /\ next' = next \cup {t} /\ UNCHANGED missed
             \/ missed' = missed \cup {t} /\ UNCHANGED <<nodes, next>>
    /\ UNCHANGED <<cause, pruned, focus, root, climbed, pc, frontier, depth, truncated>>

\* A worker ends in an error: so does the walk.
JoinFails ==
    /\ pc = "join" /\ asked # {}
    /\ pc' = "failed"
    /\ UNCHANGED <<cause, pruned, missed, focus, root, climbed, nodes, frontier, depth, asked, next, truncated>>

LevelEnds ==
    /\ pc = "join" /\ asked = {}
    /\ frontier' = next /\ pc' = "level"
    /\ UNCHANGED <<cause, pruned, missed, focus, root, climbed, nodes, depth, asked, next, truncated>>

\* Nothing is pending, or the deepest level is reached: what is pending there
\* is not looked for.
Bottom ==
    /\ pc = "level" /\ (depth = MaxDepth \/ Pending(frontier) = {})
    /\ Finish(Pending(frontier) # {})

Ended == pc \in {"done", "failed"} /\ UNCHANGED traceVars

TraceNext == Climb \/ Top \/ Level \/ Join \/ JoinFails \/ LevelEnds \/ Bottom \/ Ended

TraceSpec == TraceInit /\ [][TraceNext]_traceVars

-----------------------------------------------------------------------------
(* flatten: one edge per message of every node                             *)

\* AccountTrace.unexecuted: messages without a transaction.
Unexecuted == {u \in Txs : cause[u] \in nodes} \ nodes

\* The transaction asked for is in its own trace, unless the trace is full or
\* the endpoint did not find a message's transaction: the climb never goes
\* further up than the walk comes down.
FocusIsShown == pc = "done" => focus \in nodes \/ missed # {} \/ Cardinality(nodes) = MaxTxs

\* A trace that is not marked as truncated has followed every message of its
\* transactions: one shown without a transaction was asked for and not found.
CompleteUnlessTruncated == pc = "done" /\ ~truncated => Unexecuted \subseteq missed

\* A message trace holds the transaction it was asked for, and says so when a
\* limit cut it short (explorer.rs, trace_transaction).
TraceIsWhole == TraceTypeOK /\ FocusIsShown /\ CompleteUnlessTruncated
=============================================================================
