----------------------------- MODULE JrpcClient -----------------------------
(***************************************************************************)
(* The JSON-RPC client: how an endpoint the user typed becomes the URL     *)
(* that is called, and what one call makes of everything that can happen   *)
(* to it: no connection, a connection that breaks after the request went   *)
(* out, a timeout, a redirect, an HTTP error, an unreadable or malformed   *)
(* body, an answer to another request, a JSON-RPC error, a result.         *)
(* Calls run concurrently over one counter of request ids.                 *)
(* cc-wallet-tycho: transport.rs; cc-wallet-chain: wallet_service.rs       *)
(* (classify_broadcast).                                                   *)
(*                                                                         *)
(* External: the node, and a proxy before it that may hand a caller the    *)
(* answer to somebody else's request.  A body that parses carries the id   *)
(* of the request it answers.                                              *)
(***************************************************************************)
EXTENDS Naturals, FiniteSets

CONSTANTS
    Calls,       \* calls that may be under way at once
    MaxId        \* bound: request ids handed out

ASSUME RpcAssumption == MaxId \in Nat

Missing == "-"

-----------------------------------------------------------------------------
(* canonicalize_endpoint                                                   *)

\* What a typed endpoint is made of.
Urls == [scheme : {Missing, "http", "https", "other"}, host : {Missing, "local", "public"},
         credentials : BOOLEAN, fragment : BOOLEAN, path : {Missing, "/", "/x"}]
RefusedUrl == [scheme |-> "refused"]

\* Without a scheme: http to a local host, https to any other.
WithScheme(u) ==
    IF u.scheme # Missing THEN u
    ELSE [u EXCEPT !.scheme = IF u.host = "local" THEN "http" ELSE "https"]

PublicHttp(u) == u.scheme = "http" /\ u.host = "public"

Canonical(u) ==
    LET v == WithScheme(u) IN
    IF \/ v.scheme \notin {"http", "https"} \/ v.host = Missing
       \/ v.credentials \/ v.fragment \/ PublicHttp(v)
    THEN RefusedUrl
    ELSE [v EXCEPT !.path = IF @ = Missing THEN "/" ELSE @]

-----------------------------------------------------------------------------
VARIABLES
    endpoint,  \* the endpoint of this transport
    nextId,    \* next_id
    call       \* the calls

rpcVars == <<endpoint, nextId, call>>

CallKinds == {"read", "send"}
NoCall == [kind |-> "read", id |-> 0, stage |-> "idle", sent |-> FALSE, taken |-> FALSE, outcome |-> Missing, about |-> 0]

CallOutcomes == {Missing, "Ok", "Err", "Acknowledged", "Rejected", "Malformed", "TransportError",
             "NotTransmitted", "MayHaveBroadcast"}

RpcTypeOK ==
    /\ endpoint \in Urls /\ nextId \in 1..(MaxId + 1)
    /\ call \in [Calls -> [kind : CallKinds, id : 0..MaxId, stage : {"idle", "connecting", "written", "done"},
                           sent : BOOLEAN, taken : BOOLEAN, outcome : CallOutcomes, about : 0..MaxId]]

CallDone(c, outcome, about) ==
    call' = [call EXCEPT ![c].stage = "done", ![c].outcome = outcome, ![c].about = about]

\* A body, as far as the client looks at it: it can be read within
\* MAX_JRPC_RESPONSE_BYTES, it is JSON, it says jsonrpc 2.0, it answers
\* request `about`, it carries an error and/or a result.
Replies == [status : {"success", "redirect", "failure"}, readable : BOOLEAN, json : BOOLEAN,
            version : BOOLEAN, about : 1..MaxId, error : BOOLEAN,
            result : {Missing, "bad", "good"}]

\* validate_jrpc_response_id.
OwnAnswer(r, id) == r.json /\ r.version /\ r.about = id

\* broadcast_once: everything after a request that was written is an
\* observation, never a proof that nothing was sent.
Classified(r, id) ==
    CASE ~r.readable                 -> "Malformed"
      [] r.readable /\ r.status # "success" -> "TransportError"
      [] r.readable /\ r.status = "success" ->
            IF ~OwnAnswer(r, id) THEN "Malformed"
            ELSE IF r.error THEN "Rejected"
            ELSE IF r.result = Missing THEN "Malformed" ELSE "Acknowledged"

\* call_url with parse_jrpc_result_for_id, and the decoding of the result.
ReadResult(r, id) ==
    IF /\ r.status = "success" /\ r.readable /\ OwnAnswer(r, id)
       /\ ~r.error /\ r.result = "good"
    THEN "Ok" ELSE "Err"

-----------------------------------------------------------------------------
(* Calls.                                                                  *)

StartCall(c, kind) ==
    /\ call[c].stage = "idle" /\ nextId <= MaxId
    /\ call' = [call EXCEPT ![c] = [NoCall EXCEPT !.kind = kind, !.id = nextId, !.stage = "connecting"]]
    /\ nextId' = nextId + 1 /\ UNCHANGED endpoint

\* A route of another endpoint, a candidate outside the route, a message
\* that is too long or not a cell: refused before anything is sent.
RefuseLocally(c) ==
    /\ call[c].stage = "idle"
    /\ call' = [call EXCEPT ![c] = [NoCall EXCEPT !.kind = "send", !.stage = "done",
                                                !.outcome = "NotTransmitted"]]
    /\ UNCHANGED <<endpoint, nextId>>

\* A failure reqwest calls is_connect.
ConnectFails(c) ==
    /\ call[c].stage = "connecting"
    /\ CallDone(c, IF call[c].kind = "send" THEN "NotTransmitted" ELSE "Err", 0)
    /\ UNCHANGED <<endpoint, nextId>>

\* A plausible bug: a broken connection is taken for one that was never made.
MutBrokenIsUnsent(c) == IF call[c].kind = "send" THEN "NotTransmitted" ELSE "Err"
\* Any other failure of the request.
AfterConnect(c) == IF call[c].kind = "send" THEN "MayHaveBroadcast" ELSE "Err"

\* The request timeout runs from the start of the call: it may expire while
\* connecting, or after the request went out.
Breaks(c) ==
    /\ call[c].stage \in {"connecting", "written"}
    /\ CallDone(c, AfterConnect(c), 0)
    /\ UNCHANGED <<endpoint, nextId>>

Write(c) ==
    /\ call[c].stage = "connecting"
    /\ call' = [call EXCEPT ![c].stage = "written", ![c].sent = TRUE]
    /\ UNCHANGED <<endpoint, nextId>>

Reply(c, r) ==
    /\ call[c].stage = "written" /\ r.about < nextId
    /\ CallDone(c, IF call[c].kind = "send" THEN Classified(r, call[c].id) ELSE ReadResult(r, call[c].id), r.about)
    /\ UNCHANGED <<endpoint, nextId>>

\* The node takes a message off the wire, perhaps long after the client
\* stopped waiting for an answer.
NodeTakes(c) ==
    /\ call[c].kind = "send" /\ call[c].sent /\ ~call[c].taken
    /\ call' = [call EXCEPT ![c].taken = TRUE]
    /\ UNCHANGED <<endpoint, nextId>>

EndCall(c) ==
    /\ call[c].stage = "done"
    /\ call' = [call EXCEPT ![c] = NoCall]
    /\ UNCHANGED <<endpoint, nextId>>

RpcInit ==
    /\ \E u \in Urls : Canonical(u) # RefusedUrl /\ endpoint = Canonical(u)
    /\ nextId = 1 /\ call = [c \in Calls |-> NoCall]

RpcNext ==
    \E c \in Calls :
        \/ \E kind \in CallKinds : StartCall(c, kind)
        \/ RefuseLocally(c) \/ ConnectFails(c) \/ Breaks(c) \/ Write(c) \/ NodeTakes(c) \/ EndCall(c)
        \/ \E r \in Replies : Reply(c, r)

RpcSpec == RpcInit /\ [][RpcNext]_rpcVars

-----------------------------------------------------------------------------
(* Properties.                                                             *)

\* A message reported as not transmitted was never put on the wire, so that
\* no node takes it then or later: the Journal lets the next candidate, or
\* the next transfer, go ahead on that word.
UnsentIsUnsent ==
    \A c \in Calls : call[c].outcome = "NotTransmitted" => ~call[c].sent /\ ~call[c].taken

\* What the client takes for an answer (a result, an acknowledgement, a
\* refusal) answers this very request, whoever else was asking.
AnswerIsOwn ==
    \A c \in Calls : call[c].outcome \in {"Ok", "Acknowledged", "Rejected"} => call[c].about = call[c].id

\* The endpoint in use is a fixed point of canonicalize_endpoint, which is
\* applied to it again at every layer (ticket, transport cache, URL), and is
\* never plain http to a public host.
EndpointIsCanonical ==
    Canonical(endpoint) = endpoint /\ (endpoint.scheme = "http" => endpoint.host = "local")

\* What the client reports of a call is what happened on the wire: not
\* transmitted means never sent, an answer is the answer of this very call, and
\* it went to a canonical endpoint (transport.rs).
CallsAreClassified == RpcTypeOK /\ UnsentIsUnsent /\ AnswerIsOwn /\ EndpointIsCanonical
=============================================================================
