---------------------------- MODULE RpcBalancer ----------------------------
(***************************************************************************)
(* Remote calls through a balancer: RpcChannel at the callers' and at the  *)
(* services' end (net/protorpc/RpcChannel.cc, RpcServer.cc) and, between   *)
(* them, one IO thread of examples/protobuf/rpcbalancer/balancer.cc with   *)
(* one BackendSession for each backend.                                    *)
(*                                                                         *)
(* Several threads of a client process call methods on one channel, so     *)
(* CallMethod is three steps.  A service may answer later and in any order *)
(* (it runs the done closure when it likes).  Backend connections fail and *)
(* come back; what was under way on them is lost.                          *)
(***************************************************************************)
EXTENDS Integers, Sequences

CONSTANTS
    Processes,        \* client processes, each with one RpcChannel
    Calls,          \* Calls[p]: the calls that threads of p make
    NumBackends,
    MaxFailures     \* backend connections that fail

ASSUME BackendsAssumption == NumBackends \in Nat

VARIABLES
    id_, outstandings_, call,     \* the RpcChannel of each client
    got,                          \* got[k]: the responses call k's closure has seen
    clientUp,                     \* the connection of each client to the balancer
    requests, responses,          \* what is under way on that connection
    current,                      \* PerThread::current
    conn_, nextId_, forwarded,    \* BackendSession; forwarded is its outstandings_
    toBackend, inService, fromBackend,
    failures

channelVars == <<id_, outstandings_, call, got>>
sessionVars == <<conn_, nextId_, forwarded>>
backendVars == <<toBackend, inService, fromBackend>>
rpcVars == <<channelVars, clientUp, requests, responses, current, sessionVars,
          backendVars, failures>>

Backends == 0..NumBackends - 1
AllCalls == UNION {Calls[p] : p \in Processes}
Caller(k) == CHOOSE p \in Processes : k \in Calls[p]

RpcInit ==
    /\ id_ = [p \in Processes |-> 0]
    /\ outstandings_ = [p \in Processes |-> <<>>]
    /\ call = [k \in AllCalls |-> [at |-> "idle", id |-> 0]]
    /\ got = [k \in AllCalls |-> <<>>]
    /\ clientUp = [p \in Processes |-> TRUE]
    /\ requests = [p \in Processes |-> <<>>] /\ responses = [p \in Processes |-> <<>>]
    /\ current = 0
    /\ conn_ = [b \in Backends |-> TRUE]
    /\ nextId_ = [b \in Backends |-> 0]
    /\ forwarded = [b \in Backends |-> <<>>]
    /\ toBackend = [b \in Backends |-> <<>>]
    /\ inService = [b \in Backends |-> {}]
    /\ fromBackend = [b \in Backends |-> <<>>]
    /\ failures = 0

With(f, x, v) == [y \in DOMAIN f \cup {x} |-> IF y = x THEN v ELSE f[y]]
Without(f, x) == [y \in DOMAIN f \ {x} |-> f[y]]

----------------------------------------------------------------------------
(* RpcChannel::CallMethod, in a thread of client process Caller(k) *)

Numbers(k) ==
    LET p == Caller(k) IN
    /\ call[k].at = "idle" /\ clientUp[p]
    /\ id_' = [id_ EXCEPT ![p] = @ + 1]
    /\ call' = [call EXCEPT ![k] = [at |-> "numbered", id |-> id_[p] + 1]]
    /\ UNCHANGED <<outstandings_, got, clientUp, requests, responses, current,
                   sessionVars, backendVars, failures>>

Stores(k) ==
    LET p == Caller(k) IN
    /\ call[k].at = "numbered"
    /\ outstandings_' = [outstandings_ EXCEPT ![p] = With(@, call[k].id, k)]
    /\ call' = [call EXCEPT ![k].at = "stored"]
    /\ UNCHANGED <<id_, got, clientUp, requests, responses, current, sessionVars,
                   backendVars, failures>>

SendsFrom(k, at) ==
    LET p == Caller(k) IN
    /\ call[k].at = at
    /\ call' = [call EXCEPT ![k].at = "sent"]
    /\ requests' = IF clientUp[p]
                   THEN [requests EXCEPT ![p] = Append(@, [id |-> call[k].id, of |-> k])]
                   ELSE requests
    /\ UNCHANGED <<id_, outstandings_, got, clientUp, responses, current, sessionVars,
                   backendVars, failures>>

Sends_BeforeStore(k) == SendsFrom(k, "numbered")
Sends(k) == SendsFrom(k, "stored")

(* RpcChannel::onRpcMessage, a RESPONSE: the entry goes before its closure *)
(* runs; a response to nobody is dropped.                                  *)
onResponse(p) ==
    /\ responses[p] # <<>>
    /\ LET m == Head(responses[p])
           out == outstandings_[p]
       IN  IF m.id \in DOMAIN out
           THEN /\ outstandings_' = [outstandings_ EXCEPT ![p] = Without(@, m.id)]
                /\ got' = [got EXCEPT ![out[m.id]] = Append(@, m.of)]
           ELSE UNCHANGED <<outstandings_, got>>
    /\ responses' = [responses EXCEPT ![p] = Tail(@)]
    /\ UNCHANGED <<id_, call, clientUp, requests, current, sessionVars, backendVars, failures>>

(* The connection of a client ends; the balancer's weak_ptr to it expires. *)
CallerDown(p) ==
    /\ clientUp[p] /\ failures < MaxFailures
    /\ failures' = failures + 1
    /\ clientUp' = [clientUp EXCEPT ![p] = FALSE]
    /\ requests' = [requests EXCEPT ![p] = <<>>]
    /\ responses' = [responses EXCEPT ![p] = <<>>]
    /\ UNCHANGED <<channelVars, current, sessionVars, backendVars>>

----------------------------------------------------------------------------
(* Balancer *)

(* The backends in the order onRpcMessage tries them. *)
Tried(i) == (current + i) % NumBackends

(* Balancer::onRpcMessage and BackendSession::send: current moves past     *)
(* every backend that is tried; without a backend the request is dropped.  *)
onRequest(p) ==
    /\ requests[p] # <<>>
    /\ requests' = [requests EXCEPT ![p] = Tail(@)]
    /\ LET m == Head(requests[p])
           up == {i \in 0..NumBackends - 1 : conn_[Tried(i)]}
       IN  \/ up = {} /\ UNCHANGED <<current, nextId_, forwarded, toBackend>>
           \/ \E first \in up :
                 /\ \A i \in up : first <= i
                 /\ current' = (current + first + 1) % NumBackends
                 /\ LET b == Tried(first)
                        id == nextId_[b] + 1
                    IN  /\ nextId_' = [nextId_ EXCEPT ![b] = id]
                        /\ forwarded' = [forwarded EXCEPT
                                ![b] = With(@, id, [origId |-> m.id, client |-> p])]
                        /\ toBackend' = [toBackend EXCEPT
                                ![b] = Append(@, [id |-> id, of |-> m.of])]
    /\ UNCHANGED <<channelVars, clientUp, responses, conn_, inService, fromBackend, failures>>

RestoredId_Kept(m, r) == m.id

(* BackendSession::onRpcMessage: the caller's own number is restored.      *)
RestoredId(m, r) == r.origId

onAnswer(b) ==
    /\ fromBackend[b] # <<>>
    /\ fromBackend' = [fromBackend EXCEPT ![b] = Tail(@)]
    /\ LET m == Head(fromBackend[b]) IN
       IF m.id \notin DOMAIN forwarded[b] THEN UNCHANGED <<forwarded, responses>>
       ELSE LET r == forwarded[b][m.id] IN
            /\ forwarded' = [forwarded EXCEPT ![b] = Without(@, m.id)]
            /\ responses' = IF clientUp[r.client]
                            THEN [responses EXCEPT ![r.client] =
                                    Append(@, [id |-> RestoredId(m, r), of |-> m.of])]
                            ELSE responses
    /\ UNCHANGED <<channelVars, clientUp, requests, current, conn_, nextId_, toBackend,
                   inService, failures>>

(* BackendSession::onConnection.  The outstanding requests of a connection *)
(* that ends stay in the table for good.                                   *)
BackendDown(b) ==
    /\ conn_[b] /\ failures < MaxFailures
    /\ failures' = failures + 1
    /\ conn_' = [conn_ EXCEPT ![b] = FALSE]
    /\ toBackend' = [toBackend EXCEPT ![b] = <<>>]
    /\ inService' = [inService EXCEPT ![b] = {}]
    /\ fromBackend' = [fromBackend EXCEPT ![b] = <<>>]
    /\ UNCHANGED <<channelVars, clientUp, requests, responses, current, nextId_, forwarded>>

BackendUp(b) ==
    /\ ~ conn_[b]
    /\ conn_' = [conn_ EXCEPT ![b] = TRUE]
    /\ UNCHANGED <<channelVars, clientUp, requests, responses, current, nextId_, forwarded,
                   backendVars, failures>>

----------------------------------------------------------------------------
(* The RpcChannel of a service (RpcServer::onConnection made it):          *)
(* onRpcMessage, a REQUEST, starts the method, or answers at once with an  *)
(* error for an unknown service, method or a malformed request.            *)
onServiceRequest(b) ==
    /\ toBackend[b] # <<>>
    /\ toBackend' = [toBackend EXCEPT ![b] = Tail(@)]
    /\ \/ /\ inService' = [inService EXCEPT ![b] = @ \cup {Head(toBackend[b])}]
          /\ UNCHANGED fromBackend
       \/ /\ fromBackend' = [fromBackend EXCEPT ![b] = Append(@, Head(toBackend[b]))]
          /\ UNCHANGED inService
    /\ UNCHANGED <<channelVars, clientUp, requests, responses, current, sessionVars, failures>>

doneCallback(b) ==
    /\ \E m \in inService[b] :
        /\ inService' = [inService EXCEPT ![b] = @ \ {m}]
        /\ fromBackend' = [fromBackend EXCEPT ![b] = Append(@, m)]
    /\ UNCHANGED <<channelVars, clientUp, requests, responses, current, sessionVars,
                   toBackend, failures>>

----------------------------------------------------------------------------
Proceeds ==
    \/ \E k \in AllCalls : Stores(k) \/ Sends(k)
    \/ \E p \in Processes : onRequest(p) \/ onResponse(p)
    \/ \E b \in Backends : onServiceRequest(b) \/ doneCallback(b) \/ onAnswer(b)

RpcNext ==
    \/ Proceeds
    \/ \E k \in AllCalls : Numbers(k)
    \/ \E p \in Processes : CallerDown(p)
    \/ \E b \in Backends : BackendDown(b) \/ BackendUp(b)

(* Threads that have begun a call go on, loops handle what has arrived,    *)
(* and services answer; nobody has to call or to reconnect.                *)
RpcFairness == WF_rpcVars(Proceeds)

RpcSpec == RpcInit /\ [][RpcNext]_rpcVars /\ RpcFairness

----------------------------------------------------------------------------
(* Properties *)

(* The closure of a call runs at most once, with the response to that call *)
(* and no other, although the channels of all clients count from 1 and the *)
(* balancer renumbers (CallMethod, onRpcMessage, BackendSession).          *)
OwnResponseOnce == \A k \in AllCalls : got[k] \in {<<>>, <<k>>}

(* Without a failure every call that has begun is answered: its entry is   *)
(* in outstandings_ before any response to it can arrive.                  *)
CallsComplete ==
    \A k \in AllCalls : call[k].at # "idle" ~> got[k] # <<>> \/ failures > 0
=============================================================================
