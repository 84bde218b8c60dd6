-------------------------------- MODULE Hub --------------------------------
(***************************************************************************)
(* examples/hub/hub.cc: PubSubServer.  The subscriptions are kept twice:   *)
(* in the audiences_ of each Topic and in the ConnectionSubscription that  *)
(* is the context of each connection.  One loop runs every handler.        *)
(*                                                                         *)
(* A connection whose message cannot be handled is shut down; what it      *)
(* still sends before it is gone is handled like any other message, and    *)
(* what is sent to it is dropped by TcpConnection::send.                   *)
(***************************************************************************)
EXTENDS Integers

CONSTANTS Conns, Topics, MaxPublished

VARIABLES
    hubState,           \* state_ of each connection
    connSub,            \* the ConnectionSubscription of each connection
    audiences_,         \* audiences_ of each Topic (empty if never asked for)
    content_,           \* the last content of each Topic, 0 if never published
    published,          \* contents published so far, numbered
    seen                \* seen[c][t]: the last content sent to c for t

hubVars == <<hubState, connSub, audiences_, content_, published, seen>>

HubInit ==
    /\ hubState = [c \in Conns |-> "kConnecting"]
    /\ connSub = [c \in Conns |-> {}]
    /\ audiences_ = [t \in Topics |-> {}]
    /\ content_ = [t \in Topics |-> 0]
    /\ published = 0
    /\ seen = [c \in Conns |-> [t \in Topics |-> 0]]

Live(c) == hubState[c] \in {"kConnected", "kDisconnecting"}

(* Topic::publish and makeMessage to every connection in cs. *)
Send(cs, t, content) ==
    seen' = [c \in Conns |-> IF c \in cs /\ hubState[c] = "kConnected"
                             THEN [seen[c] EXCEPT ![t] = content] ELSE seen[c]]

ConnectionUp(c) ==
    /\ hubState[c] = "kConnecting"
    /\ hubState' = [hubState EXCEPT ![c] = "kConnected"]
    /\ connSub' = [connSub EXCEPT ![c] = {}]
    /\ UNCHANGED <<audiences_, content_, published, seen>>

ConnectionDown_Keeps(c) ==
    /\ Live(c)
    /\ hubState' = [hubState EXCEPT ![c] = "kDisconnected"]
    /\ connSub' = [connSub EXCEPT ![c] = {}]
    /\ UNCHANGED <<audiences_, content_, published, seen>>

(* onConnection, DOWN: doUnsubscribe for every topic of the context. *)
ConnectionDown(c) ==
    /\ Live(c)
    /\ hubState' = [hubState EXCEPT ![c] = "kDisconnected"]
    /\ audiences_' = [t \in Topics |->
            IF t \in connSub[c] THEN audiences_[t] \ {c} ELSE audiences_[t]]
    /\ connSub' = [connSub EXCEPT ![c] = {}]
    /\ UNCHANGED <<content_, published, seen>>

(* doSubscribe, Topic::add: a topic that has been published is sent. *)
doSubscribe(c, t) ==
    /\ Live(c)
    /\ connSub' = [connSub EXCEPT ![c] = @ \cup {t}]
    /\ audiences_' = [audiences_ EXCEPT ![t] = @ \cup {c}]
    /\ IF content_[t] > 0 THEN Send({c}, t, content_[t]) ELSE UNCHANGED seen
    /\ UNCHANGED <<hubState, content_, published>>

doUnsubscribe(c, t) ==
    /\ Live(c)
    /\ audiences_' = [audiences_ EXCEPT ![t] = @ \ {c}]
    /\ connSub' = [connSub EXCEPT ![c] = @ \ {t}]
    /\ UNCHANGED <<hubState, content_, published, seen>>

(* doPublish for a connection, or for timePublish, which has none. *)
doPublish(t) ==
    /\ published < MaxPublished
    /\ published' = published + 1
    /\ content_' = [content_ EXCEPT ![t] = published + 1]
    /\ Send(audiences_[t], t, published + 1)
    /\ UNCHANGED <<hubState, connSub, audiences_>>

(* onMessage, an unknown command or a line that does not parse. *)
BadCommand(c) ==
    /\ Live(c)
    /\ hubState' = [hubState EXCEPT ![c] = "kDisconnecting"]
    /\ UNCHANGED <<connSub, audiences_, content_, published, seen>>

HubNext ==
    \/ \E c \in Conns :
        \/ ConnectionUp(c) \/ ConnectionDown(c) \/ BadCommand(c)
        \/ \E t \in Topics : doSubscribe(c, t) \/ doUnsubscribe(c, t)
    \/ \E t \in Topics : doPublish(t)

HubSpec == HubInit /\ [][HubNext]_hubVars

----------------------------------------------------------------------------
(* Properties *)

(* The two records of the subscriptions agree, a connection that is gone   *)
(* is in neither, and every connected subscriber has been sent the latest  *)
(* content of its topics, whether it was published before or after it      *)
(* subscribed.                                                             *)
SubscribersAreCurrent ==
    \A c \in Conns, t \in Topics :
        /\ c \in audiences_[t] <=> t \in connSub[c]
        /\ c \in audiences_[t] => Live(c)
        /\ c \in audiences_[t] /\ hubState[c] = "kConnected" => seen[c][t] = content_[t]
=============================================================================
