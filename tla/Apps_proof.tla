----------------------------- MODULE Apps_proof -----------------------------
(***************************************************************************)
(* The safety properties of the example programs and of the RPC library,   *)
(* for any numbers of connections, topics, threads, processes and calls.   *)
(***************************************************************************)
EXTENDS RpcBalancer, Hub, ChatServer, Tunnel, TLAPS

(***************************************************************************)
(* Hub: the two records of the subscriptions agree and subscribers are     *)
(* current.                                                                *)
(***************************************************************************)
HubStates == {"kConnecting", "kConnected", "kDisconnecting", "kDisconnected"}

HubTypeOK ==
    /\ hubState \in [Conns -> HubStates]
    /\ connSub \in [Conns -> SUBSET Topics]
    /\ audiences_ \in [Topics -> SUBSET Conns]
    /\ content_ \in [Topics -> Nat]
    /\ published \in Nat
    /\ seen \in [Conns -> [Topics -> Nat]]

(* Nothing has been sent of a topic that was never published: Topic::add    *)
(* sends nothing then, and its subscriber is current all the same.          *)
UnpublishedInv == \A c \in Conns, t \in Topics : content_[t] = 0 => seen[c][t] = 0

HubIInv == HubTypeOK /\ UnpublishedInv /\ SubscribersAreCurrent

-----------------------------------------------------------------------------
(* No handler of PubSubServer breaks the types of its tables.               *)
LEMMA HubTypeStep == ASSUME HubTypeOK, [HubNext]_hubVars PROVE HubTypeOK'
<1> USE DEF HubTypeOK, HubStates
<1>1. ASSUME NEW c \in Conns, ConnectionUp(c) PROVE HubTypeOK'
  BY <1>1, Zenon DEF ConnectionUp
<1>2. ASSUME NEW c \in Conns, ConnectionDown(c) PROVE HubTypeOK'
  BY <1>2, Zenon DEF ConnectionDown
<1>3. ASSUME NEW c \in Conns, BadCommand(c) PROVE HubTypeOK'
  BY <1>3, Zenon DEF BadCommand
<1>4. ASSUME NEW c \in Conns, NEW t \in Topics, doSubscribe(c, t) PROVE HubTypeOK'
  <2>1. (seen \in [Conns -> [Topics -> Nat]])'
    <3>1. CASE content_[t] > 0
      BY <1>4, <3>1, SMTT(30) DEF doSubscribe, Send
    <3>2. CASE ~(content_[t] > 0)
      BY <1>4, <3>2, Zenon DEF doSubscribe
    <3> QED
      BY <3>1, <3>2, Zenon
  <2> QED
    BY <1>4, <2>1, Zenon DEF doSubscribe
<1>5. ASSUME NEW c \in Conns, NEW t \in Topics, doUnsubscribe(c, t) PROVE HubTypeOK'
  BY <1>5, Zenon DEF doUnsubscribe
<1>6. ASSUME NEW t \in Topics, doPublish(t) PROVE HubTypeOK'
  BY <1>6 DEF doPublish, Send
<1>7. CASE UNCHANGED hubVars
  BY <1>7, Zenon DEF hubVars
<1> QED
  BY <1>1, <1>2, <1>3, <1>4, <1>5, <1>6, <1>7, Zenon DEF HubNext

(* The subscriptions of one connection and one topic after each handler.    *)
LEMMA HubNextInv == ASSUME HubIInv, [HubNext]_hubVars PROVE HubIInv'
<1>1. HubTypeOK'
  BY HubTypeStep, Zenon DEF HubIInv
<1> SUFFICES ASSUME NEW d \in Conns, NEW u \in Topics
             PROVE  /\ (content_[u] = 0 => seen[d][u] = 0)'
                    /\ (d \in audiences_[u] <=> u \in connSub[d])'
                    /\ (d \in audiences_[u] => Live(d))'
                    /\ (d \in audiences_[u] /\ hubState[d] = "kConnected" => seen[d][u] = content_[u])'
  BY <1>1, Zenon DEF HubIInv, UnpublishedInv, SubscribersAreCurrent
<1> USE DEF HubIInv, HubTypeOK, HubStates, UnpublishedInv, SubscribersAreCurrent,
        Live
<1> DEFINE Goal == /\ content_[u] = 0 => seen[d][u] = 0
                   /\ d \in audiences_[u] <=> u \in connSub[d]
                   /\ d \in audiences_[u] => Live(d)
                   /\ d \in audiences_[u] /\ hubState[d] = "kConnected" => seen[d][u] = content_[u]
<1>2. ASSUME NEW c \in Conns, ConnectionUp(c) PROVE Goal'
  BY <1>2 DEF ConnectionUp
<1>3. ASSUME NEW c \in Conns, ConnectionDown(c) PROVE Goal'
  BY <1>3, Zenon DEF ConnectionDown
<1>4. ASSUME NEW c \in Conns, BadCommand(c) PROVE Goal'
  BY <1>4, Zenon DEF BadCommand
<1>5. ASSUME NEW c \in Conns, NEW t \in Topics, doSubscribe(c, t) PROVE Goal'
  BY <1>5 DEF doSubscribe, Send
<1>6. ASSUME NEW c \in Conns, NEW t \in Topics, doUnsubscribe(c, t) PROVE Goal'
  BY <1>6, Zenon DEF doUnsubscribe
<1>7. ASSUME NEW t \in Topics, doPublish(t) PROVE Goal'
  BY <1>7 DEF doPublish, Send
<1>8. CASE UNCHANGED hubVars
  BY <1>8, Zenon DEF hubVars
<1> QED
  BY <1>2, <1>3, <1>4, <1>5, <1>6, <1>7, <1>8, Zenon DEF HubNext

(* Every connected subscriber of hub.cc has the latest content of its       *)
(* topics, and audiences_ and ConnectionSubscription agree, after any       *)
(* sequence of commands, publications and lost connections.                 *)
THEOREM Current == HubSpec => []SubscribersAreCurrent
<1>1. HubInit => HubIInv
  BY DEF HubInit, HubIInv, HubTypeOK, HubStates, UnpublishedInv,
     SubscribersAreCurrent
<1>2. HubIInv /\ [HubNext]_hubVars => HubIInv'
  BY HubNextInv, Zenon
<1>3. HubIInv => SubscribersAreCurrent
  BY Zenon DEF HubIInv, SubscribersAreCurrent
<1> QED
  BY <1>1, <1>2, <1>3, PTL DEF HubSpec

(***************************************************************************)
(* ChatServer: a list never changes under a thread that walks it.          *)
(***************************************************************************)
(* The lists are numbered in the order of their allocation, so a copy is    *)
(* never a list that somebody holds.                                        *)
ChatTypeOK ==
    /\ lists \in Seq(SUBSET Members)
    /\ connections_ \in DOMAIN lists
    /\ held \in [Threads -> DOMAIN lists \cup {None}]
    /\ todo \in [Threads -> SUBSET Members]
    /\ reached \in [Threads -> SUBSET Members]
    /\ snapshot \in [Threads -> SUBSET Members]

(* What a walk has visited and has still to visit is what it found.         *)
WalkInv(t) ==
    IF held[t] = None THEN reached[t] = snapshot[t]
    ELSE /\ lists[held[t]] = snapshot[t]
         /\ reached[t] \cup todo[t] = snapshot[t]

ChatIInv == ChatTypeOK /\ \A t \in Threads : WalkInv(t)

-----------------------------------------------------------------------------
(* onConnection() replaces the list, and leaves the lists that are walked.  *)
LEMMA WriteKeeps ==
    ASSUME ChatTypeOK, NEW new \in SUBSET Members, Write(new),
           UNCHANGED <<held, todo, reached, snapshot>>
    PROVE  /\ ChatTypeOK'
           /\ \A t \in Threads : held[t] # None => lists'[held[t]] = lists[held[t]]
<1>1. CASE Unique
  <2>1. lists' = [lists EXCEPT ![connections_] = new] /\ connections_' = connections_
    BY <1>1, Zenon DEF Write
  <2>2. ChatTypeOK'
    BY <2>1 DEF ChatTypeOK
  <2>3. \A t \in Threads : held[t] # None => lists'[held[t]] = lists[held[t]]
    BY <1>1, <2>1, Zenon DEF ChatTypeOK, Unique
  <2> QED
    BY <2>2, <2>3, Zenon
<1>2. CASE ~Unique
  <2>1. lists' = Append(lists, new) /\ connections_' = Len(lists) + 1
    BY <1>2, Zenon DEF Write
  <2>2. /\ lists' \in Seq(SUBSET Members) /\ DOMAIN lists' = DOMAIN lists \cup {Len(lists) + 1}
        /\ \A i \in DOMAIN lists : lists'[i] = lists[i]
    BY <2>1 DEF ChatTypeOK
  <2>3. ChatTypeOK'
    BY <2>1, <2>2, Zenon DEF ChatTypeOK
  <2>4. \A t \in Threads : held[t] # None => lists'[held[t]] = lists[held[t]]
    BY <2>2, Zenon DEF ChatTypeOK
  <2> QED
    BY <2>3, <2>4, Zenon
<1> QED
  BY <1>1, <1>2, Zenon

(* Every step of every thread keeps IInv.                                   *)
LEMMA ChatNextInv == ASSUME ChatIInv, [ChatNext]_chatVars PROVE ChatIInv'
<1>0. None \notin DOMAIN lists
  BY DEF ChatIInv, ChatTypeOK, None
<1>1. ASSUME NEW t \in Threads, getConnectionList(t) PROVE ChatIInv'
  BY <1>0, <1>1 DEF ChatIInv, ChatTypeOK, WalkInv, getConnectionList
<1>2. ASSUME NEW t \in Threads, EndsWalk(t) PROVE ChatIInv'
  BY <1>2, Zenon DEF ChatIInv, ChatTypeOK, WalkInv, EndsWalk
<1>3. ASSUME NEW t \in Threads, NEW c \in Members, onConnection(t, c) PROVE ChatIInv'
  <2>1. PICK new \in SUBSET Members : Write(new)
    <3>1. lists[connections_] \in SUBSET Members
      BY DEF ChatIInv, ChatTypeOK
    <3> QED
      BY <1>3, <3>1, Zenon DEF onConnection
  <2>2. UNCHANGED <<held, todo, reached, snapshot>>
    BY <1>3, Zenon DEF onConnection
  <2>3. ChatTypeOK' /\ \A u \in Threads : held[u] # None => lists'[held[u]] = lists[held[u]]
    BY <2>1, <2>2, WriteKeeps, Zenon DEF ChatIInv
  <2> QED
    BY <2>2, <2>3, Zenon DEF ChatIInv, WalkInv
<1>4. ASSUME NEW t \in Threads, NEW c \in Members, SendsTo(t, c) PROVE ChatIInv'
  <2>1. ChatTypeOK'
    BY <1>4, Zenon DEF ChatIInv, ChatTypeOK, SendsTo
  <2>2. ASSUME NEW u \in Threads PROVE WalkInv(u)'
    BY <1>4, ZenonT(40) DEF ChatIInv, ChatTypeOK, WalkInv, SendsTo
  <2> QED
    BY <2>1, <2>2, Zenon DEF ChatIInv
<1>5. CASE UNCHANGED chatVars
  BY <1>5, Zenon DEF ChatIInv, ChatTypeOK, WalkInv, chatVars
<1> QED
  BY <1>1, <1>2, <1>3, <1>4, <1>5, Zenon DEF ChatNext

(* onStringMessage() of server_threaded_efficient.cc sends to exactly the   *)
(* connections that were in the list when it took the pointer, although     *)
(* other threads change the list without waiting for it.                    *)
THEOREM Stable == ChatSpec => []WalksAreStable
<1>1. ChatInit => ChatIInv
  <2> SUFFICES ASSUME ChatInit PROVE ChatIInv
    BY Zenon
  <2>1. lists \in Seq(SUBSET Members) /\ DOMAIN lists = {1}
    BY DEF ChatInit
  <2>2. ChatTypeOK
    BY <2>1, Zenon DEF ChatInit, ChatTypeOK
  <2> QED
    BY <2>2, Zenon DEF ChatInit, ChatIInv, WalkInv
<1>2. ChatIInv /\ [ChatNext]_chatVars => ChatIInv'
  BY ChatNextInv, Zenon
<1>3. ChatIInv => WalksAreStable
  BY Zenon DEF ChatIInv, WalkInv, WalksAreStable, WalksAreStable
<1> QED
  BY <1>1, <1>2, <1>3, PTL DEF ChatSpec

(***************************************************************************)
(* RpcBalancer: a closure runs once, with the response to its own call.    *)
(***************************************************************************)
RpcMessages == [id : Nat, of : AllCalls]
Elements(s) == {s[i] : i \in DOMAIN s}

RpcCalls == [at : {"idle", "numbered", "stored", "sent"}, id : Nat]

RpcTypeOK ==
    /\ id_ \in [Processes -> Nat]
    /\ call \in [AllCalls -> RpcCalls]
    /\ got \in [AllCalls -> Seq(AllCalls)]
    /\ current \in Nat
    /\ nextId_ \in [Backends -> Nat]
    /\ conn_ \in [Backends -> BOOLEAN]

(* A channel gives its calls different numbers.                             *)
NumbersInv ==
    /\ \A k \in AllCalls : call[k].at # "idle" => call[k].id <= id_[Caller(k)]
    /\ \A k, l \in AllCalls :
          /\ call[k].at # "idle" /\ call[l].at # "idle"
          /\ Caller(k) = Caller(l) /\ call[k].id = call[l].id
          => k = l

(* A message that belongs to process p: it carries the number of the call   *)
(* it is about.                                                             *)
OfProcess(m, p) ==
    /\ m.of \in AllCalls /\ Caller(m.of) = p
    /\ call[m.of].at # "idle" /\ m.id = call[m.of].id

(* An entry of outstandings_ is a call that has not been answered.          *)
OutstandingInv ==
    /\ DOMAIN outstandings_ = Processes
    /\ \A p \in Processes : \A n \in DOMAIN outstandings_[p] :
          LET k == outstandings_[p][n] IN
          /\ k \in AllCalls /\ Caller(k) = p
          /\ call[k].at \in {"stored", "sent"} /\ call[k].id = n /\ got[k] = <<>>

GotInv ==
    \A k \in AllCalls : 
        /\ got[k] \in {<<>>, <<k>>}
        /\ got[k] # <<>> => call[k].at \in {"stored", "sent"}

ClientWiresInv ==
    /\ requests \in [Processes -> Seq(RpcMessages)]
    /\ responses \in [Processes -> Seq(RpcMessages)]
    /\ \A p \in Processes :
        /\ \A m \in Elements(requests[p]) : OfProcess(m, p)
        /\ \A m \in Elements(responses[p]) : OfProcess(m, p)

(* A message of backend session b: while forwarded has its number, the      *)
(* entry is the one that was made for it.                                   *)
OfSession(m, b) ==
    /\ m \in RpcMessages /\ m.id <= nextId_[b]
    /\ m.id \in DOMAIN forwarded[b] =>
          /\ forwarded[b][m.id].client \in Processes
          /\ OfProcess([id |-> forwarded[b][m.id].origId, of |-> m.of], forwarded[b][m.id].client)

SessionInv ==
    /\ DOMAIN forwarded = Backends
    /\ toBackend \in [Backends -> Seq(RpcMessages)]
    /\ inService \in [Backends -> SUBSET RpcMessages]
    /\ fromBackend \in [Backends -> Seq(RpcMessages)]
    /\ \A b \in Backends :
        /\ \A m \in Elements(toBackend[b]) : OfSession(m, b)
        /\ \A m \in inService[b] : OfSession(m, b)
        /\ \A m \in Elements(fromBackend[b]) : OfSession(m, b)

RpcIInv ==
    RpcTypeOK /\ NumbersInv /\ OutstandingInv /\ GotInv /\ ClientWiresInv /\ SessionInv

-----------------------------------------------------------------------------
(* What a queue holds after its first element is taken.                     *)
LEMMA TailHolds ==
    ASSUME NEW S, NEW s \in Seq(S), s # <<>>
    PROVE  /\ Tail(s) \in Seq(S) /\ Head(s) \in S
           /\ Head(s) \in Elements(s) /\ Elements(Tail(s)) \subseteq Elements(s)
BY DEF Elements

(* What a queue holds after an element is added.                            *)
LEMMA AppendHolds ==
    ASSUME NEW S, NEW s \in Seq(S), NEW e \in S
    PROVE  Append(s, e) \in Seq(S) /\ Elements(Append(s, e)) \subseteq Elements(s) \cup {e}
BY DEF Elements

(* An empty queue holds nothing.                                            *)
LEMMA EmptyHolds == Elements(<<>>) = {} /\ \A S : <<>> \in Seq(S)
BY DEF Elements

(* The channel of a call is that of a process.                              *)
LEMMA CallerIsProcess == \A k \in AllCalls : Caller(k) \in Processes
BY Zenon DEF Caller, AllCalls

(* A call keeps its number, so messages stay the messages of their calls.   *)
LEMMA OfProcessKept ==
    ASSUME \A l \in AllCalls :
              call[l].at # "idle" => call'[l].at # "idle" /\ call'[l].id = call[l].id,
           NEW m, NEW p, OfProcess(m, p)
    PROVE  OfProcess(m, p)'
BY Zenon DEF OfProcess

(* The wires stay as they are while calls move on.                          *)
LEMMA CallStep ==
    ASSUME ClientWiresInv, SessionInv,
           \A l \in AllCalls :
              call[l].at # "idle" => call'[l].at # "idle" /\ call'[l].id = call[l].id,
           UNCHANGED <<nextId_, forwarded, toBackend, inService, fromBackend>>
    PROVE  /\ SessionInv'
           /\ UNCHANGED <<requests, responses>> => ClientWiresInv'
<1>1. \A m, p : OfProcess(m, p) => OfProcess(m, p)'
  BY Zenon DEF OfProcess
<1>2. \A m, b : OfSession(m, b) => OfSession(m, b)'
  BY <1>1, Zenon DEF OfSession
<1>3. SessionInv'
  BY <1>2, Zenon DEF SessionInv
<1>4. UNCHANGED <<requests, responses>> => ClientWiresInv'
  BY <1>1, Zenon DEF ClientWiresInv
<1> QED
  BY <1>3, <1>4, Zenon

(* CallMethod() takes a number no call of its channel has.                  *)
LEMMA NumbersStep ==
    ASSUME RpcIInv, NEW k \in AllCalls, Numbers(k) PROVE RpcIInv'
<1> DEFINE p == Caller(k)
<1>0. p \in Processes
  BY CallerIsProcess, Zenon
<1> USE DEF RpcIInv, RpcTypeOK, RpcCalls
<1>1. /\ call[k].at = "idle" /\ id_' = [id_ EXCEPT ![p] = @ + 1]
      /\ call' = [call EXCEPT ![k] = [at |-> "numbered", id |-> id_[p] + 1]]
  BY Zenon DEF Numbers
<1>2. UNCHANGED <<outstandings_, got, requests, responses, current, conn_, nextId_, forwarded,
                  toBackend, inService, fromBackend>>
  BY Zenon DEF Numbers, sessionVars, backendVars
<1> HIDE DEF p
<1>3. RpcTypeOK'
  BY <1>0, <1>1, <1>2
<1>4. \A l \in AllCalls : IF l = k THEN call'[l].at = "numbered" /\ call'[l].id = id_[p] + 1
                              ELSE call'[l] = call[l]
  BY <1>1, Zenon
<1>5. NumbersInv'
  <2>1. \A l \in AllCalls : Caller(l) \in Processes
    BY CallerIsProcess, Zenon
  <2>2. \A l \in AllCalls : call'[l].at # "idle" => call'[l].id <= id_'[Caller(l)]
    BY <1>0, <1>1, <1>4, <2>1 DEF NumbersInv, p
  <2>3. ASSUME NEW l \in AllCalls, l # k, call[l].at # "idle", Caller(l) = p
        PROVE  call'[l].id # call'[k].id
    BY <1>0, <1>4, <2>3 DEF NumbersInv
  <2> QED
    BY <1>4, <2>2, <2>3, Zenon DEF NumbersInv, p
<1>6. OutstandingInv' /\ GotInv'
  BY <1>1, <1>2, <1>4 DEF OutstandingInv, GotInv
<1>7. SessionInv' /\ ClientWiresInv'
  BY <1>1, <1>2, <1>4, CallStep, Zenon
<1> QED
  BY <1>3, <1>5, <1>6, <1>7, Zenon

(* CallMethod() stores the call under its number.                           *)
LEMMA StoresStep ==
    ASSUME RpcIInv, NEW k \in AllCalls, Stores(k) PROVE RpcIInv'
<1> DEFINE p == Caller(k)
<1>0. p \in Processes
  BY CallerIsProcess, Zenon
<1> USE DEF RpcIInv, RpcTypeOK, RpcCalls
<1>1. /\ call[k].at = "numbered"
      /\ outstandings_' = [outstandings_ EXCEPT ![p] = With(@, call[k].id, k)]
      /\ call' = [call EXCEPT ![k].at = "stored"]
  BY Zenon DEF Stores
<1>2. UNCHANGED <<id_, got, requests, responses, current, conn_, nextId_, forwarded,
                  toBackend, inService, fromBackend>>
  BY Zenon DEF Stores, sessionVars, backendVars
<1> HIDE DEF p
<1>3. RpcTypeOK'
  BY <1>0, <1>1, <1>2, Zenon
<1>4. \A l \in AllCalls : /\ call'[l].id = call[l].id
                              /\ call'[l].at = IF l = k THEN "stored" ELSE call[l].at
  BY <1>1, Zenon
<1>5. NumbersInv' /\ GotInv'
  BY <1>1, <1>2, <1>4, SMTT(30) DEF NumbersInv, GotInv
<1>6. OutstandingInv'
  <2>1. DOMAIN outstandings_' = Processes
    BY <1>1, Zenon DEF OutstandingInv
  <2>2. ASSUME NEW q \in Processes, NEW n \in DOMAIN outstandings_'[q]
        PROVE  \/ q = p /\ n = call[k].id /\ outstandings_'[q][n] = k
               \/ n \in DOMAIN outstandings_[q] /\ outstandings_'[q][n] = outstandings_[q][n]
    BY <1>0, <1>1, Zenon DEF OutstandingInv, With
  <2>3. got[k] = <<>>
    BY <1>1, Zenon DEF GotInv
  <2> QED
    BY <1>1, <1>2, <1>4, <2>1, <2>2, <2>3 DEF OutstandingInv, p
<1>7. SessionInv' /\ ClientWiresInv'
  BY <1>1, <1>2, <1>4, CallStep, Zenon
<1> QED
  BY <1>3, <1>5, <1>6, <1>7, Zenon

(* CallMethod() sends the call's number.                                    *)
LEMMA SendsStep ==
    ASSUME RpcIInv, NEW k \in AllCalls, Sends(k) PROVE RpcIInv'
<1> DEFINE p == Caller(k)
           m == [id |-> call[k].id, of |-> k]
<1>0. p \in Processes
  BY CallerIsProcess, Zenon
<1> USE DEF RpcIInv, RpcTypeOK, RpcCalls
<1>1. /\ call[k].at = "stored" /\ call' = [call EXCEPT ![k].at = "sent"]
      /\ \/ requests' = [requests EXCEPT ![p] = Append(@, m)]
         \/ requests' = requests
  BY Zenon DEF Sends, SendsFrom
<1>2. UNCHANGED <<id_, outstandings_, got, responses, current, conn_, nextId_, forwarded,
                  toBackend, inService, fromBackend>>
  BY Zenon DEF Sends, SendsFrom, sessionVars, backendVars
<1>3. RpcTypeOK'
  BY <1>1, <1>2, Zenon
<1>4. \A l \in AllCalls : /\ call'[l].id = call[l].id
                              /\ call'[l].at = IF l = k THEN "sent" ELSE call[l].at
  BY <1>1, Zenon
<1>5. NumbersInv' /\ GotInv' /\ OutstandingInv'
  BY <1>1, <1>2, <1>4 DEF NumbersInv, GotInv, OutstandingInv
<1>6. SessionInv'
  BY <1>1, <1>2, <1>4, CallStep, Zenon
<1>7. ClientWiresInv'
  <2>1. CASE requests' = requests
    BY <1>1, <1>2, <1>4, <2>1, CallStep, Zenon
  <2>2. CASE requests' = [requests EXCEPT ![p] = Append(@, m)]
    <3>1. m \in RpcMessages
      BY Zenon DEF RpcMessages
    <3>5. \A n : n = m => OfProcess(n, p)'
      BY <1>1, <1>4 DEF OfProcess
    <3>2. \A n, q : OfProcess(n, q) => OfProcess(n, q)'
      BY <1>1, <1>4, Zenon DEF OfProcess
    <3> HIDE DEF m, p
    <3>3. requests' \in [Processes -> Seq(RpcMessages)]
      BY <1>0, <2>2, <3>1, AppendHolds, Zenon DEF ClientWiresInv
    <3>4. \A q \in Processes : Elements(requests'[q]) \subseteq
              Elements(requests[q]) \cup IF q = p THEN {m} ELSE {}
      BY <1>0, <2>2, <3>1, AppendHolds, Zenon DEF ClientWiresInv
    <3> QED
      BY <1>2, <3>2, <3>3, <3>4, <3>5, Zenon DEF ClientWiresInv
  <2> QED
    BY <1>1, <2>1, <2>2, Zenon
<1> QED
  BY <1>3, <1>5, <1>6, <1>7, Zenon

(* onRpcMessage() gives a response to the call whose number it carries: the *)
(* one it is about.                                                         *)
LEMMA ResponseStep ==
    ASSUME RpcIInv, NEW p \in Processes, onResponse(p) PROVE RpcIInv'
<1> USE DEF RpcIInv, RpcTypeOK, RpcCalls
<1> DEFINE m == Head(responses[p])
           k == outstandings_[p][m.id]
<1>0. /\ responses[p] # <<>> /\ responses' = [responses EXCEPT ![p] = Tail(@)]
      /\ responses[p] \in Seq(RpcMessages)
  BY Zenon DEF onResponse, ClientWiresInv
<1>1. UNCHANGED <<id_, call, requests, current, conn_, nextId_, forwarded,
                  toBackend, inService, fromBackend>>
  BY Zenon DEF onResponse, sessionVars, backendVars
<1>2. m \in RpcMessages /\ OfProcess(m, p)
  BY <1>0, TailHolds, Zenon DEF ClientWiresInv
<1>3. ClientWiresInv'
  <2>1. \A n, q : OfProcess(n, q) => OfProcess(n, q)'
    BY <1>1, Zenon DEF OfProcess
  <2>2. responses' \in [Processes -> Seq(RpcMessages)]
    BY <1>0, TailHolds, Zenon DEF ClientWiresInv
  <2>3. \A q \in Processes : Elements(responses'[q]) \subseteq Elements(responses[q])
    BY <1>0, TailHolds, Zenon DEF ClientWiresInv
  <2> QED
    BY <1>1, <2>1, <2>2, <2>3, Zenon DEF ClientWiresInv
<1>4. SessionInv' /\ NumbersInv'
  BY <1>1, CallStep, Zenon DEF NumbersInv
<1>5. CASE m.id \notin DOMAIN outstandings_[p]
  <2>1. UNCHANGED <<outstandings_, got>>
    BY <1>5, Zenon DEF onResponse
  <2> QED
    BY <1>1, <1>3, <1>4, <2>1 DEF OutstandingInv, GotInv
<1>6. CASE m.id \in DOMAIN outstandings_[p]
  <2>1. /\ outstandings_' = [outstandings_ EXCEPT ![p] = Without(@, m.id)]
        /\ got' = [got EXCEPT ![k] = Append(@, m.of)]
    BY <1>6, Zenon DEF onResponse
  <2>2. /\ k \in AllCalls /\ Caller(k) = p /\ call[k].id = m.id
        /\ call[k].at \in {"stored", "sent"} /\ got[k] = <<>>
    BY <1>6, ZenonT(40) DEF OutstandingInv
  <2>3. m.of = k
    BY <1>2, <2>2, Zenon DEF OfProcess, NumbersInv
  <2> HIDE DEF k, m
  <2>4. \A l \in AllCalls : got'[l] = IF l = k THEN <<k>> ELSE got[l]
    BY <2>1, <2>2, <2>3
  <2>5. RpcTypeOK'
    <3>1. got' \in [AllCalls -> Seq(AllCalls)]
      BY <2>1, <2>2, <2>3
    <3> QED
      BY <1>1, <3>1, Zenon
  <2>6. GotInv'
    BY <1>1, <2>2, <2>4, Zenon DEF GotInv
  <2>7. OutstandingInv'
    <3>1. DOMAIN outstandings_' = Processes
      BY <2>1, Zenon DEF OutstandingInv
    <3>2. ASSUME NEW q \in Processes, NEW n \in DOMAIN outstandings_'[q]
          PROVE  /\ n \in DOMAIN outstandings_[q] /\ outstandings_'[q][n] = outstandings_[q][n]
                 /\ q = p => n # m.id
      BY <2>1, Zenon DEF OutstandingInv, Without
    <3>3. ASSUME NEW q \in Processes, NEW n \in DOMAIN outstandings_'[q]
          PROVE  outstandings_[q][n] # k
      BY <2>2, <3>2 DEF OutstandingInv
    <3> QED
      BY <1>1, <2>4, <3>1, <3>2, <3>3 DEF OutstandingInv
  <2> QED
    BY <1>3, <1>4, <2>5, <2>6, <2>7, Zenon
<1> QED
  BY <1>5, <1>6, Zenon

(* The end of a client's connection only loses messages.                    *)
LEMMA ClientDownStep ==
    ASSUME RpcIInv, NEW p \in Processes, CallerDown(p) PROVE RpcIInv'
<1> USE DEF RpcIInv
<1>1. /\ requests' = [requests EXCEPT ![p] = <<>>]
      /\ responses' = [responses EXCEPT ![p] = <<>>]
  BY Zenon DEF CallerDown
<1>2. UNCHANGED <<id_, outstandings_, call, got, current, conn_, nextId_, forwarded,
                  toBackend, inService, fromBackend>>
  BY Zenon DEF CallerDown, channelVars, sessionVars, backendVars
<1>3. RpcTypeOK' /\ NumbersInv' /\ OutstandingInv' /\ GotInv'
  BY <1>2 DEF RpcTypeOK, NumbersInv, OutstandingInv, GotInv
<1>4. SessionInv'
  BY <1>2, CallStep, Zenon
<1>5. ClientWiresInv'
  <2>1. \A m, q : OfProcess(m, q) => OfProcess(m, q)'
    BY <1>2, Zenon DEF OfProcess
  <2>2. /\ requests' \in [Processes -> Seq(RpcMessages)]
        /\ responses' \in [Processes -> Seq(RpcMessages)]
    BY <1>1, EmptyHolds, Zenon DEF ClientWiresInv
  <2>3. \A q \in Processes : /\ Elements(requests'[q]) \subseteq Elements(requests[q])
                             /\ Elements(responses'[q]) \subseteq Elements(responses[q])
    BY <1>1, EmptyHolds, Zenon DEF ClientWiresInv
  <2> QED
    BY <2>1, <2>2, <2>3, Zenon DEF ClientWiresInv
<1> QED
  BY <1>3, <1>4, <1>5, Zenon

(* Balancer::onRpcMessage() gives a request a number that no message of the *)
(* session has, and an entry with the process and the number it came with.  *)
LEMMA RequestStep ==
    ASSUME RpcIInv, NEW p \in Processes, onRequest(p) PROVE RpcIInv'
<1> USE DEF RpcIInv
<1> DEFINE m == Head(requests[p])
<1>0. /\ requests[p] # <<>> /\ requests[p] \in Seq(RpcMessages)
      /\ requests' = [requests EXCEPT ![p] = Tail(@)]
  BY Zenon DEF onRequest, ClientWiresInv
<1>1. UNCHANGED <<id_, outstandings_, call, got, responses, conn_, inService, fromBackend>>
  BY Zenon DEF onRequest, channelVars
<1>2. m \in RpcMessages /\ m \in Elements(requests[p])
  BY <1>0, TailHolds, Zenon
<1>3. NumbersInv' /\ OutstandingInv' /\ GotInv'
  BY <1>1 DEF NumbersInv, OutstandingInv, GotInv
<1>4. \A n, q : OfProcess(n, q) => OfProcess(n, q)'
  BY <1>1, Zenon DEF OfProcess
<1>5. ClientWiresInv'
  <2>1. requests' \in [Processes -> Seq(RpcMessages)]
    BY <1>0, TailHolds, Zenon DEF ClientWiresInv
  <2>2. \A q \in Processes : Elements(requests'[q]) \subseteq Elements(requests[q])
    BY <1>0, TailHolds, Zenon DEF ClientWiresInv
  <2> QED
    BY <1>1, <1>4, <2>1, <2>2, Zenon DEF ClientWiresInv
<1>6. CASE UNCHANGED <<current, nextId_, forwarded, toBackend>>
  BY <1>1, <1>3, <1>5, <1>6, CallStep, Zenon DEF RpcTypeOK
<1>7. ASSUME NEW i \in 0 .. NumBackends - 1,
             current' = (current + i + 1) % NumBackends,
             LET b == Tried(i)
                 id == nextId_[b] + 1
             IN  /\ nextId_' = [nextId_ EXCEPT ![b] = id]
                 /\ forwarded' = [forwarded EXCEPT
                        ![b] = With(@, id, [origId |-> m.id, client |-> p])]
                 /\ toBackend' = [toBackend EXCEPT ![b] = Append(@, [id |-> id, of |-> m.of])]
      PROVE  RpcIInv'
  <2>0. (current + i + 1) % NumBackends \in Nat
    BY BackendsAssumption DEF RpcTypeOK
  <2>1. PICK b \in Backends : b = Tried(i)
    <3>1. Tried(i) \in Backends
      BY BackendsAssumption DEF RpcTypeOK, Tried, Backends
    <3> QED
      BY <3>1, Zenon
  <2> DEFINE id == nextId_[b] + 1
             new == [id |-> id, of |-> m.of]
  <2>2. id \in Nat /\ new \in RpcMessages
    BY <1>2, <2>1 DEF RpcTypeOK, RpcMessages
  <2>3. /\ current' \in Nat /\ nextId_' = [nextId_ EXCEPT ![b] = id]
        /\ forwarded' = [forwarded EXCEPT ![b] = With(@, id, [origId |-> m.id, client |-> p])]
        /\ toBackend' = [toBackend EXCEPT ![b] = Append(@, new)]
    BY <1>7, <2>0, <2>1, Zenon
  <2>4. OfProcess(m, p)
    BY <1>2, Zenon DEF ClientWiresInv
  <2> HIDE DEF new, m
  <2>5. RpcTypeOK'
    BY <1>1, <2>1, <2>2, <2>3, Zenon DEF RpcTypeOK
  <2>6. DOMAIN forwarded' = Backends /\ toBackend' \in [Backends -> Seq(RpcMessages)]
    BY <2>1, <2>2, <2>3, AppendHolds, Zenon DEF SessionInv
  <2>7. /\ \A c \in Backends : c # b => forwarded'[c] = forwarded[c] /\ nextId_'[c] = nextId_[c]
        /\ nextId_'[b] = id
        /\ forwarded'[b] = With(forwarded[b], id, [origId |-> m.id, client |-> p])
    BY <2>1, <2>3, Zenon DEF SessionInv, RpcTypeOK
  <2>8. ASSUME NEW c \in Backends, NEW n, OfSession(n, c) PROVE OfSession(n, c)'
    <3>1. CASE c # b
      BY <1>4, <2>7, <2>8, <3>1, Zenon DEF OfSession
    <3>2. CASE c = b
      <4>1. n \in RpcMessages /\ n.id \in Nat /\ n.id <= nextId_[b] /\ nextId_[b] \in Nat
        BY <2>1, <2>8, <3>2, Zenon DEF OfSession, RpcMessages, RpcTypeOK
      <4>2. n.id # id /\ n.id <= nextId_'[b]
        BY <2>7, <4>1
      <4>3. n.id \in DOMAIN forwarded'[b] =>
               n.id \in DOMAIN forwarded[b] /\ forwarded'[b][n.id] = forwarded[b][n.id]
        BY <2>7, <4>2, Zenon DEF With
      <4> QED
        BY <1>4, <2>8, <3>2, <4>1, <4>2, <4>3, Zenon DEF OfSession
    <3> QED
      BY <3>1, <3>2, Zenon
  <2>9. ASSUME NEW n, n = new PROVE OfSession(n, b)'
    <3>1. n \in RpcMessages /\ n.id = id /\ n.of = m.of /\ n.id <= nextId_'[b]
      BY <2>2, <2>7, <2>9 DEF new
    <3>2. forwarded'[b][id] = [origId |-> m.id, client |-> p]
      BY <2>7, Zenon DEF With
    <3>3. \A q, l : q = p /\ l = [id |-> m.id, of |-> m.of] => OfProcess(l, q)'
      BY <1>4, <2>4 DEF OfProcess
    <3> QED
      BY <3>1, <3>2, <3>3 DEF OfSession
  <2>10. \A c \in Backends : Elements(toBackend'[c]) \subseteq
            Elements(toBackend[c]) \cup IF c = b THEN {new} ELSE {}
    BY <2>1, <2>2, <2>3, AppendHolds, Zenon DEF SessionInv
  <2>11. SessionInv'
    BY <1>1, <2>6, <2>8, <2>9, <2>10, Zenon DEF SessionInv
  <2> QED
    BY <1>3, <1>5, <2>5, <2>11, Zenon
<1> QED
  BY <1>6, <1>7, Zenon DEF onRequest

(* What the services and the loss of a backend connection do to a session:  *)
(* messages move on or are lost.                                            *)
LEMMA SessionStep ==
    ASSUME RpcIInv,
           UNCHANGED <<id_, outstandings_, call, got, requests, responses, current, nextId_,
                       forwarded>>,
           conn_' \in [Backends -> BOOLEAN],
           toBackend' \in [Backends -> Seq(RpcMessages)],
           inService' \in [Backends -> SUBSET RpcMessages],
           fromBackend' \in [Backends -> Seq(RpcMessages)],
           \A b \in Backends :
              Elements(toBackend'[b]) \cup inService'[b] \cup Elements(fromBackend'[b]) \subseteq
                 Elements(toBackend[b]) \cup inService[b] \cup Elements(fromBackend[b])
    PROVE  RpcIInv'
<1> USE DEF RpcIInv
<1>0. RpcTypeOK'
  BY Zenon DEF RpcTypeOK
<1>1. NumbersInv' /\ OutstandingInv' /\ GotInv'
  <2>1. NumbersInv'
    BY Zenon DEF NumbersInv
  <2>2. OutstandingInv'
    BY DEF OutstandingInv
  <2>3. GotInv'
    BY Zenon DEF GotInv
  <2> QED
    BY <2>1, <2>2, <2>3, Zenon
<1>2. \A m, q : OfProcess(m, q) => OfProcess(m, q)'
  BY Zenon DEF OfProcess
<1>3. ClientWiresInv'
  BY <1>2, Zenon DEF ClientWiresInv
<1>4. \A m, b : OfSession(m, b) => OfSession(m, b)'
  BY <1>2, Zenon DEF OfSession
<1>5. SessionInv'
  BY <1>4, Zenon DEF SessionInv
<1> QED
  BY <1>0, <1>1, <1>3, <1>5, Zenon

(* A backend connection fails or comes back.                                *)
LEMMA BackendStep ==
    ASSUME RpcIInv, NEW b \in Backends, BackendDown(b) \/ BackendUp(b)
    PROVE  RpcIInv'
<1>0. /\ conn_ \in [Backends -> BOOLEAN]
      /\ toBackend \in [Backends -> Seq(RpcMessages)]
      /\ inService \in [Backends -> SUBSET RpcMessages]
      /\ fromBackend \in [Backends -> Seq(RpcMessages)]
  BY Zenon DEF RpcIInv, RpcTypeOK, SessionInv
<1>1. CASE BackendDown(b)
  <2>1. UNCHANGED <<id_, outstandings_, call, got, requests, responses, current, nextId_,
                    forwarded>>
    BY <1>1, Zenon DEF BackendDown, channelVars
  <2>2. /\ conn_' = [conn_ EXCEPT ![b] = FALSE]
        /\ toBackend' = [toBackend EXCEPT ![b] = <<>>]
        /\ inService' = [inService EXCEPT ![b] = {}]
        /\ fromBackend' = [fromBackend EXCEPT ![b] = <<>>]
    BY <1>1, Zenon DEF BackendDown
  <2>3. conn_' \in [Backends -> BOOLEAN]
    BY <1>0, <2>2, Zenon
  <2>4. /\ toBackend' \in [Backends -> Seq(RpcMessages)]
        /\ inService' \in [Backends -> SUBSET RpcMessages]
        /\ fromBackend' \in [Backends -> Seq(RpcMessages)]
    BY <1>0, <2>2, EmptyHolds, Zenon
  <2>5. \A c \in Backends : /\ Elements(toBackend'[c]) \subseteq Elements(toBackend[c])
                                /\ inService'[c] \subseteq inService[c]
                                /\ Elements(fromBackend'[c]) \subseteq Elements(fromBackend[c])
    BY <1>0, <2>2, EmptyHolds, Zenon
  <2> QED
    BY <2>1, <2>3, <2>4, <2>5, SessionStep, Zenon
<1>2. CASE BackendUp(b)
  <2>1. UNCHANGED <<id_, outstandings_, call, got, requests, responses, current, nextId_,
                    forwarded, toBackend, inService, fromBackend>>
    BY <1>2, Zenon DEF BackendUp, channelVars, backendVars
  <2>2. conn_' \in [Backends -> BOOLEAN]
    BY <1>0, <1>2, Zenon DEF BackendUp
  <2> QED
    BY <1>0, <2>1, <2>2, SessionStep, Zenon
<1> QED
  BY <1>1, <1>2, Zenon

(* A service starts on a request, answers at once, or answers later.        *)
LEMMA ServiceStep ==
    ASSUME RpcIInv, NEW b \in Backends, onServiceRequest(b) \/ doneCallback(b)
    PROVE  RpcIInv'
<1>0. /\ conn_ \in [Backends -> BOOLEAN]
      /\ toBackend \in [Backends -> Seq(RpcMessages)]
      /\ inService \in [Backends -> SUBSET RpcMessages]
      /\ fromBackend \in [Backends -> Seq(RpcMessages)]
  BY Zenon DEF RpcIInv, RpcTypeOK, SessionInv
<1>1. UNCHANGED <<id_, outstandings_, call, got, requests, responses, current, conn_, nextId_,
                  forwarded>>
  BY Zenon DEF onServiceRequest, doneCallback, channelVars, sessionVars
<1>2. CASE onServiceRequest(b)
  <2> DEFINE m == Head(toBackend[b])
  <2>1. toBackend[b] # <<>> /\ toBackend' = [toBackend EXCEPT ![b] = Tail(@)]
    BY <1>2, Zenon DEF onServiceRequest
  <2>2. m \in RpcMessages /\ m \in Elements(toBackend[b])
    BY <1>0, <2>1, TailHolds, Zenon
  <2>3. /\ toBackend' \in [Backends -> Seq(RpcMessages)]
        /\ \A c \in Backends : Elements(toBackend'[c]) \subseteq Elements(toBackend[c])
    BY <1>0, <2>1, TailHolds, ZenonT(40)
  <2>4. \/ inService' = [inService EXCEPT ![b] = @ \cup {m}] /\ UNCHANGED fromBackend
        \/ fromBackend' = [fromBackend EXCEPT ![b] = Append(@, m)] /\ UNCHANGED inService
    BY <1>2, Zenon DEF onServiceRequest
  <2> HIDE DEF m
  <2>5. /\ inService' \in [Backends -> SUBSET RpcMessages]
        /\ fromBackend' \in [Backends -> Seq(RpcMessages)]
        /\ \A c \in Backends :
             inService'[c] \cup Elements(fromBackend'[c]) \subseteq
                inService[c] \cup Elements(fromBackend[c]) \cup IF c = b THEN {m} ELSE {}
    <3>1. CASE inService' = [inService EXCEPT ![b] = @ \cup {m}] /\ UNCHANGED fromBackend
      BY <1>0, <2>2, <3>1, Zenon
    <3>2. CASE fromBackend' = [fromBackend EXCEPT ![b] = Append(@, m)] /\ UNCHANGED inService
      BY <1>0, <2>2, <3>2, AppendHolds, Zenon
    <3> QED
      BY <2>4, <3>1, <3>2, Zenon
  <2> QED
    BY <1>0, <1>1, <2>2, <2>3, <2>5, SessionStep, Zenon
<1>3. CASE doneCallback(b)
  <2>1. PICK m \in inService[b] : /\ inService' = [inService EXCEPT ![b] = @ \ {m}]
                                  /\ fromBackend' = [fromBackend EXCEPT ![b] = Append(@, m)]
    BY <1>3, Zenon DEF doneCallback
  <2>2. m \in RpcMessages /\ UNCHANGED toBackend
    BY <1>0, <1>3, Zenon DEF doneCallback
  <2>3. /\ inService' \in [Backends -> SUBSET RpcMessages]
        /\ \A c \in Backends : inService'[c] \subseteq inService[c]
    BY <1>0, <2>1, Zenon
  <2>4. /\ fromBackend' \in [Backends -> Seq(RpcMessages)]
        /\ \A c \in Backends : Elements(fromBackend'[c]) \subseteq
               Elements(fromBackend[c]) \cup IF c = b THEN {m} ELSE {}
    BY <1>0, <2>1, <2>2, AppendHolds, Zenon
  <2> QED
    BY <1>0, <1>1, <2>2, <2>3, <2>4, SessionStep, Zenon
<1> QED
  BY <1>2, <1>3, Zenon

(* BackendSession::onRpcMessage() restores the number and the process of    *)
(* the request, so the response belongs to the call it is about.            *)
LEMMA AnswerStep ==
    ASSUME RpcIInv, NEW b \in Backends, onAnswer(b) PROVE RpcIInv'
<1> USE DEF RpcIInv
<1> DEFINE m == Head(fromBackend[b])
           r == forwarded[b][m.id]
           new == [id |-> r.origId, of |-> m.of]
<1>0. /\ fromBackend[b] # <<>> /\ fromBackend[b] \in Seq(RpcMessages)
      /\ fromBackend' = [fromBackend EXCEPT ![b] = Tail(@)]
  BY Zenon DEF onAnswer, SessionInv
<1>1. UNCHANGED <<id_, outstandings_, call, got, requests, current, conn_, nextId_, toBackend,
                  inService>>
  BY Zenon DEF onAnswer, channelVars
<1>2. m \in RpcMessages /\ m \in Elements(fromBackend[b])
  BY <1>0, TailHolds, Zenon
<1>3. OfSession(m, b)
  BY <1>2, Zenon DEF SessionInv
<1>4. /\ fromBackend' \in [Backends -> Seq(RpcMessages)]
      /\ \A c \in Backends : Elements(fromBackend'[c]) \subseteq Elements(fromBackend[c])
  BY <1>0, TailHolds, Zenon DEF SessionInv
<1>5. RpcTypeOK' /\ NumbersInv' /\ OutstandingInv' /\ GotInv'
  BY <1>1 DEF RpcTypeOK, NumbersInv, OutstandingInv, GotInv
<1>6. \A n, q : OfProcess(n, q) => OfProcess(n, q)'
  BY <1>1, Zenon DEF OfProcess
<1>7. SessionInv'
  <2>1. /\ DOMAIN forwarded' = Backends
        /\ \A c \in Backends :
             \A n \in DOMAIN forwarded'[c] : n \in DOMAIN forwarded[c]
                                             /\ forwarded'[c][n] = forwarded[c][n]
    <3>1. CASE m.id \notin DOMAIN forwarded[b]
      BY <3>1, Zenon DEF onAnswer, SessionInv
    <3>2. CASE m.id \in DOMAIN forwarded[b]
      <4>1. forwarded' = [forwarded EXCEPT ![b] = Without(@, m.id)]
        BY <3>2, Zenon DEF onAnswer
      <4> QED
        BY <4>1, Zenon DEF SessionInv, Without
    <3> QED
      BY <3>1, <3>2, Zenon
  <2>2. ASSUME NEW c \in Backends, NEW n, OfSession(n, c) PROVE OfSession(n, c)'
    BY <1>1, <1>6, <2>1, <2>2, Zenon DEF OfSession
  <2> QED
    BY <1>1, <1>4, <2>1, <2>2, Zenon DEF SessionInv
<1>8. ClientWiresInv'
  <2>1. CASE UNCHANGED responses
    BY <1>1, <1>6, <2>1, Zenon DEF ClientWiresInv
  <2>2. CASE /\ m.id \in DOMAIN forwarded[b]
             /\ responses' = [responses EXCEPT ![r.client] = Append(@, new)]
    <3>1. r.client \in Processes
      BY <1>3, <2>2, Zenon DEF OfSession
    <3>2. \A n, q : q = r.client /\ n = new => OfProcess(n, q)
      BY <1>3, <2>2, Zenon DEF OfSession
    <3>3. new.id \in Nat
      <4>1. OfProcess(new, r.client)
        BY <3>2, Zenon
      <4>2. r.origId = call[m.of].id
        BY <4>1, Zenon DEF OfProcess
      <4>3. call[m.of] \in RpcCalls
        BY <1>2, Zenon DEF RpcTypeOK, RpcMessages
      <4> QED
        BY <4>2, <4>3, Zenon DEF RpcCalls
    <3>4. new \in RpcMessages
      BY <1>2, <3>3, Zenon DEF RpcMessages
    <3> HIDE DEF new, r, m
    <3>5. /\ responses' \in [Processes -> Seq(RpcMessages)]
          /\ \A q \in Processes : Elements(responses'[q]) \subseteq
                Elements(responses[q]) \cup IF q = r.client THEN {new} ELSE {}
      BY <2>2, <3>1, <3>4, AppendHolds, Zenon DEF ClientWiresInv
    <3> QED
      BY <1>1, <1>6, <3>2, <3>5, Zenon DEF ClientWiresInv
  <2> QED
    BY <2>1, <2>2, Zenon DEF onAnswer, RestoredId
<1> QED
  BY <1>5, <1>7, <1>8, Zenon

(* Every step of a caller, the balancer, a service or a failing connection  *)
(* keeps RpcIInv.                                                           *)
LEMMA RpcNextInv == ASSUME RpcIInv, [RpcNext]_rpcVars PROVE RpcIInv'
<1>1. CASE RpcNext
  BY <1>1, NumbersStep, StoresStep, SendsStep, ResponseStep, RequestStep, ClientDownStep,
     AnswerStep, ServiceStep, BackendStep, Zenon DEF RpcNext, Proceeds
<1>2. CASE UNCHANGED rpcVars
  <2>1. UNCHANGED <<id_, outstandings_, call, got, requests, responses, current, conn_, nextId_,
                    forwarded, toBackend, inService, fromBackend>>
    BY <1>2, Zenon DEF rpcVars, channelVars, sessionVars, backendVars
  <2> QED
    BY <2>1, SessionStep, Zenon DEF RpcIInv, RpcTypeOK, SessionInv
<1> QED
  BY <1>1, <1>2, Zenon

(* The closure of a call runs at most once and only with the response to    *)
(* that call (RpcChannel::onRpcMessage), through the renumbering of the     *)
(* balancer and whatever backend or client connections fail.                *)
THEOREM OwnResponse == RpcSpec => []OwnResponseOnce
<1>1. RpcInit => RpcIInv
  <2> SUFFICES ASSUME RpcInit PROVE RpcIInv
    BY Zenon
  <2>1. RpcTypeOK
    <3>1. conn_ \in [Backends -> BOOLEAN]
      BY Zenon DEF RpcInit
    <3> QED
      BY <3>1 DEF RpcInit, RpcTypeOK, RpcCalls
  <2>2. NumbersInv /\ OutstandingInv /\ GotInv
    BY DEF RpcInit, NumbersInv, OutstandingInv, GotInv
  <2>3. ClientWiresInv
    BY EmptyHolds, Zenon DEF RpcInit, ClientWiresInv
  <2>4. SessionInv
    BY EmptyHolds, Zenon DEF RpcInit, SessionInv
  <2> QED
    BY <2>1, <2>2, <2>3, <2>4, Zenon DEF RpcIInv
<1>2. RpcIInv /\ [RpcNext]_rpcVars => RpcIInv'
  BY RpcNextInv, Zenon
<1>3. RpcIInv => OwnResponseOnce
  BY Zenon DEF RpcIInv, GotInv, OwnResponseOnce, OwnResponseOnce
<1> QED
  BY <1>1, <1>2, <1>3, PTL DEF RpcSpec

(***************************************************************************)
(* Tunnel: the high water marks bound what a tunnel holds, for any mark,   *)
(* any size of a read and any amount of data.                              *)
(***************************************************************************)
TunnelConn(k) ==
    /\ k = [state |-> k.state, reading |-> k.reading, in |-> k.in, out |-> k.out,
            onComplete |-> k.onComplete]
    /\ k.state \in {"kConnecting", "kConnected", "kDisconnecting", "kDisconnected"}
    /\ k.in \in Nat /\ k.out \in Nat

TunnelFunctors == {"mark", "complete", "destroyed"} \X Sides

TunnelTypeOK ==
    /\ conn = [x \in Sides |-> conn[x]]
    /\ \A x \in Sides : TunnelConn(conn[x])
    /\ pending \in Seq(TunnelFunctors)
    /\ fed \in [Sides -> Nat]

(* Until the client connection is up, nothing has happened.                 *)
UpInv ==
    /\ conn["server"].state # "kConnecting"
    /\ clientConn_ <=> conn["client"].state \in {"kConnected", "kDisconnecting"}
    /\ ~tunnels => conn["server"].state = "kDisconnected"
    /\ conn["client"].state = "kConnecting" =>
          /\ pending = <<>> /\ fault = "none"
          /\ \A x \in Sides : /\ ~conn[x].reading /\ ~conn[x].onComplete
                                    /\ conn[x].in = 0 /\ conn[x].out = 0

(* Bytes that a connection could not pass on are never passed on: the other *)
(* side no longer sends.                                                    *)
KeptInv ==
    /\ conn["server"].in > 0 =>
          ~context \/ conn["client"].state \in {"kDisconnecting", "kDisconnected"}
    /\ conn["client"].in > 0 => conn["server"].state # "kConnected"

(* Side y is not read while it waits for the output of side x.              *)
PauseInv(x, y) ==
    /\ conn[x].onComplete => ~conn[y].reading
    /\ \A i \in DOMAIN pending : pending[i] = <<"complete", x>> =>
          /\ conn[x].out = 0 /\ ~conn[y].reading
          /\ \A j \in DOMAIN pending : pending[j] = <<"complete", x>> => i = j

(* The output buffer of x beyond its mark: side y is not read any more, or  *)
(* will not be before the mark's callback has run.                          *)
MarkInv(x, y) ==
    /\ conn[x].out <= highWaterMark - 1 + MaxRead
    /\ conn[x].out >= highWaterMark =>
          \/ ~conn[y].reading
          \/ conn[x].state # "kConnected"
          \/ fault # "none"
          \/ y \in handled /\ \E i \in DOMAIN pending : pending[i] = <<"mark", x>>

TunnelIInv ==
    /\ TunnelTypeOK /\ UpInv /\ KeptInv /\ FaultsNeedAClose
    /\ PauseInv("server", "client") /\ PauseInv("client", "server")
    /\ MarkInv("server", "client") /\ MarkInv("client", "server")

-----------------------------------------------------------------------------
(* The sides of a tunnel.                                                   *)
LEMMA TwoSides ==
    ASSUME NEW x \in Sides
    PROVE  \E y \in Sides : /\ y = Other(x) /\ x # y /\ Sides = {x, y}
                                  /\ Other(y) = x
                                  /\ \/ x = "server" /\ y = "client"
                                     \/ x = "client" /\ y = "server"
BY Zenon DEF Sides, Other

(* The invariant, by the side x and the side y that is not x.               *)
LEMMA BySides ==
    ASSUME NEW x \in Sides, NEW y \in Sides, x # y
    PROVE  /\ TunnelIInv => /\ PauseInv(x, y) /\ PauseInv(y, x) /\ MarkInv(x, y) /\ MarkInv(y, x)
                            /\ TunnelConn(conn[x]) /\ TunnelConn(conn[y])
           /\ (/\ UpInv /\ KeptInv /\ FaultsNeedAClose /\ TunnelTypeOK
               /\ PauseInv(x, y) /\ PauseInv(y, x) /\ MarkInv(x, y) /\ MarkInv(y, x)
               => TunnelIInv)'
<1>1. \/ x = "server" /\ y = "client"
      \/ x = "client" /\ y = "server"
  BY Zenon DEF Sides
<1>2. TunnelIInv => TunnelConn(conn[x]) /\ TunnelConn(conn[y])
  BY Zenon DEF TunnelIInv, TunnelTypeOK
<1>3. CASE x = "server" /\ y = "client"
  BY <1>2, <1>3, Zenon DEF TunnelIInv
<1>4. CASE x = "client" /\ y = "server"
  BY <1>2, <1>4, Zenon DEF TunnelIInv
<1> QED
  BY <1>1, <1>3, <1>4, Zenon

(* A queue after an entry was appended.                                     *)
LEMMA Appended ==
    ASSUME NEW S, NEW s \in Seq(S), NEW e \in S, NEW t, t = Append(s, e)
    PROVE  /\ t \in Seq(S)
           /\ \A i \in DOMAIN s : i \in DOMAIN t /\ t[i] = s[i]
           /\ \A i \in DOMAIN t : \/ i = Len(s) + 1 /\ t[i] = e
                                  \/ i \in DOMAIN s /\ t[i] = s[i]
           /\ \E i \in DOMAIN t : t[i] = e
<1>1. t \in Seq(S) /\ Len(t) = Len(s) + 1 /\ t[Len(t)] = e
  OBVIOUS
<1>2. \A i \in DOMAIN s : i \in DOMAIN t /\ t[i] = s[i]
  OBVIOUS
<1>3. \A i \in DOMAIN t : \/ i = Len(s) + 1 /\ t[i] = e
                          \/ i \in DOMAIN s /\ t[i] = s[i]
  OBVIOUS
<1>4. Len(t) \in DOMAIN t
  BY <1>1
<1> QED
  BY <1>1, <1>2, <1>3, <1>4, Zenon

(* A read passes on what it brought and nothing that was kept, only to a    *)
(* buffer below its mark; if it passes the mark, the callback is queued.    *)
LEMMA ReadableStep ==
    ASSUME TunnelIInv, NEW x \in Sides, Readable(x) PROVE TunnelIInv'
<1>0. PICK y \in Sides : /\ y = Other(x) /\ x # y /\ Sides = {x, y}
                               /\ \/ x = "server" /\ y = "client"
                                  \/ x = "client" /\ y = "server"
  BY TwoSides, Zenon
<1>1. /\ x \notin handled /\ fault = "none" /\ conn[x].reading /\ Up(x)
      /\ handled' = handled \cup {x}
      /\ UNCHANGED <<context, clientConn_, tunnels, fault>>
  BY Zenon DEF Readable, Event
<1>2. /\ PauseInv(x, y) /\ PauseInv(y, x) /\ MarkInv(x, y) /\ MarkInv(y, x)
      /\ TunnelConn(conn[x]) /\ TunnelConn(conn[y])
  BY <1>0, BySides, Zenon
<1>3. conn["client"].state # "kConnecting"
  BY <1>0, <1>1, Zenon DEF TunnelIInv, UpInv
<1>4. PICK n \in 1 .. MaxRead :
        LET len == conn[x].in + n
            forwards == (x = "server" => context) /\ conn[y].state = "kConnected"
        IN
        /\ n <= fed[x]
        /\ fed' = [fed EXCEPT ![x] = @ - n]
        /\ IF forwards
           THEN \E wrote \in Writes(y, len) :
                /\ conn' = [conn EXCEPT ![x].in = 0, ![y] = Sent(@, len, wrote)]
                /\ pending' = pending \o Queued(y, len, wrote)
           ELSE conn' = [conn EXCEPT ![x].in = len] /\ UNCHANGED pending
  BY <1>0, Zenon DEF Readable
<1>5. n \in Nat /\ n > 0 /\ n <= MaxRead
  BY TunnelAssumption
<1>6. fed' \in [Sides -> Nat]
  BY <1>4, <1>5 DEF TunnelIInv, TunnelTypeOK
<1>7. CASE ~((x = "server" => context) /\ conn[y].state = "kConnected")
  <2> DEFINE k == [conn[x] EXCEPT !.in = @ + n]
  <2>1. /\ DOMAIN conn' = Sides /\ conn'[x] = k /\ conn'[y] = conn[y]
        /\ conn' = [z \in DOMAIN conn' |-> conn'[z]] /\ UNCHANGED pending
    BY <1>0, <1>4, <1>7, Zenon DEF TunnelIInv, TunnelTypeOK
  <2>2. TunnelConn(k) /\ /\ k.state = conn[x].state /\ k.reading = conn[x].reading
                         /\ k.out = conn[x].out /\ k.onComplete = conn[x].onComplete
    BY <1>2, <1>5 DEF TunnelConn
  <2> HIDE DEF k
  <2>3. /\ conn' = [z \in Sides |-> conn'[z]]
        /\ \A z \in Sides : TunnelConn(conn'[z])
        /\ conn'[x] = k /\ conn'[y] = conn[y]
    BY <1>0, <1>2, <2>1, <2>2, Zenon
  <2>4. TunnelTypeOK'
    BY <1>6, <2>1, <2>3, Zenon DEF TunnelIInv, TunnelTypeOK
  <2>5. UpInv' /\ FaultsNeedAClose'
    BY <1>0, <1>1, <1>3, <2>1, <2>2, <2>3, ZenonT(40) DEF TunnelIInv, UpInv, FaultsNeedAClose
  <2>6. KeptInv'
    BY <1>0, <1>1, <1>2, <1>3, <1>7, <2>2, <2>3, ZenonT(40) DEF TunnelIInv, KeptInv, TunnelConn
  <2>7. PauseInv(x, y)' /\ PauseInv(y, x)'
    BY <1>2, <2>1, <2>2, <2>3, Zenon DEF PauseInv
  <2>8. MarkInv(x, y)' /\ MarkInv(y, x)'
    BY <1>1, <1>2, <2>1, <2>2, <2>3, Zenon DEF MarkInv
  <2> QED
    BY <1>0, <2>4, <2>5, <2>6, <2>7, <2>8, BySides, Zenon
<1>8. CASE (x = "server" => context) /\ conn[y].state = "kConnected"
  <2>1. conn[x].in = 0
    BY <1>0, <1>2, <1>8 DEF TunnelIInv, KeptInv, TunnelConn
  <2>2. PICK wrote \in Writes(y, n) :
          /\ conn' = [conn EXCEPT ![x].in = 0, ![y] = Sent(@, n, wrote)]
          /\ pending' = pending \o Queued(y, n, wrote)
    <3>1. conn[x].in + n = n
      BY <1>5, <2>1
    <3> QED
      BY <1>4, <1>8, <3>1, Zenon
  <2>3. wrote \in Nat /\ wrote <= n
    BY <1>5, <2>2 DEF Writes
  <2> DEFINE out == conn[y].out + n - wrote
             k == [conn[y] EXCEPT !.out = out]
  <2>4. Sent(conn[y], n, wrote) = k
    BY <1>8, Zenon DEF Sent
  <2>5. out \in Nat /\ out >= conn[y].out /\ (n - wrote > 0 <=> out > conn[y].out)
        /\ (n - wrote = 0 <=> out = conn[y].out) /\ out <= conn[y].out + MaxRead
    BY <1>2, <1>5, <2>3, TunnelAssumption DEF TunnelConn
  <2>6. TunnelConn(k) /\ /\ k.state = conn[y].state /\ k.reading = conn[y].reading
                         /\ k.in = conn[y].in /\ k.out = out /\ k.onComplete = conn[y].onComplete
    BY <1>2, <2>5 DEF TunnelConn
  <2>7. conn[x] = [conn[x] EXCEPT !.in = 0]
    BY <1>2, <2>1, Zenon DEF TunnelConn
  <2> HIDE DEF k, out
  <2>8. /\ DOMAIN conn' = Sides /\ conn'[x] = conn[x] /\ conn'[y] = k
        /\ conn' = [z \in DOMAIN conn' |-> conn'[z]]
    BY <1>0, <2>2, <2>4, <2>7, Zenon DEF TunnelIInv, TunnelTypeOK
  <2>9. /\ conn' = [z \in Sides |-> conn'[z]]
        /\ \A z \in Sides : TunnelConn(conn'[z])
        /\ conn'[x] = conn[x] /\ conn'[y] = k
    BY <1>0, <1>2, <2>6, <2>8, Zenon
  <2>10. conn[y].out < highWaterMark /\ ~conn[y].onComplete
    BY <1>1, <1>2, <1>8, TunnelAssumption DEF MarkInv, PauseInv, TunnelConn
  <2>11. /\ out >= highWaterMark => Queued(y, n, wrote) = <<<<"mark", y>>>>
         /\ ~(out >= highWaterMark) => Queued(y, n, wrote) = <<>>
    BY <1>2, <1>8, <2>3, <2>5, <2>10, TunnelAssumption DEF Queued, out, TunnelConn
  <2>12. <<"mark", y>> \in TunnelFunctors
    BY Zenon DEF TunnelFunctors
  <2>13. pending \in Seq(TunnelFunctors)
    BY Zenon DEF TunnelIInv, TunnelTypeOK
  <2>14. /\ pending' \in Seq(TunnelFunctors)
         /\ \A i \in DOMAIN pending : i \in DOMAIN pending' /\ pending'[i] = pending[i]
         /\ \A i \in DOMAIN pending' : pending'[i] = <<"mark", y>>
                                       \/ (i \in DOMAIN pending /\ pending'[i] = pending[i])
         /\ out >= highWaterMark => \E i \in DOMAIN pending' : pending'[i] = <<"mark", y>>
    <3>1. CASE out >= highWaterMark
      <4>1. PICK e \in TunnelFunctors : e = <<"mark", y>>
        BY <2>12, Zenon
      <4>2. pending' = pending \o <<e>>
        BY <2>2, <2>11, <3>1, <4>1, Zenon
      <4>3. pending' = Append(pending, e)
        BY <2>13, <4>2
      <4>4. /\ pending' \in Seq(TunnelFunctors)
            /\ \A i \in DOMAIN pending : i \in DOMAIN pending' /\ pending'[i] = pending[i]
            /\ \A i \in DOMAIN pending' : \/ i = Len(pending) + 1 /\ pending'[i] = e
                                          \/ i \in DOMAIN pending /\ pending'[i] = pending[i]
            /\ \E i \in DOMAIN pending' : pending'[i] = e
        BY <2>13, <4>3, Appended
      <4> QED
        BY <4>1, <4>4, Zenon
    <3>2. CASE ~(out >= highWaterMark)
      <4>1. pending' = pending
        BY <2>2, <2>11, <2>13, <3>2
      <4> QED
        BY <2>13, <3>2, <4>1, Zenon
    <3> QED
      BY <3>1, <3>2, Zenon
  <2>15. TunnelTypeOK'
    BY <1>6, <2>9, <2>14, Zenon DEF TunnelTypeOK
  <2>16. UpInv' /\ FaultsNeedAClose'
    BY <1>0, <1>1, <1>3, <2>6, <2>9, ZenonT(40) DEF TunnelIInv, UpInv, FaultsNeedAClose
  <2>17. KeptInv'
    BY <1>0, <1>1, <2>6, <2>9 DEF TunnelIInv, KeptInv
  <2>18. PauseInv(x, y)'
    BY <1>2, <2>6, <2>9, <2>14 DEF PauseInv
  <2>19. PauseInv(y, x)'
    BY <1>1, <1>2, <2>6, <2>9, <2>14 DEF PauseInv
  <2>20. MarkInv(x, y)'
    BY <1>1, <1>2, <2>6, <2>9, <2>14, Zenon DEF MarkInv
  <2>21. out <= highWaterMark - 1 + MaxRead
    BY <1>2, <2>5, <2>10, TunnelAssumption DEF TunnelConn
  <2>22. MarkInv(y, x)'
    BY <1>1, <2>6, <2>9, <2>14, <2>21, Zenon DEF MarkInv
  <2> QED
    BY <1>0, <2>15, <2>16, <2>17, <2>18, <2>19, <2>20, <2>22, BySides, Zenon
<1> QED
  BY <1>7, <1>8, Zenon

(* handleWrite() only shortens a buffer; the callback is queued once the    *)
(* buffer is empty.                                                         *)
LEMMA WritableStep ==
    ASSUME TunnelIInv, NEW x \in Sides, Writable(x) PROVE TunnelIInv'
<1>0. PICK y \in Sides : /\ x # y /\ Sides = {x, y}
                               /\ \/ x = "server" /\ y = "client"
                                  \/ x = "client" /\ y = "server"
  BY TwoSides, Zenon
<1>1. PICK f \in TunnelFunctors : f = <<"complete", x>>
  BY Zenon DEF TunnelFunctors
<1>2. /\ fault = "none" /\ Up(x) /\ conn[x].out > 0
      /\ handled' = handled \cup {x}
      /\ UNCHANGED <<context, clientConn_, tunnels, fed, fault>>
  BY Zenon DEF Writable, Event
<1>3. /\ PauseInv(x, y) /\ PauseInv(y, x) /\ MarkInv(x, y) /\ MarkInv(y, x)
      /\ TunnelConn(conn[x]) /\ TunnelConn(conn[y])
  BY <1>0, BySides, Zenon
<1>4. PICK n \in 1 .. conn[x].out :
        /\ conn' = [conn EXCEPT ![x].out = @ - n]
        /\ pending' = IF n = conn[x].out /\ conn[x].onComplete THEN Append(pending, f) ELSE pending
  BY <1>1, Zenon DEF Writable
<1> DEFINE k == [conn[x] EXCEPT !.out = @ - n]
<1>5. TunnelConn(k) /\ /\ k.state = conn[x].state /\ k.reading = conn[x].reading
                       /\ k.in = conn[x].in /\ k.out = conn[x].out - n
                       /\ k.onComplete = conn[x].onComplete
  BY <1>3, <1>4 DEF TunnelConn
<1>6. k.out <= conn[x].out /\ (n = conn[x].out => k.out = 0) /\ k.out \in Nat /\ conn[x].out \in Nat
  BY <1>3, <1>4, <1>5 DEF TunnelConn
<1>7. /\ DOMAIN conn' = Sides /\ conn'[x] = k /\ conn'[y] = conn[y]
      /\ conn' = [z \in DOMAIN conn' |-> conn'[z]]
  BY <1>0, <1>4, Zenon DEF TunnelIInv, TunnelTypeOK
<1> HIDE DEF k
<1>8. pending \in Seq(TunnelFunctors)
  BY Zenon DEF TunnelIInv, TunnelTypeOK
<1>9. /\ pending' \in Seq(TunnelFunctors)
      /\ \A i \in DOMAIN pending : i \in DOMAIN pending' /\ pending'[i] = pending[i]
      /\ \A i \in DOMAIN pending' :
            \/ i = Len(pending) + 1 /\ pending'[i] = f /\ n = conn[x].out /\ conn[x].onComplete
            \/ i \in DOMAIN pending /\ pending'[i] = pending[i]
  <2>1. CASE n = conn[x].out /\ conn[x].onComplete
    BY <1>4, <1>8, <2>1, Appended
  <2>2. CASE ~(n = conn[x].out /\ conn[x].onComplete)
    BY <1>4, <1>8, <2>2, Zenon
  <2> QED
    BY <2>1, <2>2, Zenon
<1>10. TunnelTypeOK'
  <2>1. conn' = [z \in Sides |-> conn'[z]] /\ \A z \in Sides : TunnelConn(conn'[z])
    BY <1>0, <1>3, <1>5, <1>7, Zenon
  <2> QED
    BY <1>2, <1>9, <2>1, Zenon DEF TunnelIInv, TunnelTypeOK
<1>11. conn["client"].state # "kConnecting"
  BY <1>0, <1>2, <1>3 DEF TunnelIInv, UpInv, TunnelConn
<1>12. UpInv' /\ KeptInv' /\ FaultsNeedAClose'
  BY <1>0, <1>2, <1>5, <1>7, <1>11, Zenon DEF TunnelIInv, UpInv, KeptInv, FaultsNeedAClose
<1>13. \A i \in DOMAIN pending : pending[i] # f
  BY <1>1, <1>2, <1>3 DEF PauseInv
<1>14. PauseInv(x, y)'
  BY <1>1, <1>3, <1>5, <1>6, <1>7, <1>9, <1>13, Zenon DEF PauseInv
<1>15. PauseInv(y, x)'
  BY <1>0, <1>1, <1>3, <1>5, <1>7, <1>9 DEF PauseInv
<1>16. MarkInv(x, y)'
  <2>1. conn'[x].out <= conn[x].out /\ conn'[x].out \in Nat /\ conn[x].out \in Nat
    BY <1>6, <1>7, Zenon
  <2>2. conn'[x].out <= highWaterMark - 1 + MaxRead
    BY <1>3, <2>1, TunnelAssumption DEF MarkInv
  <2>3. conn'[x].out >= highWaterMark => conn[x].out >= highWaterMark
    BY <2>1, TunnelAssumption
  <2> QED
    BY <1>2, <1>3, <1>5, <1>7, <1>9, <2>2, <2>3, Zenon DEF MarkInv
<1>17. MarkInv(y, x)'
  BY <1>2, <1>3, <1>5, <1>7, <1>9, Zenon DEF MarkInv
<1> QED
  BY <1>0, <1>10, <1>12, <1>14, <1>15, <1>16, <1>17, BySides, Zenon

(* The end of one connection stops its reading and shuts the other down.    *)
LEMMA DownStep ==
    ASSUME TunnelIInv, ServerDown \/ ClientDown PROVE TunnelIInv'
<1>1. PICK x \in Sides, y \in Sides :
        /\ \/ x = "server" /\ y = "client"
           \/ x = "client" /\ y = "server"
        /\ Closes(x)
        /\ conn' = [conn EXCEPT ![x] = Closed(@), ![y] = Shut(@)]
        /\ handled' = handled \cup {x} /\ UNCHANGED <<fed, fault>>
        /\ x = "server" => UNCHANGED <<context, clientConn_, pending>> /\ tunnels' = FALSE
        /\ x = "client" => /\ context' = FALSE /\ clientConn_' = FALSE /\ UNCHANGED tunnels
                           /\ pending' = Append(pending, <<"destroyed", "client">>)
  <2>1. CASE ServerDown
    BY <2>1, Zenon DEF ServerDown, Sides
  <2>2. CASE ClientDown
    BY <2>2, Zenon DEF ClientDown, Sides
  <2> QED
    BY <2>1, <2>2, Zenon
<1>2. x # y /\ Sides = {x, y}
  BY <1>1, Zenon DEF Sides
<1>3. Up(x) /\ fault = "none"
  BY <1>1, Zenon DEF Closes, Event
<1>4. /\ PauseInv(x, y) /\ PauseInv(y, x) /\ MarkInv(x, y) /\ MarkInv(y, x)
      /\ TunnelConn(conn[x]) /\ TunnelConn(conn[y])
  BY <1>2, BySides, Zenon
<1>5. conn["client"].state # "kConnecting"
  <2>1. CASE x = "client"
    BY <1>3, <2>1, Zenon DEF Up
  <2>2. CASE x = "server"
    BY <1>1, <1>2, <1>4, <2>2 DEF Closes, TunnelIInv, UpInv, TunnelConn
  <2> QED
    BY <1>1, <2>1, <2>2, Zenon
<1>no. PICK no : no = FALSE
  BY Zenon
<1>k0. PICK k0 : k0 = [conn[x] EXCEPT !.state = "kDisconnected"]
  BY Zenon
<1>k1. TunnelConn(k0) /\ /\ k0.state = "kDisconnected" /\ k0.in = conn[x].in
                         /\ k0.out = conn[x].out /\ k0.onComplete = conn[x].onComplete
  BY <1>4, <1>k0, Zenon DEF TunnelConn
<1> DEFINE k == [k0 EXCEPT !.reading = no]
           l == Shut(conn[y])
<1>6. TunnelConn(k) /\ /\ k.state = "kDisconnected" /\ k.reading = no
                       /\ k.in = conn[x].in /\ k.out = conn[x].out
                       /\ k.onComplete = conn[x].onComplete
  BY <1>k1 DEF TunnelConn
<1>7. TunnelConn(l) /\ /\ l.state = IF conn[y].state = "kConnected" THEN "kDisconnecting"
                                    ELSE conn[y].state
                       /\ l.reading = conn[y].reading
                       /\ l.in = conn[y].in /\ l.out = conn[y].out
                       /\ l.onComplete = conn[y].onComplete
  BY <1>4 DEF TunnelConn, Shut
<1>k. Closed(conn[x]) = k
  BY <1>no, <1>k0, Zenon DEF Closed
<1>l. Shut(conn[y]) = l
  BY Zenon
<1>r. ~k.reading
  BY <1>6, <1>no, Zenon
<1> HIDE DEF k, l
<1>8. /\ DOMAIN conn' = Sides /\ conn'[x] = k /\ conn'[y] = l
      /\ conn' = [z \in DOMAIN conn' |-> conn'[z]]
  BY <1>1, <1>2, <1>k, <1>l, Zenon DEF TunnelIInv, TunnelTypeOK
<1>9. PICK f \in TunnelFunctors : f = <<"destroyed", "client">>
  BY Zenon DEF TunnelFunctors, Sides
<1>10. pending \in Seq(TunnelFunctors)
  BY Zenon DEF TunnelIInv, TunnelTypeOK
<1>11. /\ pending' \in Seq(TunnelFunctors)
       /\ \A i \in DOMAIN pending : i \in DOMAIN pending' /\ pending'[i] = pending[i]
       /\ \A i \in DOMAIN pending' : \/ pending'[i] = f
                                     \/ i \in DOMAIN pending /\ pending'[i] = pending[i]
  <2>1. CASE x = "client"
    <3>1. pending' = Append(pending, f)
      BY <1>1, <1>9, <2>1, Zenon
    <3> QED
      BY <1>10, <3>1, Appended
  <2>2. CASE x = "server"
    BY <1>1, <1>10, <2>2, Zenon
  <2> QED
    BY <1>1, <2>1, <2>2, Zenon
<1>12. TunnelTypeOK'
  <2>1. conn' = [z \in Sides |-> conn'[z]] /\ \A z \in Sides : TunnelConn(conn'[z])
    BY <1>2, <1>6, <1>7, <1>8, Zenon
  <2> QED
    BY <1>1, <1>11, <2>1, Zenon DEF TunnelIInv, TunnelTypeOK
<1>13. UpInv' /\ FaultsNeedAClose'
  BY <1>1, <1>3, <1>5, <1>6, <1>7, <1>8, <1>r, SMTT(30) DEF TunnelIInv, UpInv,
     FaultsNeedAClose, Up
<1>14. KeptInv'
  BY <1>1, <1>5, <1>6, <1>7, <1>8 DEF TunnelIInv, KeptInv
<1>15. PauseInv(x, y)' /\ PauseInv(y, x)'
  BY <1>4, <1>6, <1>7, <1>8, <1>9, <1>11, <1>r, SMTT(30) DEF PauseInv
<1>16. MarkInv(x, y)' /\ MarkInv(y, x)'
  BY <1>1, <1>4, <1>6, <1>7, <1>8, <1>11, <1>r, Zenon DEF MarkInv
<1> QED
  BY <1>2, <1>12, <1>13, <1>14, <1>15, <1>16, BySides, Zenon

(* onClientConnection(), UP, starts from empty buffers.                     *)
LEMMA ClientUpStep == ASSUME TunnelIInv, ClientUp PROVE TunnelIInv'
<1>1. /\ conn["client"].state = "kConnecting" /\ fault = "none"
      /\ context' = TRUE /\ clientConn_' = TRUE
      /\ UNCHANGED <<tunnels, pending, fed, fault>>
  BY Zenon DEF ClientUp, Event
<1>2. PICK x \in Sides, y \in Sides :
        x = "server" /\ y = "client" /\ x # y /\ Sides = {x, y}
  BY Zenon DEF Sides
<1>3. /\ pending = <<>>
      /\ ~conn[x].reading /\ ~conn[x].onComplete /\ conn[x].in = 0 /\ conn[x].out = 0
      /\ ~conn[y].reading /\ ~conn[y].onComplete /\ conn[y].in = 0 /\ conn[y].out = 0
  BY <1>1, <1>2, Zenon DEF TunnelIInv, UpInv
<1>4. TunnelConn(conn[x]) /\ TunnelConn(conn[y])
  BY <1>2, BySides, Zenon
<1>yes. PICK yes : yes = TRUE
  BY Zenon
<1>k0. PICK k0 : k0 = [conn[x] EXCEPT !.reading = yes]
  BY Zenon
<1>k1. TunnelConn(k0) /\ /\ k0.state = conn[x].state /\ k0.onComplete = conn[x].onComplete
                         /\ k0.out = conn[x].out
  BY <1>4, <1>k0, Zenon DEF TunnelConn
<1>l0. PICK l0 : l0 = [conn[y] EXCEPT !.state = "kConnected"]
  BY Zenon
<1>l1. TunnelConn(l0) /\ l0.state = "kConnected" /\ l0.in = 0 /\ l0.onComplete = conn[y].onComplete
  BY <1>3, <1>4, <1>l0, Zenon DEF TunnelConn
<1>l2. PICK l1 : l1 = [l0 EXCEPT !.reading = yes]
  BY Zenon
<1>l3. TunnelConn(l1) /\ l1.state = "kConnected" /\ l1.in = 0 /\ l1.onComplete = conn[y].onComplete
  BY <1>l1, <1>l2, Zenon DEF TunnelConn
<1> DEFINE k == [k0 EXCEPT !.in = 0]
           l == [l1 EXCEPT !.out = 0]
<1>5. TunnelConn(k) /\ /\ k.state = conn[x].state /\ k.onComplete = conn[x].onComplete
                       /\ k.in = 0 /\ k.out = 0
  BY <1>3, <1>k1 DEF TunnelConn
<1>6. TunnelConn(l) /\ /\ l.state = "kConnected" /\ l.onComplete = conn[y].onComplete
                       /\ l.in = 0 /\ l.out = 0
  BY <1>l3 DEF TunnelConn
<1>7. \E wrote \in 0 .. 0 :
         conn' = [conn EXCEPT ![x].reading = yes, ![x].in = 0,
                    ![y] = [[conn[y] EXCEPT !.state = "kConnected", !.reading = yes]
                               EXCEPT !.out = 0 - wrote]]
  BY <1>2, <1>3, <1>yes, Zenon DEF ClientUp
<1>8. conn' = [conn EXCEPT ![x].reading = yes, ![x].in = 0, ![y] = l]
  <2>1. \A wrote \in 0 .. 0 : wrote = 0
    OBVIOUS
  <2>2. 0 - 0 = 0
    OBVIOUS
  <2> QED
    BY <1>7, <1>l0, <1>l2, <2>1, <2>2, Zenon
<1> HIDE DEF l
<1>9. /\ DOMAIN conn' = Sides /\ conn'[x] = k /\ conn'[y] = l
      /\ conn' = [z \in DOMAIN conn' |-> conn'[z]]
  BY <1>2, <1>8, <1>k0, Zenon DEF TunnelIInv, TunnelTypeOK
<1> HIDE DEF k
<1>10. TunnelTypeOK'
  <2>1. conn' = [z \in Sides |-> conn'[z]] /\ \A z \in Sides : TunnelConn(conn'[z])
    BY <1>2, <1>5, <1>6, <1>9, Zenon
  <2> QED
    BY <1>1, <2>1, Zenon DEF TunnelIInv, TunnelTypeOK
<1>11. UpInv' /\ KeptInv' /\ FaultsNeedAClose'
  BY <1>1, <1>2, <1>3, <1>5, <1>6, <1>9 DEF TunnelIInv, UpInv, KeptInv, FaultsNeedAClose
<1>12. PauseInv(x, y)' /\ PauseInv(y, x)'
  BY <1>1, <1>3, <1>5, <1>6, <1>9 DEF PauseInv
<1>13. MarkInv(x, y)' /\ MarkInv(y, x)'
  BY <1>5, <1>6, <1>9, TunnelAssumption DEF MarkInv
<1> QED
  BY <1>2, <1>10, <1>11, <1>12, <1>13, BySides, Zenon

(* A functor that has run leaves the queue.                                 *)
LEMMA Popped ==
    ASSUME TunnelIInv, RunFunctor
    PROVE  /\ pending' \in Seq(TunnelFunctors)
           /\ \A i \in DOMAIN pending' : i + 1 \in DOMAIN pending /\ pending'[i] = pending[i + 1]
           /\ \A i \in DOMAIN pending : i = 1 \/ (i - 1 \in DOMAIN pending' /\ pending'[i - 1] = pending[i])
           /\ 1 \in DOMAIN pending /\ Head(pending) = pending[1]
           /\ Head(pending) \in TunnelFunctors
           /\ \A i, j \in DOMAIN pending' : i + 1 = j + 1 => i = j
           /\ \A i \in DOMAIN pending' : i + 1 # 1
BY DEF RunFunctor, TunnelIInv, TunnelTypeOK

(* What is still queued behind it was queued before.                        *)
LEMMA StillQueued ==
    ASSUME TunnelIInv, RunFunctor, NEW x, NEW y, PauseInv(x, y)
    PROVE  \A i \in DOMAIN pending' : pending'[i] = <<"complete", x>> =>
              /\ conn[x].out = 0 /\ ~conn[y].reading /\ Head(pending) # <<"complete", x>>
              /\ \A j \in DOMAIN pending' : pending'[j] = <<"complete", x>> => i = j
<1> SUFFICES ASSUME NEW i \in DOMAIN pending', pending'[i] = <<"complete", x>>
             PROVE  /\ conn[x].out = 0 /\ ~conn[y].reading /\ Head(pending) # <<"complete", x>>
                    /\ \A j \in DOMAIN pending' : pending'[j] = <<"complete", x>> => i = j
  BY Zenon
<1>1. i + 1 \in DOMAIN pending /\ pending[i + 1] = <<"complete", x>> /\ i + 1 # 1
  BY Popped, Zenon
<1>2. conn[x].out = 0 /\ ~conn[y].reading
  BY <1>1, Zenon DEF PauseInv
<1>3. Head(pending) # <<"complete", x>>
  BY <1>1, Popped, Zenon DEF PauseInv
<1>4. \A j \in DOMAIN pending' : pending'[j] = <<"complete", x>> => i = j
  BY <1>1, Popped DEF PauseInv
<1> QED
  BY <1>2, <1>3, <1>4, Zenon

(* A callback that stops: the other side has no output to wait for, or one  *)
(* of the connections is gone.                                              *)
LEMMA FunctorStops ==
    ASSUME TunnelIInv, RunFunctor, UNCHANGED conn, FaultsNeedAClose',
           NEW x \in Sides, NEW what, Head(pending) = <<what, x>>,
           what = "mark" => \/ fault' # "none"
                            \/ conn[x].out = 0
                            \/ conn[x].state # "kConnected"
    PROVE  TunnelIInv'
<1>0. PICK y \in Sides : /\ x # y /\ Sides = {x, y}
                               /\ \/ x = "server" /\ y = "client"
                                  \/ x = "client" /\ y = "server"
  BY TwoSides, Zenon
<1>1. /\ fault = "none" /\ pending # <<>>
      /\ UNCHANGED <<context, clientConn_, tunnels, fed>> /\ handled \subseteq handled'
  BY Zenon DEF RunFunctor
<1>2. /\ PauseInv(x, y) /\ PauseInv(y, x) /\ MarkInv(x, y) /\ MarkInv(y, x)
      /\ TunnelConn(conn[x]) /\ TunnelConn(conn[y])
  BY <1>0, BySides, Zenon
<1>3. TunnelTypeOK'
  BY <1>1, Popped, Zenon DEF TunnelIInv, TunnelTypeOK
<1>4. UpInv' /\ KeptInv'
  BY <1>1, Zenon DEF TunnelIInv, UpInv, KeptInv
<1>5. PauseInv(x, y)' /\ PauseInv(y, x)'
  BY <1>2, Popped DEF PauseInv
<1>6. MarkInv(x, y)'
  <2>1. conn[x].out = 0 => ~(conn[x].out >= highWaterMark)
    BY TunnelAssumption
  <2>2. \A i \in DOMAIN pending : pending[i] = <<"mark", x>> =>
           what = "mark" \/ \E j \in DOMAIN pending' : pending'[j] = <<"mark", x>>
    BY Popped
  <2> QED
    BY <1>1, <1>2, <2>1, <2>2, Zenon DEF MarkInv
<1>7. MarkInv(y, x)'
  <2>1. \A i \in DOMAIN pending : pending[i] = <<"mark", y>> =>
           \E j \in DOMAIN pending' : pending'[j] = <<"mark", y>>
    BY <1>0, Popped
  <2> QED
    BY <1>1, <1>2, <2>1, Zenon DEF MarkInv
<1> QED
  BY <1>0, <1>3, <1>4, <1>5, <1>6, <1>7, BySides, Zenon

(* A callback that turns the reading of the other side on or off.           *)
LEMMA FunctorTurns ==
    ASSUME TunnelIInv, RunFunctor, UNCHANGED fault, NEW x \in Sides,
           NEW what, Head(pending) = <<what, x>>, NEW reads, NEW waits,
           conn' = [conn EXCEPT ![Other(x)].reading = reads, ![x].onComplete = waits],
           \/ what = "mark" /\ ~reads /\ waits
           \/ what = "complete" /\ ~waits
    PROVE  TunnelIInv'
<1>0. PICK y \in Sides : /\ y = Other(x) /\ x # y /\ Sides = {x, y}
                               /\ \/ x = "server" /\ y = "client"
                                  \/ x = "client" /\ y = "server"
  BY TwoSides, Zenon
<1>1. /\ fault = "none" /\ pending # <<>>
      /\ UNCHANGED <<context, clientConn_, tunnels, fed>> /\ handled \subseteq handled'
  BY Zenon DEF RunFunctor
<1>2. /\ PauseInv(x, y) /\ PauseInv(y, x) /\ MarkInv(x, y) /\ MarkInv(y, x)
      /\ TunnelConn(conn[x]) /\ TunnelConn(conn[y])
  BY <1>0, BySides, Zenon
<1> DEFINE k == [conn[x] EXCEPT !.onComplete = waits]
           l == [conn[y] EXCEPT !.reading = reads]
<1>3. TunnelConn(k) /\ /\ k.state = conn[x].state /\ k.reading = conn[x].reading
                       /\ k.in = conn[x].in /\ k.out = conn[x].out /\ k.onComplete = waits
  BY <1>2 DEF TunnelConn
<1>4. TunnelConn(l) /\ /\ l.state = conn[y].state /\ l.reading = reads
                       /\ l.in = conn[y].in /\ l.out = conn[y].out
                       /\ l.onComplete = conn[y].onComplete
  BY <1>2 DEF TunnelConn
<1>5. /\ DOMAIN conn' = Sides /\ conn'[x] = k /\ conn'[y] = l
      /\ conn' = [z \in DOMAIN conn' |-> conn'[z]]
  BY <1>0, Zenon DEF TunnelIInv, TunnelTypeOK
<1> HIDE DEF k, l
<1>6. TunnelTypeOK'
  <2>1. conn' = [z \in Sides |-> conn'[z]] /\ \A z \in Sides : TunnelConn(conn'[z])
    BY <1>0, <1>3, <1>4, <1>5, Zenon
  <2> QED
    BY <1>1, <2>1, Popped, Zenon DEF TunnelIInv, TunnelTypeOK
<1>7. conn["client"].state # "kConnecting"
  BY <1>1, Zenon DEF TunnelIInv, UpInv
<1>8. UpInv' /\ KeptInv' /\ FaultsNeedAClose'
  BY <1>0, <1>1, <1>3, <1>4, <1>5, <1>7 DEF TunnelIInv, UpInv, KeptInv, FaultsNeedAClose
<1>9. what = "complete" =>
         conn[x].out = 0 /\ \A i \in DOMAIN pending' : pending'[i] # <<"complete", x>>
  <2>1. \A i \in DOMAIN pending' : pending'[i] = <<"complete", x>> => what # "complete"
    BY <1>2, StillQueued, Zenon
  <2>2. what = "complete" => conn[x].out = 0
    BY <1>2, Popped, Zenon DEF PauseInv
  <2> QED
    BY <2>1, <2>2, Zenon
<1>10. PauseInv(x, y)'
  <2>1. CASE what = "complete"
    BY <1>3, <1>5, <1>9, <2>1, Zenon DEF PauseInv
  <2>2. CASE what = "mark"
    <3>1. /\ conn'[x].out = conn[x].out /\ ~conn'[y].reading
      BY <1>3, <1>4, <1>5, <2>2, Zenon
    <3>2. \A i \in DOMAIN pending' : pending'[i] = <<"complete", x>> =>
             /\ conn[x].out = 0 /\ ~conn[y].reading
             /\ \A j \in DOMAIN pending' : pending'[j] = <<"complete", x>> => i = j
      BY <1>2, StillQueued, Zenon
    <3> QED
      BY <3>1, <3>2, Zenon DEF PauseInv
  <2> QED
    BY <2>1, <2>2, Zenon
<1>11. PauseInv(y, x)'
  <2>1. /\ conn'[y].out = conn[y].out /\ conn'[x].reading = conn[x].reading
        /\ conn'[y].onComplete = conn[y].onComplete
    BY <1>3, <1>4, <1>5, Zenon
  <2>2. \A i \in DOMAIN pending' : pending'[i] = <<"complete", y>> =>
             /\ conn[y].out = 0 /\ ~conn[x].reading
             /\ \A j \in DOMAIN pending' : pending'[j] = <<"complete", y>> => i = j
    BY <1>2, StillQueued, Zenon
  <2> QED
    BY <1>2, <2>1, <2>2, Zenon DEF PauseInv
<1>12. MarkInv(x, y)'
  <2>1. CASE what = "complete"
    BY <1>2, <1>3, <1>5, <1>9, <2>1, TunnelAssumption DEF MarkInv
  <2>2. CASE what = "mark"
    BY <1>2, <1>3, <1>4, <1>5, <2>2, Zenon DEF MarkInv
  <2> QED
    BY <2>1, <2>2, Zenon
<1>13. MarkInv(y, x)'
  <2>1. \A i \in DOMAIN pending : pending[i] = <<"mark", y>> =>
           \E j \in DOMAIN pending' : pending'[j] = <<"mark", y>>
    BY <1>0, Popped
  <2> QED
    BY <1>1, <1>2, <1>3, <1>4, <1>5, <2>1, ZenonT(40) DEF MarkInv
<1> QED
  BY <1>0, <1>6, <1>8, <1>10, <1>11, <1>12, <1>13, BySides, Zenon

(* onHighWaterMark() and onWriteComplete() pause the other side, resume it  *)
(* when the buffer is empty, or meet a connection that is gone.             *)
LEMMA FunctorStep == ASSUME TunnelIInv, RunFunctor PROVE TunnelIInv'
<1>1. PICK what \in {"mark", "complete", "destroyed"}, x \in Sides :
        Head(pending) = <<what, x>>
  BY Popped DEF TunnelFunctors
<1>2. /\ what = "destroyed" \/ ~Alive => UNCHANGED <<conn, fault>>
      /\ what = "mark" /\ Alive => onHighWaterMark(x)
      /\ what = "complete" /\ Alive => onWriteComplete(x)
      /\ fault = "none" /\ conn["client"].state # "kConnecting"
      /\ UNCHANGED clientConn_
  BY <1>1 DEF RunFunctor, TunnelIInv, UpInv
<1>3. /\ \A z \in Sides : TunnelConn(conn[z])
      /\ ~clientConn_ => conn["client"].state = "kDisconnected"
  BY <1>2, Zenon DEF TunnelIInv, TunnelTypeOK, TunnelConn, UpInv, Sides
<1>4. CASE what = "destroyed" \/ ~Alive
  <2>1. UNCHANGED <<conn, fault>>
    BY <1>2, <1>4, Zenon
  <2>2. what = "mark" => conn[x].state # "kConnected"
    BY <1>4, Zenon DEF Alive, TunnelIInv, UpInv, Sides
  <2> QED
    BY <1>1, <2>1, <2>2, FunctorStops, Zenon DEF TunnelIInv, FaultsNeedAClose
<1>5. ASSUME UNCHANGED conn, fault' = "nullClientConn", ~clientConn_
      PROVE  TunnelIInv'
  <2>1. FaultsNeedAClose'
    BY <1>3, <1>5, Zenon DEF FaultsNeedAClose
  <2> QED
    BY <1>1, <1>5, <2>1, FunctorStops, Zenon
<1>6. CASE what = "mark" /\ Alive
  <2>1. CASE UNCHANGED <<conn, fault>> /\ conn[x].out = 0
    BY <1>1, <2>1, FunctorStops, Zenon DEF TunnelIInv, FaultsNeedAClose
  <2>2. ASSUME UNCHANGED fault,
               conn' = [conn EXCEPT ![Other(x)].reading = FALSE, ![x].onComplete = TRUE]
        PROVE  TunnelIInv'
    <3>1. PICK reads, waits : reads = FALSE /\ waits = TRUE
      BY Zenon
    <3>2. conn' = [conn EXCEPT ![Other(x)].reading = reads, ![x].onComplete = waits]
      BY <2>2, <3>1, Zenon
    <3>3. what = "mark" /\ ~reads /\ waits
      BY <1>6, <3>1, Zenon
    <3> QED
      BY <1>1, <2>2, <3>2, <3>3, FunctorTurns, Zenon
  <2> QED
    BY <1>2, <1>5, <1>6, <2>1, <2>2, Zenon DEF onHighWaterMark
<1>7. CASE what = "complete" /\ Alive
  <2>1. ASSUME UNCHANGED conn, fault' = "startReadAfterClose", clientConn_, ~Up(Other(x))
        PROVE  TunnelIInv'
    <3>1. conn["server"].state = "kDisconnected"
      <4>1. \/ Other(x) = "server"
            \/ Other(x) = "client"
        BY Zenon DEF Other
      <4>2. conn["client"].state \in {"kConnected", "kDisconnecting"}
        BY <2>1, Zenon DEF TunnelIInv, UpInv
      <4>3. TunnelConn(conn["server"]) /\ conn["server"].state # "kConnecting"
        BY <1>3, Zenon DEF TunnelIInv, UpInv, Sides
      <4> QED
        BY <2>1, <4>1, <4>2, <4>3, Zenon DEF Up, TunnelConn
    <3>2. FaultsNeedAClose'
      BY <2>1, <3>1, Zenon DEF FaultsNeedAClose
    <3> QED
      BY <1>1, <1>7, <2>1, <3>2, FunctorStops, Zenon
  <2>2. ASSUME UNCHANGED fault,
               conn' = [conn EXCEPT ![Other(x)].reading = TRUE, ![x].onComplete = FALSE]
        PROVE  TunnelIInv'
    <3>1. PICK reads, waits : reads = TRUE /\ waits = FALSE
      BY Zenon
    <3>2. conn' = [conn EXCEPT ![Other(x)].reading = reads, ![x].onComplete = waits]
      BY <2>2, <3>1, Zenon
    <3>3. what = "complete" /\ ~waits
      BY <1>7, <3>1, Zenon
    <3> QED
      BY <1>1, <2>2, <3>2, <3>3, FunctorTurns, Zenon
  <2> QED
    BY <1>2, <1>5, <1>7, <2>1, <2>2, Zenon DEF onWriteComplete
<1> QED
  BY <1>4, <1>6, <1>7, Zenon

(* An iteration ends once no callback is queued.                            *)
LEMMA IterationStep ==
    ASSUME TunnelIInv, EndIteration \/ UNCHANGED socksVars PROVE TunnelIInv'
<1>1. /\ UNCHANGED <<conn, context, clientConn_, tunnels, pending, fed, fault>>
      /\ pending = <<>> \/ UNCHANGED handled
  BY Zenon DEF EndIteration, socksVars
<1>2. TunnelTypeOK' /\ UpInv' /\ KeptInv' /\ FaultsNeedAClose'
  BY <1>1, Zenon DEF TunnelIInv, TunnelTypeOK, UpInv, KeptInv, FaultsNeedAClose
<1>3. PauseInv("server", "client")' /\ PauseInv("client", "server")'
  BY <1>1, Zenon DEF TunnelIInv, PauseInv
<1>4. MarkInv("server", "client")' /\ MarkInv("client", "server")'
  BY <1>1 DEF TunnelIInv, MarkInv
<1> QED
  BY <1>2, <1>3, <1>4, Zenon DEF TunnelIInv

(* What a Tunnel of tunnel.h holds for either side stays below its mark     *)
(* plus one read, whatever the peers send and accept.                       *)
THEOREM Bounded == TunnelSpec => []OutputBounded
<1>1. TunnelInit => TunnelIInv
  <2> SUFFICES ASSUME TunnelInit PROVE TunnelIInv
    BY Zenon
  <2>1. /\ conn = [x \in Sides |-> conn[x]] /\ fault = "none" /\ pending = <<>>
        /\ \A x \in Sides :
              /\ conn[x].state = (IF x = "server" THEN "kConnected" ELSE "kConnecting")
              /\ ~conn[x].reading /\ conn[x].in = 0 /\ conn[x].out = 0 /\ ~conn[x].onComplete
    BY Zenon DEF TunnelInit
  <2>2. \A x \in Sides : TunnelConn(conn[x])
    <3>1. PICK no : no = FALSE
      BY Zenon
    <3>2. conn = [x \in Sides |->
                     [state |-> IF x = "server" THEN "kConnected" ELSE "kConnecting",
                      reading |-> no, in |-> 0, out |-> 0, onComplete |-> no]]
      BY <3>1, Zenon DEF TunnelInit
    <3> QED
      BY <3>2, Zenon DEF TunnelConn
  <2>3. TunnelTypeOK
    BY <2>1, <2>2, TunnelAssumption DEF TunnelInit, TunnelTypeOK
  <2>4. "server" \in Sides /\ "client" \in Sides
    BY Zenon DEF Sides
  <2>5. UpInv /\ KeptInv /\ FaultsNeedAClose
    BY <2>1, <2>4 DEF TunnelInit, UpInv, KeptInv, FaultsNeedAClose
  <2>6. PauseInv("server", "client") /\ PauseInv("client", "server")
    BY <2>1, <2>4 DEF PauseInv
  <2>7. MarkInv("server", "client") /\ MarkInv("client", "server")
    BY <2>1, <2>4, TunnelAssumption DEF MarkInv
  <2> QED
    BY <2>3, <2>5, <2>6, <2>7, Zenon DEF TunnelIInv
<1>2. TunnelIInv /\ [TunnelNext]_socksVars => TunnelIInv'
  BY ReadableStep, WritableStep, DownStep, ClientUpStep, FunctorStep, IterationStep, Zenon
  DEF TunnelNext, Loop
<1>3. TunnelIInv => OutputBounded
  BY Zenon DEF TunnelIInv, MarkInv, OutputBounded, OutputBounded, Sides
<1> QED
  BY <1>1, <1>2, <1>3, PTL DEF TunnelSpec
=============================================================================
