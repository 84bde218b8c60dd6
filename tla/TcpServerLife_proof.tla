------------------------ MODULE TcpServerLife_proof -------------------------
(***************************************************************************)
(* The life of a connection: its callbacks come once and in order and the  *)
(* assertions of TcpConnection.cc and TcpServer.cc hold, for any number of *)
(* connections, loops and messages.                                        *)
(***************************************************************************)
EXTENDS TcpServer_proof

(* The life of a connection.                                                *)
OpenCalls == {"send", "shutdown", "forceClose", "forceCloseWithDelay"}

Queues(c, e, r, d) ==
    /\ \E l \in Loops :
          /\ l = loopOf[c]
          /\ Holds(Q(l), "connectEstablished", c, e) /\ Holds(Q(l), "connectDestroyed", c, d)
    /\ Holds(Q(Base), "removeConnectionInLoop", c, r)

Opening(c) ==
    /\ c \in connections_ /\ Queues(c, TRUE, FALSE, FALSE)
    /\ conn[c].state_ = kConnecting /\ conn[c].callback = "none"
    /\ conn[c].events_ = {} /\ ~conn[c].polled

Open(c) ==
    /\ c \in connections_ /\ Queues(c, FALSE, FALSE, FALSE)
    /\ conn[c].state_ \in {kConnected, kDisconnecting} /\ conn[c].callback = "up"
    /\ "in" \in conn[c].events_ /\ conn[c].polled

Over(c) ==
    /\ conn[c].state_ = kDisconnected /\ conn[c].callback = "down"
    /\ conn[c].events_ = {} /\ ~conn[c].polled
    /\ \/ c \in connections_ /\ loopOf[c] # Base /\ Queues(c, FALSE, TRUE, FALSE)
       \/ c \notin connections_ /\ Queues(c, FALSE, FALSE, TRUE)
       \/ c \notin connections_ /\ Queues(c, FALSE, FALSE, FALSE) /\ ~conn[c].added

Life(c) == Opening(c) \/ Open(c) \/ Over(c)

LifeInv ==
    /\ failed \in {"none", "destroyed"} /\ server
    /\ \A l \in Loops : ~quit[l]
    /\ \A c \in Made : Life(c)
    /\ \A l \in Loops : \A i \in DOMAIN Q(l) : Q(l)[i].f \in RawFunctors => Q(l)[i].f = "sendInLoop"

(* Functor g is queued in loop x.                                           *)
Adds(x, g) == Push(x, g) /\ x \in Loops /\ g \in Functors

(* A step that runs no functor f of connection c on loop y and queues none. *)
Quiet(y, f, c) ==
    \/ \A l \in Loops : Q(l)' = Q(l)
    \/ /\ UNCHANGED pending \/ \E x, g : Adds(x, g) /\ ~(x = y /\ g.f = f /\ g.c = c)
       /\ UNCHANGED batch \/ \E l \in Loops : \E fn : Runs(l, fn) /\ ~(l = y /\ fn.f = f /\ fn.c = c)

LEMMA QuietKeeps ==
    ASSUME QueuesOK, NEW y \in Loops, NEW f, NEW c, NEW n \in BOOLEAN, Holds(Q(y), f, c, n),
           Quiet(y, f, c)
    PROVE  Holds(Q(y)', f, c, n)
<1>1. PICK q \in Seq(Functors) : q = Q(y)
  BY QueueOf, Zenon
<1>2. PICK r : r = Q(y)'
  BY Zenon
<1>3. Holds(q, f, c, n)
  BY <1>1, Zenon
<1>4. CASE r = q
  BY <1>2, <1>3, <1>4, Zenon
<1>5. ASSUME NEW x \in Loops, NEW g \in Functors, Push(x, g), ~(x = y /\ g.f = f /\ g.c = c),
             UNCHANGED batch
      PROVE  Holds(r, f, c, n)
  <2>1. r = IF x = y THEN Append(q, g) ELSE q
    BY <1>1, <1>2, <1>5, PushQ, Zenon
  <2> QED
    BY <1>3, <1>5, <2>1, HoldsAppend, Zenon
<1>6. ASSUME NEW l \in Loops, NEW fn, Runs(l, fn), ~(l = y /\ fn.f = f /\ fn.c = c), UNCHANGED pending
      PROVE  Holds(r, f, c, n)
  <2>1. (l = y => q # <<>> /\ fn = Head(q)) /\ r = IF l = y THEN Tail(q) ELSE q
    BY <1>1, <1>2, <1>6, RunQ, Zenon
  <2> QED
    BY <1>3, <1>6, <2>1, HoldsTail, Zenon
<1>7. ASSUME NEW l \in Loops, NEW fn, Runs(l, fn), ~(l = y /\ fn.f = f /\ fn.c = c),
             NEW x \in Loops, NEW g \in Functors, Push(x, g), ~(x = y /\ g.f = f /\ g.c = c)
      PROVE  Holds(r, f, c, n)
  <2>1. /\ l = y => q # <<>> /\ fn = Head(q)
        /\ l = y /\ x = y => r = Append(Tail(q), g)
        /\ l = y /\ x # y => r = Tail(q)
        /\ l # y /\ x = y => r = Append(q, g)
        /\ l # y /\ x # y => r = q
    <3>1. /\ Q(l) # <<>> /\ fn = Head(Q(l))
          /\ x = l => Q(l)' = Append(Tail(Q(l)), g)
          /\ x # l => Q(l)' = Tail(Q(l)) /\ Q(x)' = Append(Q(x), g)
          /\ \A z \in Loops : z # l /\ z # x => Q(z)' = Q(z)
      BY <1>7, RunPushQ
    <3>2. CASE l = y
      BY <1>1, <1>2, <3>1, <3>2, Zenon
    <3>3. CASE l # y /\ x = y
      BY <1>1, <1>2, <3>1, <3>3, Zenon
    <3>4. CASE l # y /\ x # y
      BY <1>1, <1>2, <3>1, <3>4, Zenon
    <3> QED
      BY <3>2, <3>3, <3>4, Zenon
  <2>2. CASE l = y
    <3>1. PICK s \in Seq(Functors) : s = Tail(q)
      BY <2>1, <2>2, HeadTailProperties, Zenon
    <3>2. Holds(s, f, c, n)
      BY <1>3, <1>7, <2>1, <2>2, <3>1, HoldsTail, Zenon
    <3>3. r = IF x = y THEN Append(s, g) ELSE s
      BY <2>1, <2>2, <3>1, Zenon
    <3> QED
      BY <1>7, <3>2, <3>3, HoldsAppend, Zenon
  <2>3. CASE l # y
    <3>1. r = IF x = y THEN Append(q, g) ELSE q
      BY <2>1, <2>3, Zenon
    <3> QED
      BY <1>3, <1>7, <3>1, HoldsAppend, Zenon
  <2> QED
    BY <2>2, <2>3, Zenon
<1>8. CASE \A l \in Loops : Q(l)' = Q(l)
  BY <1>1, <1>2, <1>4, <1>8, Zenon
<1>9. CASE UNCHANGED pending /\ UNCHANGED batch
  <2>1. r = q
    BY <1>1, <1>2, <1>9, SameQ, Zenon
  <2> QED
    BY <1>2, <1>4, <2>1, Zenon
<1> QED
  BY <1>2, <1>5, <1>6, <1>7, <1>8, <1>9, Zenon DEF Quiet, Adds

LEMMA RunTakes ==
    ASSUME QueuesOK, NEW l \in Loops, NEW fn, Runs(l, fn), NEW n \in BOOLEAN,
           Holds(Q(l), fn.f, fn.c, n),
           UNCHANGED pending \/ \E x, g : Adds(x, g) /\ ~(x = l /\ g.f = fn.f /\ g.c = fn.c)
    PROVE  Holds(Q(l)', fn.f, fn.c, FALSE)
<1>1. PICK q \in Seq(Functors) : q = Q(l)
  BY QueueOf, Zenon
<1>2. PICK r : r = Q(l)'
  BY Zenon
<1>3. PICK f, c : f = fn.f /\ c = fn.c
  BY Zenon
<1>4. q # <<>> /\ fn = Head(q)
  <2>1. PICK b \in Seq(Functors), p \in Seq(Functors) : b = batch[l] /\ p = pending[l]
    BY QueueOf, Zenon
  <2>2. b # <<>> /\ fn = Head(b) /\ q = b \o p
    BY <1>1, <2>1, Zenon DEF Runs, Q
  <2> QED
    BY <2>2, TailQ, Zenon
<1>5. PICK s \in Seq(Functors) : s = Tail(q)
  BY <1>4, HeadTailProperties, Zenon
<1>6. Holds(s, f, c, FALSE)
  BY <1>1, <1>3, <1>4, <1>5, HoldsTail, Zenon
<1>7. CASE UNCHANGED pending
  <2>1. r = s
    BY <1>1, <1>2, <1>5, <1>7, RunQ, Zenon
  <2> QED
    BY <1>2, <1>3, <1>6, <2>1, Zenon
<1>8. ASSUME NEW x \in Loops, NEW g \in Functors, Push(x, g), ~(x = l /\ g.f = f /\ g.c = c)
      PROVE  Holds(r, f, c, FALSE)
  <2>1. r = IF x = l THEN Append(s, g) ELSE s
    BY <1>1, <1>2, <1>5, <1>8, RunPushQ, Zenon
  <2> QED
    BY <1>6, <1>8, <2>1, HoldsAppend, Zenon
<1> QED
  BY <1>2, <1>3, <1>7, <1>8, Zenon DEF Adds

LEMMA PushGives ==
    ASSUME QueuesOK, NEW x \in Loops, NEW g \in Functors, Push(x, g), Holds(Q(x), g.f, g.c, FALSE),
           UNCHANGED batch \/ \E l \in Loops : \E fn : Runs(l, fn)
    PROVE  Holds(Q(x)', g.f, g.c, TRUE)
<1>1. PICK q \in Seq(Functors) : q = Q(x)
  BY QueueOf, Zenon
<1>2. PICK r : r = Q(x)'
  BY Zenon
<1>3. PICK f, c : f = g.f /\ c = g.c
  BY Zenon
<1>4. Holds(q, f, c, FALSE)
  BY <1>1, <1>3, Zenon
<1>5. CASE UNCHANGED batch
  <2>1. r = Append(q, g)
    BY <1>1, <1>2, <1>5, PushQ, Zenon
  <2>2. Holds(r, f, c, TRUE)
    BY <1>3, <1>4, <2>1, HoldsAppend, Zenon
  <2> QED
    BY <1>2, <1>3, <2>2, ZenonT(40)
<1>6. ASSUME NEW l \in Loops, NEW fn, Runs(l, fn)
      PROVE  Holds(r, f, c, TRUE)
  <2>1. (q # <<>> /\ r = Append(Tail(q), g)) \/ r = Append(q, g)
    BY <1>1, <1>2, <1>6, RunPushQ, ZenonT(40)
  <2>2. CASE r = Append(q, g)
    BY <1>3, <1>4, <2>2, HoldsAppend, Zenon
  <2>3. CASE q # <<>> /\ r = Append(Tail(q), g)
    <3>1. PICK s \in Seq(Functors) : s = Tail(q)
      BY <2>3, HeadTailProperties, Zenon
    <3>2. Holds(s, f, c, FALSE)
      BY <1>4, <2>3, <3>1, HoldsTail, Zenon
    <3> QED
      BY <1>3, <2>3, <3>1, <3>2, HoldsAppend, Zenon
  <2> QED
    BY <2>1, <2>2, <2>3, Zenon
<1> QED
  BY <1>2, <1>3, <1>5, <1>6, Zenon

-----------------------------------------------------------------------------
(* The functors that take a connection through its life.                    *)
Control == {"connectEstablished", "removeConnectionInLoop", "connectDestroyed"}

LEMMA KeptQueues ==
    ASSUME TypeInv, NEW c \in Made, loopOf'[c] = loopOf[c],
           NEW e \in BOOLEAN, NEW r \in BOOLEAN, NEW d \in BOOLEAN, Queues(c, e, r, d),
           \A y \in Loops : \A f \in Control : Quiet(y, f, c)
    PROVE  Queues(c, e, r, d)'
<1>1. PICK l \in Loops :
         /\ l = loopOf[c]
         /\ Holds(Q(l), "connectEstablished", c, e) /\ Holds(Q(l), "connectDestroyed", c, d)
  BY Zenon DEF Queues
<1>2. PICK b \in Loops : b = Base
  BY Zenon DEF Loops
<1>3. Quiet(l, "connectEstablished", c) /\ Quiet(l, "connectDestroyed", c)
      /\ Quiet(b, "removeConnectionInLoop", c)
  BY Zenon DEF Control
<1>4. Holds(Q(l)', "connectEstablished", c, e)
  BY <1>1, <1>3, QuietKeeps, Zenon DEF TypeInv
<1>5. Holds(Q(l)', "connectDestroyed", c, d)
  BY <1>1, <1>3, QuietKeeps, Zenon DEF TypeInv
<1>6. Holds(Q(b), "removeConnectionInLoop", c, r)
  BY <1>2, Zenon DEF Queues
<1>7. Holds(Q(b)', "removeConnectionInLoop", c, r)
  BY <1>3, <1>6, QuietKeeps, Zenon DEF TypeInv
<1>8. Holds(Q(Base)', "removeConnectionInLoop", c, r)
  BY <1>2, <1>7, Zenon
<1> QED
  BY <1>1, <1>4, <1>5, <1>8, Zenon DEF Queues

(* A step that leaves a connection where it is in its life.                 *)
CalmConn(k, m) ==
    /\ m.state_ = k.state_ \/ {m.state_, k.state_} \subseteq {kConnected, kDisconnecting}
    /\ m.callback = k.callback
    /\ k.events_ = {} /\ ~k.polled => m.events_ = {} /\ ~m.polled /\ (~k.added => ~m.added)
    /\ "in" \in k.events_ /\ k.polled => "in" \in m.events_ /\ m.polled

Calm(c) ==
    /\ loopOf'[c] = loopOf[c] /\ (c \in connections_' <=> c \in connections_)
    /\ \A y \in Loops : \A f \in Control : Quiet(y, f, c)
    /\ CalmConn(conn[c], conn'[c])

LEMMA CalmLife ==
    ASSUME TypeInv, NEW c \in Made, Life(c), Calm(c)
    PROVE  Life(c)'
<1>1. PICK k, m : k = conn[c] /\ m = conn'[c]
  BY Zenon
<1>2. loopOf'[c] = loopOf[c] /\ (c \in connections_' <=> c \in connections_) /\ CalmConn(k, m)
  BY <1>1, Zenon DEF Calm
<1>3. ASSUME NEW e \in BOOLEAN, NEW r \in BOOLEAN, NEW d \in BOOLEAN
      PROVE  Queues(c, e, r, d) => Queues(c, e, r, d)'
  BY <1>2, KeptQueues, Zenon DEF Calm
<1>4. TRUE \in BOOLEAN /\ FALSE \in BOOLEAN
  BY Zenon
<1>5. CASE Opening(c)
  <2>1. Queues(c, TRUE, FALSE, FALSE)'
    BY <1>3, <1>4, <1>5, Zenon DEF Opening
  <2>2. Opening(c)'
    BY <1>1, <1>2, <1>5, <2>1, Zenon DEF Opening, CalmConn, kConnecting, kConnected,
       kDisconnecting
  <2> QED
    BY <2>2, Zenon DEF Life
<1>6. CASE Open(c)
  <2>1. Queues(c, FALSE, FALSE, FALSE)'
    BY <1>3, <1>4, <1>6, Zenon DEF Open
  <2>2. Open(c)'
    BY <1>1, <1>2, <1>6, <2>1, Zenon DEF Open, CalmConn
  <2> QED
    BY <2>2, Zenon DEF Life
<1>7. CASE Over(c)
  <2>1. m.state_ = kDisconnected /\ m.callback = "down" /\ m.events_ = {} /\ ~m.polled
    BY <1>1, <1>2, <1>7, Zenon DEF Over, CalmConn, kDisconnected, kConnected, kDisconnecting
  <2>2. ~k.added => ~m.added
    BY <1>1, <1>2, <1>7, Zenon DEF Over, CalmConn
  <2>3. CASE c \in connections_ /\ loopOf[c] # Base /\ Queues(c, FALSE, TRUE, FALSE)
    <3>1. Queues(c, FALSE, TRUE, FALSE)'
      BY <1>3, <1>4, <2>3, Zenon
    <3> QED
      BY <1>1, <1>2, <2>1, <2>3, <3>1, Zenon DEF Over, Life
  <2>4. CASE c \notin connections_ /\ Queues(c, FALSE, FALSE, TRUE)
    <3>1. Queues(c, FALSE, FALSE, TRUE)'
      BY <1>3, <1>4, <2>4, Zenon
    <3> QED
      BY <1>1, <1>2, <2>1, <2>4, <3>1, Zenon DEF Over, Life
  <2>5. CASE c \notin connections_ /\ Queues(c, FALSE, FALSE, FALSE) /\ ~conn[c].added
    <3>1. Queues(c, FALSE, FALSE, FALSE)'
      BY <1>3, <1>4, <2>5, ZenonT(40)
    <3> QED
      BY <1>1, <1>2, <2>1, <2>2, <2>5, <3>1, Zenon DEF Over, Life
  <2> QED
    BY <1>7, <2>3, <2>4, <2>5, ZenonT(40) DEF Over
<1> QED
  BY <1>5, <1>6, <1>7, Zenon DEF Life

(* Steps that run and queue no control functor.                             *)
NoControl ==
    \/ \A l \in Loops : Q(l)' = Q(l)
    \/ /\ UNCHANGED pending \/ \E x, g : Adds(x, g) /\ g.f \notin Control
       /\ UNCHANGED batch \/ \E l \in Loops : \E fn : Runs(l, fn) /\ fn.f \notin Control

ConnSmall == Made' \subseteq Made /\ \A c \in Made : CalmConn(conn[c], conn'[c])

Small ==
    /\ NoControl /\ ConnSmall
    /\ UNCHANGED <<loopOf, connections_, server, quit>> /\ failed' \in {failed, "destroyed"}

LifeNow ==
    /\ failed \in {"none", "destroyed"} /\ server
    /\ \A l \in Loops : ~quit[l]
    /\ \A c \in Made : Life(c)

LEMMA SmallLife ==
    ASSUME TypeInv, LifeNow, Small
    PROVE  LifeNow'
<1>1. ASSUME NEW c \in Made'
      PROVE  Life(c)'
  <2>1. c \in Made /\ Life(c)
    BY <1>1, Zenon DEF Small, ConnSmall, LifeNow
  <2>2. \A y \in Loops : \A f \in Control : Quiet(y, f, c)
    BY Zenon DEF Small, NoControl, Quiet
  <2>3. Calm(c)
    BY <2>1, <2>2, Zenon DEF Calm, Small, ConnSmall
  <2> QED
    BY <2>1, <2>3, CalmLife, Zenon
<1>2. failed' \in {"none", "destroyed"} /\ server' /\ \A l \in Loops : ~quit'[l]
  BY Zenon DEF Small, LifeNow
<1> QED
  BY <1>1, <1>2, Zenon DEF LifeNow

LEMMA AddsFunctor ==
    ASSUME TypeInv, NEW c \in Conns, NEW x \in Loops, NEW f \in FunctorNames, NEW d \in Data,
           Push(x, Functor(f, c, d))
    PROVE  \E g : Adds(x, g) /\ g.f = f /\ g.c = c
<1>1. PICK g : g = Functor(f, c, d)
  BY Zenon
<1>2. g \in Functors /\ g.f = f /\ g.c = c
  BY <1>1, FunctorIn
<1>3. Push(x, g)
  BY <1>1, Zenon
<1> QED
  BY <1>2, <1>3, Zenon DEF Adds

LEMMA AddsCallback ==
    ASSUME TypeInv, NEW c \in Made, NEW k, QueueCallbacks(c, k)
    PROVE  UNCHANGED pending \/ \E x, g : Adds(x, g) /\ g.f \notin Control
<1>1. c \in Conns /\ loopOf[c] \in Loops /\ <<>> \in Data
  BY InData, Zenon DEF Made, TypeInv, PoolOK
<1>2. {"writeComplete", "highWaterMark"} \subseteq FunctorNames \ Control
  BY Zenon DEF FunctorNames, Control
<1>3. CASE Push(loopOf[c], Functor("writeComplete", c, <<>>))
  BY <1>1, <1>2, <1>3, AddsFunctor
<1>4. CASE Push(loopOf[c], Functor("highWaterMark", c, <<>>))
  BY <1>1, <1>2, <1>4, AddsFunctor
<1> QED
  BY <1>3, <1>4, Zenon DEF QueueCallbacks

LEMMA CalmSet ==
    ASSUME ConnsOK, NEW c \in Made, NEW m, conn' = [conn EXCEPT ![c] = m], CalmConn(conn[c], m)
    PROVE  ConnSmall
<1>1. /\ c \in Conns /\ conn'[c] = m
      /\ \A d \in Conns : d # c => conn'[d] = conn[d]
  BY Zenon DEF ConnsOK, Made
<1>2. \A k : CalmConn(k, k)
  BY Zenon DEF CalmConn
<1> QED
  BY <1>1, <1>2, Zenon DEF ConnSmall, Made

LEMMA SameSmall ==
    ASSUME UNCHANGED conn
    PROVE  ConnSmall
BY Zenon DEF ConnSmall, CalmConn, Made

LEMMA DisconnectingSmall ==
    ASSUME ConnsOK, NEW c \in Made, SetDisconnecting(c), Closable(c)
    PROVE  ConnSmall
<1>1. PICK k \in Connection(Data) : k = conn[c]
  BY Zenon DEF ConnsOK, Made
<1>2. PICK m : m = [k EXCEPT !.state_ = kDisconnecting]
  BY Zenon
<1>3. kDisconnecting \in States
  BY Zenon DEF States
<1>4. /\ m.state_ = kDisconnecting /\ m.events_ = k.events_ /\ m.polled = k.polled
      /\ m.added = k.added /\ m.callback = k.callback
  BY <1>2, <1>3, StateOf
<1>5. CalmConn(k, m)
  BY <1>1, <1>4, Zenon DEF CalmConn, Closable
<1>6. conn' = [conn EXCEPT ![c] = m]
  BY <1>1, <1>2, Zenon DEF SetDisconnecting
<1> QED
  BY <1>1, <1>5, <1>6, CalmSet, Zenon

LEMMA PeerSmall ==
    ASSUME ConnsOK, NEW c \in Made, NEW m, conn' = [conn EXCEPT ![c] = m],
           \/ \E i \in BOOLEAN : m = [conn[c] EXCEPT !.input = i]
           \/ \E p \in Peer : m = [conn[c] EXCEPT !.peer = p]
    PROVE  ConnSmall
<1>1. PICK k \in Connection(Data) : k = conn[c]
  BY Zenon DEF ConnsOK, Made
<1>2. /\ m.state_ = k.state_ /\ m.events_ = k.events_ /\ m.polled = k.polled
      /\ m.added = k.added /\ m.callback = k.callback
  BY <1>1, PeerOf
<1>3. CalmConn(k, m)
  BY <1>2, Zenon DEF CalmConn
<1> QED
  BY <1>1, <1>3, CalmSet, Zenon

(* A connection in the poller is open, and so is one whose state is.        *)
LEMMA IsOpen ==
    ASSUME LifeNow, NEW c \in Made, conn[c].polled \/ Closable(c)
    PROVE  Open(c) /\ conn[c].polled
BY Zenon DEF LifeNow, Life, Opening, Open, Over, Closable, kConnecting, kConnected,
   kDisconnecting, kDisconnected

LEMMA SendSmall ==
    ASSUME TypeInv, LifeNow, ReadingInv, NEW c \in Made, NEW d \in Data, Touched(c),
           NEW m \in SendInLoop(conn[c], d), conn' = [conn EXCEPT ![c] = m]
    PROVE  ConnSmall
<1>1. PICK k \in Connection(Data) : k = conn[c]
  BY Zenon DEF TypeInv, ConnsOK, Made
<1>2. /\ m.state_ = k.state_ /\ m.callback = k.callback
      /\ "in" \in m.events_ <=> "in" \in k.events_
      /\ k.polled => m.polled
      /\ k.state_ = kDisconnected => m = k
  BY <1>1, SendOf DEF Data
<1>3. k.polled \/ k.state_ = kDisconnected
  <2>1. k.callback # "none"
    BY <1>1, Zenon DEF ReadingInv
  <2> QED
    BY <1>1, <2>1, ZenonT(40) DEF LifeNow, Life, Opening, Open, Over
<1>4. CalmConn(k, m)
  BY <1>2, <1>3, Zenon DEF CalmConn
<1> QED
  BY <1>1, <1>4, CalmSet, Zenon DEF TypeInv

-----------------------------------------------------------------------------
(* The small steps.                                                         *)
LEMMA EventSmall ==
    ASSUME TypeInv, LifeNow, NEW c \in Conns,
           ReadEvent(c) \/ WriteEvent(c) \/ DelayPasses(c) \/ PeerSends(c) \/ PeerCloses(c)
    PROVE  Small
<1> USE DEF TypeInv
<1>0. UNCHANGED <<loopOf, connections_, server, quit, failed, batch>>
  BY Zenon DEF ReadEvent, WriteEvent, DelayPasses, PeerSends, PeerCloses, loopVars
<1>1. CASE ReadEvent(c)
  <2>1. PICK no \in BOOLEAN : no = FALSE
    BY Zenon
  <2>2. PICK m : m = [conn[c] EXCEPT !.input = no]
    BY Zenon
  <2>3. conn' = [conn EXCEPT ![c] = m] /\ c \in Made /\ UNCHANGED pending
    BY <1>1, <2>1, <2>2, Zenon DEF ReadEvent, Active
  <2>4. ConnSmall
    BY <2>2, <2>3, PeerSmall, Zenon
  <2> QED
    BY <1>0, <2>3, <2>4, Zenon DEF Small, NoControl
<1>2. CASE WriteEvent(c)
  <2>1. c \in Made /\ conn[c].polled
    BY <1>2, Zenon DEF WriteEvent, Active, Writable
  <2>2. PICK k \in Connection(Data) : k = conn[c]
    BY <2>1, Zenon DEF ConnsOK, Made
  <2>3. PICK m \in HandleWrite(k) : conn' = [conn EXCEPT ![c] = m] /\ QueueCallbacks(c, m)
    BY <1>2, <2>2, Zenon DEF WriteEvent
  <2>4. /\ m.state_ = k.state_ /\ m.callback = k.callback
        /\ "in" \in m.events_ <=> "in" \in k.events_
        /\ k.polled /\ "in" \in k.events_ => m.polled
    BY <2>2, <2>3, WriteOf DEF Data
  <2>5. CalmConn(k, m)
    BY <2>1, <2>2, <2>4, Zenon DEF CalmConn
  <2>6. ConnSmall
    BY <2>1, <2>2, <2>3, <2>5, CalmSet, Zenon
  <2>7. UNCHANGED pending \/ \E x, g : Adds(x, g) /\ g.f \notin Control
    BY <2>1, <2>3, AddsCallback, Zenon
  <2> QED
    BY <1>0, <2>6, <2>7, Zenon DEF Small, NoControl
<1>3. CASE DelayPasses(c)
  <2>1. c \in Made
    BY <1>3, Zenon DEF DelayPasses, UsersOK
  <2>2. CASE Referenced(c) /\ Closable(c)
    <3>1. SetDisconnecting(c) /\ Push(loopOf[c], Functor("forceCloseInLoop", c, <<>>))
      BY <1>3, <2>2, Zenon DEF DelayPasses, ForceClose
    <3>2. \E x, g : Adds(x, g) /\ g.f \notin Control
      BY <2>1, <3>1, AddsFunctor, InData DEF FunctorNames, Control, PoolOK, Made
    <3>3. ConnSmall
      BY <2>1, <2>2, <3>1, DisconnectingSmall, Zenon
    <3> QED
      BY <1>0, <3>2, <3>3, Zenon DEF Small, NoControl
  <2>3. CASE ~(Referenced(c) /\ Closable(c))
    BY <1>0, <1>3, <2>3, SameSmall, Zenon DEF DelayPasses, Small, NoControl
  <2> QED
    BY <2>2, <2>3, Zenon
<1>4. CASE PeerSends(c)
  <2>1. PICK yes \in BOOLEAN : yes = TRUE
    BY Zenon
  <2>2. PICK m : m = [conn[c] EXCEPT !.input = yes]
    BY Zenon
  <2>3. conn' = [conn EXCEPT ![c] = m] /\ c \in Made /\ UNCHANGED pending
    BY <1>4, <2>1, <2>2, Zenon DEF PeerSends
  <2>4. ConnSmall
    BY <2>2, <2>3, PeerSmall, Zenon
  <2> QED
    BY <1>0, <2>3, <2>4, Zenon DEF Small, NoControl
<1>5. CASE PeerCloses(c)
  <2>1. PICK p \in {"closed", "reset"} : conn' = [conn EXCEPT ![c].peer = p]
    BY <1>5, Zenon DEF PeerCloses
  <2>2. PICK m : m = [conn[c] EXCEPT !.peer = p]
    BY Zenon
  <2>3. conn' = [conn EXCEPT ![c] = m] /\ c \in Made /\ UNCHANGED pending /\ p \in Peer
    BY <1>5, <2>1, <2>2, Zenon DEF PeerCloses, Peer
  <2>4. ConnSmall
    BY <2>2, <2>3, PeerSmall, ZenonT(40)
  <2> QED
    BY <1>0, <2>3, <2>4, Zenon DEF Small, NoControl
<1> QED
  BY <1>1, <1>2, <1>3, <1>4, <1>5, Zenon

(* Calls are made in the connection's loop, and only send() anywhere; user  *)
(* code does not stop reading, and the TcpServer outlives its connections.  *)
InTheLoop == LoopCalls \subseteq OpenCalls /\ OnlySend /\ ~ServerEnds

LEMMA UserSmall ==
    ASSUME TypeInv, LifeNow, ReadingInv, InTheLoop, NEW c \in Conns, UserNext(c)
    PROVE  Small
<1> USE DEF TypeInv
<1>0. InUserCode(c) => c \in Made /\ Touched(c) /\ loopOf[c] \in Loops
  BY Zenon DEF InUserCode, UsersOK, Touched, PoolOK
<1>1. CASE LoopSend(c)
  <2>1. PICK m \in SendInLoop(conn[c], Message) :
          conn' = [conn EXCEPT ![c] = m] /\ QueueCallbacks(c, m)
    BY <1>1, Zenon DEF LoopSend
  <2>2. PICK d \in Data : d = Message
    BY <1>1, InData, Zenon DEF LoopSend, UsersOK
  <2>3. InUserCode(c) /\ UNCHANGED <<loopOf, connections_, server, quit, failed, batch>>
    BY <1>1, Zenon DEF LoopSend, loopVars
  <2>4. ConnSmall
    BY <1>0, <2>1, <2>2, <2>3, SendSmall, Zenon
  <2>5. UNCHANGED pending \/ \E x, g : Adds(x, g) /\ g.f \notin Control
    BY <1>0, <2>1, <2>3, AddsCallback, Zenon
  <2> QED
    BY <2>3, <2>4, <2>5, Zenon DEF Small, NoControl
<1>2. CASE LoopShutdown(c)
  <2>1. /\ c \in Made /\ conn[c].state_ = kConnected
        /\ UNCHANGED <<loopOf, connections_, server, quit, failed, batch, pending>>
        /\ conn' = [conn EXCEPT ![c] = ShutdownInLoop([@ EXCEPT !.state_ = kDisconnecting])]
    BY <1>0, <1>2, Zenon DEF LoopShutdown, loopVars
  <2>2. PICK k \in Connection(Data) : k = conn[c]
    BY <2>1, Zenon DEF ConnsOK, Made
  <2>3. kDisconnecting \in States
    BY Zenon DEF States
  <2>4. PICK n \in Connection(Data) :
          /\ n = [k EXCEPT !.state_ = kDisconnecting]
          /\ n.state_ = kDisconnecting /\ n.events_ = k.events_ /\ n.polled = k.polled
          /\ n.callback = k.callback
    <3>1. PICK n : n = [k EXCEPT !.state_ = kDisconnecting]
      BY Zenon
    <3>2. /\ n \in Connection(Data)
          /\ n.state_ = kDisconnecting /\ n.events_ = k.events_ /\ n.polled = k.polled
          /\ n.callback = k.callback
      BY <2>3, <3>1, StateOf
    <3> QED
      BY <3>1, <3>2, Zenon
  <2>5. PICK m : m = ShutdownInLoop(n)
    BY Zenon
  <2>6. /\ m.state_ = n.state_ /\ m.callback = n.callback
        /\ m.events_ = n.events_ /\ m.polled = n.polled
    BY <2>5, ShutOf, Zenon
  <2>7. k.polled
    BY <2>1, <2>2, IsOpen, Zenon DEF Closable
  <2>8. CalmConn(k, m)
    BY <2>1, <2>2, <2>4, <2>6, <2>7, Zenon DEF CalmConn
  <2>9. conn' = [conn EXCEPT ![c] = m]
    BY <2>1, <2>2, <2>4, <2>5, Zenon
  <2>10. ConnSmall
    BY <2>1, <2>2, <2>8, <2>9, CalmSet, Zenon
  <2> QED
    BY <2>1, <2>10, Zenon DEF Small, NoControl
<1>3. CASE LoopForceClose(c)
  <2>1. /\ c \in Made /\ Closable(c) /\ SetDisconnecting(c)
        /\ UNCHANGED <<loopOf, connections_, server, quit, failed, batch>>
        /\ Push(loopOf[c], Functor("forceCloseInLoop", c, <<>>)) /\ loopOf[c] \in Loops
    BY <1>0, <1>3, Zenon DEF LoopForceClose, ForceClose, loopVars
  <2>2. \E x, g : Adds(x, g) /\ g.f \notin Control
    <3>1. PICK x \in Loops, f \in FunctorNames, d \in Data :
            x = loopOf[c] /\ f = "forceCloseInLoop" /\ d = <<>>
      BY <2>1, InData, Zenon DEF FunctorNames
    <3>2. Push(x, Functor(f, c, d)) /\ f \notin Control
      BY <2>1, <3>1, Zenon DEF Control
    <3> QED
      BY <3>2, AddsFunctor
  <2>3. ConnSmall
    BY <2>1, DisconnectingSmall, Zenon
  <2> QED
    BY <2>1, <2>2, <2>3, Zenon DEF Small, NoControl
<1>4. CASE LoopForceCloseWithDelay(c)
  <2>1. /\ c \in Made /\ Closable(c) /\ SetDisconnecting(c)
        /\ UNCHANGED <<loopOf, connections_, server, quit, failed, batch, pending>>
    BY <1>0, <1>4, Zenon DEF LoopForceCloseWithDelay, loopVars
  <2>2. ConnSmall
    BY <2>1, DisconnectingSmall, Zenon
  <2> QED
    BY <2>1, <2>2, Zenon DEF Small, NoControl
<1>5. ~LoopSetReading(c)
  BY Zenon DEF LoopSetReading, InTheLoop, OpenCalls
<1>6. CASE DropPointer(c)
  BY <1>6, SameSmall, Zenon DEF DropPointer, connVars, loopVars, Small, NoControl
<1>7. ASSUME NEW u \in Users, NEW call \in ThreadCalls, BeginCall(u, c, call)
      PROVE  Small
  BY <1>7, SameSmall, Zenon DEF BeginCall, connVars, loopVars, Small, NoControl
<1> QED
  BY <1>1, <1>2, <1>3, <1>4, <1>5, <1>6, <1>7, ZenonT(40) DEF UserNext

LEMMA CallSmall ==
    ASSUME TypeInv, InTheLoop, NEW u \in Users, StoreState(u) \/ QueueCall(u)
    PROVE  Small
<1> USE DEF TypeInv
<1>1. calls[u] # Idle
  BY Zenon DEF StoreState, QueueCall
<1>2. calls[u].c \in Made /\ calls[u].call = "send"
  BY <1>1, Zenon DEF UsersOK, InTheLoop, OnlySend
<1>3. QueueCall(u)
  BY <1>2, Zenon DEF StoreState
<1>4. PICK c \in Made : c = calls[u].c
  BY <1>2, Zenon
<1>5. c \in Conns /\ loopOf[c] \in Loops
  BY Zenon DEF Made, PoolOK
<1>6. FunctorOf("send") = "sendInLoop" /\ "sendInLoop" \in FunctorNames \ Control
  BY Zenon DEF FunctorOf, FunctorNames, RawFunctors, Control
<1>7. PICK d \in Data : d = Message
  BY <1>2, <1>3, InData, Zenon DEF QueueCall, UsersOK
<1>8. Push(loopOf[c], Functor("sendInLoop", c, d))
  BY <1>2, <1>3, <1>4, <1>6, <1>7, Zenon DEF QueueCall
<1>9. \E x, g : Adds(x, g) /\ g.f \notin Control
  BY <1>5, <1>6, <1>8, AddsFunctor, SMTT(30)
<1>10. UNCHANGED <<conn, loopOf, connections_, server, quit, failed, batch>>
  BY <1>3, Zenon DEF QueueCall, connVars, loopVars
<1> QED
  BY <1>9, <1>10, SameSmall, Zenon DEF Small, NoControl

LEMMA LoopSmall ==
    ASSUME TypeInv, LifeNow,
           \/ \E l \in Loops : SwapFunctors(l) \/ BatchDone(l)
           \/ Joined \/ Aborted \/ UNCHANGED vars
    PROVE  Small
<1> USE DEF TypeInv
<1>1. ASSUME NEW l \in Loops, SwapFunctors(l)
      PROVE  Small
  <2>1. UNCHANGED <<conn, loopOf, connections_, server, quit, failed>>
    BY <1>1, Zenon DEF SwapFunctors, connVars
  <2>2. batch[l] = <<>>
    BY <1>1, Zenon DEF SwapFunctors, Handling, QueuesOK
  <2>3. ASSUME NEW x \in Loops
        PROVE  Q(x)' = Q(x)
    <3>1. PICK p \in Seq(Functors) : p = pending[l]
      BY QueueOf, Zenon
    <3>2. <<>> \o p = p /\ p \o <<>> = p
      BY ConcatEmptySeq, Zenon
    <3>3. Q(x)' = batch'[x] \o pending'[x] /\ Q(x) = batch[x] \o pending[x]
      BY Zenon DEF Q
    <3>4. CASE x = l
      BY <1>1, <2>2, <3>1, <3>2, <3>3, <3>4, ZenonT(40) DEF SwapFunctors, QueuesOK
    <3>5. CASE x # l
      BY <1>1, <3>3, <3>5, Zenon DEF SwapFunctors, QueuesOK
    <3> QED
      BY <3>4, <3>5, Zenon
  <2> QED
    BY <2>1, <2>3, SameSmall, Zenon DEF Small, NoControl
<1>2. ASSUME NEW l \in Loops, BatchDone(l)
      PROVE  Small
  <2>1. ~quit[l]
    BY Zenon DEF LifeNow
  <2> QED
    BY <1>2, <2>1, SameSmall, Zenon DEF BatchDone, connVars, Small, NoControl
<1>3. CASE Joined \/ Aborted \/ UNCHANGED vars
  BY <1>3, SameSmall, Zenon DEF Joined, Aborted, vars, connVars, loopVars, Small, NoControl
<1> QED
  BY <1>1, <1>2, <1>3, Zenon

LEMMA FunctorSmall ==
    ASSUME TypeInv, LifeInv, ReadingInv, NEW l \in Loops, NEW fn,
           \/ RunForceCloseInLoop(l, fn) /\ ~Closable(fn.c)
           \/ RunRawFunctor(l, fn)
           \/ RunUserCallback(l, fn)
    PROVE  Small
<1> USE DEF TypeInv
<1>1. Runs(l, fn) /\ UNCHANGED <<loopOf, connections_, server, quit>>
  BY Zenon DEF RunForceCloseInLoop, RunRawFunctor, RunUserCallback, connVars, Runs
<1>2. fn \in Functors /\ fn.c \in Made /\ 1 \in DOMAIN Q(l) /\ Q(l)[1] = fn
  BY <1>1, RunHead, Zenon
<1>3. CASE RunForceCloseInLoop(l, fn) /\ ~Closable(fn.c)
  <2>1. UNCHANGED <<conn, pending, failed>> /\ fn.f \notin Control
    BY <1>3, Zenon DEF RunForceCloseInLoop, connVars, Control
  <2> QED
    BY <1>1, <2>1, SameSmall, ZenonT(40) DEF Small, NoControl
<1>4. CASE RunUserCallback(l, fn)
  <2>1. UNCHANGED <<conn, pending, failed>> /\ fn.f \notin Control
    BY <1>4, Zenon DEF RunUserCallback, connVars, Control
  <2> QED
    BY <1>1, <2>1, SameSmall, Zenon DEF Small, NoControl
<1>5. CASE RunRawFunctor(l, fn)
  <2>1. fn.f = "sendInLoop" /\ fn.f \notin Control
    BY <1>2, <1>5, Zenon DEF RunRawFunctor, LifeInv, Control
  <2>2. PICK c \in Made, d \in Data : c = fn.c /\ d = fn.data
    BY <1>2, Zenon DEF Functors
  <2>3. Touched(c)
    BY <1>2, <1>5, <2>2, Zenon DEF Touched, RunRawFunctor
  <2>4. InLoop(fn) = SendInLoop(conn[c], d)
    BY <2>1, <2>2, Zenon DEF InLoop
  <2>5. PICK m \in SendInLoop(conn[c], d) : conn' = [conn EXCEPT ![c] = m] /\ QueueCallbacks(c, m)
    BY <1>5, <2>1, <2>2, <2>4, Zenon DEF RunRawFunctor
  <2>6. LifeNow
    BY Zenon DEF LifeInv, LifeNow
  <2>7. ConnSmall
    BY <2>3, <2>5, <2>6, SendSmall, ZenonT(40)
  <2>8. UNCHANGED pending \/ \E x, g : Adds(x, g) /\ g.f \notin Control
    BY <2>5, AddsCallback, Zenon
  <2>9. failed' \in {failed, "destroyed"}
    BY <1>5, Zenon DEF RunRawFunctor, Check
  <2> QED
    BY <1>1, <2>1, <2>7, <2>8, <2>9, Zenon DEF Small, NoControl
<1> QED
  BY <1>3, <1>4, <1>5, Zenon

-----------------------------------------------------------------------------
(* The steps that take connection c on: the other connections stay.         *)
About(c) ==
    /\ UNCHANGED pending \/ \E x, g : Adds(x, g) /\ g.c = c
    /\ UNCHANGED batch \/ \E l \in Loops : \E fn : Runs(l, fn) /\ fn.c = c
    /\ \A d \in Conns : d # c =>
          conn'[d] = conn[d] /\ loopOf'[d] = loopOf[d] /\ (d \in connections_' <=> d \in connections_)
    /\ server' = server /\ quit' = quit

LEMMA OthersLife ==
    ASSUME TypeInv, LifeNow, NEW c \in Conns, About(c),
           failed' \in {"none", "destroyed"}, Life(c)'
    PROVE  LifeNow'
<1>1. ASSUME NEW d \in Made', d # c
      PROVE  Life(d)'
  <2>1. d \in Made /\ Life(d) /\ d \in Conns
    BY <1>1, Zenon DEF About, Made, LifeNow
  <2>2. \A y \in Loops : \A f \in Control : Quiet(y, f, d)
    BY <1>1 DEF About, Quiet
  <2>3. CalmConn(conn[d], conn'[d])
    BY <1>1, <2>1, ZenonT(40) DEF About, CalmConn
  <2>4. Calm(d)
    BY <1>1, <2>1, <2>2, <2>3, Zenon DEF Calm, About
  <2> QED
    BY <2>1, <2>4, CalmLife, Zenon
<1>2. server' /\ \A l \in Loops : ~quit'[l]
  BY Zenon DEF About, LifeNow
<1> QED
  BY <1>1, <1>2, Zenon DEF LifeNow

LEMMA NoQueues ==
    ASSUME TypeInv, NEW c, c \notin Made, NEW l \in Loops, NEW f
    PROVE  Holds(Q(l), f, c, FALSE)
BY DEF TypeInv, QueuesOK, Holds, Has

LEMMA AcceptLife ==
    ASSUME TypeInv, LifeNow, NEW c \in Conns, AcceptConnection(c)
    PROVE  LifeNow'
<1> USE DEF TypeInv
<1>1. /\ c \notin Made /\ UNCHANGED <<server, quit, failed, batch>>
      /\ loopOf' = [loopOf EXCEPT ![c] = NextLoop] /\ connections_' = connections_ \cup {c}
  BY Zenon DEF AcceptConnection, loopVars, Made
<1>2. PICK m \in {NewConnection, ConnectEstablished(NewConnection)} : conn' = [conn EXCEPT ![c] = m]
  BY Zenon DEF AcceptConnection
<1>3. /\ \A d \in Conns : d # c =>
            conn'[d] = conn[d] /\ loopOf'[d] = loopOf[d] /\ (d \in connections_' <=> d \in connections_)
      /\ loopOf'[c] = NextLoop /\ c \in connections_' /\ conn'[c] = m
  BY <1>1, <1>2, Zenon DEF ConnsOK, PoolOK
<1>4. PICK b \in Loops : b = Base
  BY Zenon DEF Loops
<1>5. CASE NextLoop = Base
  <2>1. UNCHANGED pending /\ m = ConnectEstablished(NewConnection)
    <3>1. UNCHANGED pending /\ conn' = [conn EXCEPT ![c] = ConnectEstablished(NewConnection)]
      BY <1>5, Zenon DEF AcceptConnection
    <3> QED
      BY <1>3, <3>1, Zenon DEF ConnsOK
  <2>2. \A l \in Loops : Q(l)' = Q(l)
    BY <1>1, <2>1, SameQ, Zenon
  <2>3. /\ Holds(Q(b)', "connectEstablished", c, FALSE)
        /\ Holds(Q(b)', "connectDestroyed", c, FALSE)
        /\ Holds(Q(b)', "removeConnectionInLoop", c, FALSE)
    BY <1>1, <2>2, NoQueues, Zenon
  <2>4. Holds(Q(Base)', "removeConnectionInLoop", c, FALSE)
    BY <1>4, <2>3, Zenon
  <2>5. Queues(c, FALSE, FALSE, FALSE)'
    BY <1>3, <1>4, <1>5, <2>3, <2>4, ZenonT(40) DEF Queues
  <2>6. m.state_ = kConnected /\ m.callback = "up" /\ "in" \in m.events_ /\ m.polled
    BY <2>1, NewOf, EstablishOf
  <2>7. Open(c)'
    BY <1>3, <2>5, <2>6, Zenon DEF Open
  <2>8. About(c)
    BY <1>1, <1>3, <2>1, Zenon DEF About
  <2> QED
    BY <1>1, <2>7, <2>8, OthersLife, Zenon DEF Life, LifeNow
<1>6. CASE NextLoop # Base
  <2>1. PICK l \in Loops : l = NextLoop
    BY <1>6, AcceptPush, Zenon
  <2>2. PICK g \in Functors : Push(l, g) /\ g.f = "connectEstablished" /\ g.c = c
    BY <1>6, <2>1, AcceptPush, Zenon
  <2>3. m = NewConnection
    <3>1. conn' = [conn EXCEPT ![c] = NewConnection]
      BY <1>6, Zenon DEF AcceptConnection
    <3> QED
      BY <1>3, <3>1, Zenon DEF ConnsOK
  <2>4. Holds(Q(l)', "connectEstablished", c, TRUE)
    <3>1. Holds(Q(l), g.f, g.c, FALSE)
      BY <1>1, <2>2, NoQueues, Zenon
    <3>2. Holds(Q(l)', g.f, g.c, TRUE)
      BY <1>1, <2>2, <3>1, PushGives, Zenon
    <3> QED
      BY <2>2, <3>2, Zenon
  <2>5. \A y \in Loops : \A f \in {"connectDestroyed", "removeConnectionInLoop"} : Quiet(y, f, c)
    BY <1>1, <2>2, Zenon DEF Quiet, Adds
  <2>6. Holds(Q(l)', "connectDestroyed", c, FALSE) /\ Holds(Q(b)', "removeConnectionInLoop", c, FALSE)
    <3>1. Holds(Q(l), "connectDestroyed", c, FALSE) /\ Holds(Q(b), "removeConnectionInLoop", c, FALSE)
      BY <1>1, NoQueues, Zenon
    <3> QED
      BY <2>5, <3>1, QuietKeeps, Zenon
  <2>7. Holds(Q(Base)', "removeConnectionInLoop", c, FALSE)
    BY <1>4, <2>6, Zenon
  <2>8. Queues(c, TRUE, FALSE, FALSE)'
    BY <1>3, <2>1, <2>4, <2>6, <2>7, Zenon DEF Queues
  <2>9. Opening(c)'
    BY <1>3, <2>3, <2>8, NewOf, Zenon DEF Opening
  <2>10. About(c)
    BY <1>1, <1>3, <2>2, Zenon DEF About, Adds
  <2> QED
    BY <1>1, <2>9, <2>10, OthersLife, Zenon DEF Life, LifeNow
<1> QED
  BY <1>5, <1>6, Zenon

LEMMA EstablishLife ==
    ASSUME TypeInv, LifeNow, NEW l \in Loops, NEW fn, RunConnectEstablished(l, fn)
    PROVE  LifeNow'
<1> USE DEF TypeInv
<1>1. /\ Runs(l, fn) /\ fn.f = "connectEstablished" /\ Establish(fn.c)
      /\ UNCHANGED <<loopOf, connections_, server, pending, quit>>
  BY Zenon DEF RunConnectEstablished, Runs
<1>2. fn.c \in Made /\ l = loopOf[fn.c] /\ 1 \in DOMAIN Q(l) /\ Q(l)[1] = fn
  BY <1>1, RunHead, Zenon
<1>3. PICK c \in Made : c = fn.c
  BY <1>2, Zenon
<1>4. PICK k \in Connection(Data) : k = conn[c]
  BY Zenon DEF ConnsOK, Made
<1>5. Has(Q(l), "connectEstablished", c)
  BY <1>1, <1>2, <1>3, Zenon DEF Has
<1>6. Opening(c)
  BY <1>2, <1>3, <1>5, Zenon DEF LifeNow, Life, Open, Over, Queues, Holds
<1>7. PICK m : m = ConnectEstablished(k)
  BY Zenon
<1>8. /\ conn' = [conn EXCEPT ![c] = m] /\ failed' = failed
  BY <1>1, <1>3, <1>4, <1>6, <1>7, Zenon DEF Establish, Check, Opening
<1>9. m.state_ = kConnected /\ m.callback = "up" /\ "in" \in m.events_ /\ m.polled
  BY <1>4, <1>6, <1>7, EstablishOf DEF Opening
<1>10. c \in Conns /\ conn'[c] = m /\ (\A d \in Conns : d # c => conn'[d] = conn[d])
  BY <1>8, Zenon DEF ConnsOK, Made
<1>11. PICK b \in Loops : b = Base
  BY Zenon DEF Loops
<1>12. Queues(c, FALSE, FALSE, FALSE)'
  <2>1. /\ Holds(Q(l), "connectEstablished", c, TRUE) /\ Holds(Q(l), "connectDestroyed", c, FALSE)
        /\ Holds(Q(b), "removeConnectionInLoop", c, FALSE)
    BY <1>2, <1>3, <1>6, <1>11, Zenon DEF Opening, Queues
  <2>2. Holds(Q(l)', "connectEstablished", c, FALSE)
    <3>1. Holds(Q(l), fn.f, fn.c, TRUE)
      BY <1>1, <1>3, <2>1, Zenon
    <3>2. Holds(Q(l)', fn.f, fn.c, FALSE)
      BY <1>1, <3>1, RunTakes, Zenon
    <3> QED
      BY <1>1, <1>3, <3>2, Zenon
  <2>3. \A y \in Loops : \A f \in {"connectDestroyed", "removeConnectionInLoop"} : Quiet(y, f, c)
    BY <1>1, Zenon DEF Quiet
  <2>4. Holds(Q(l)', "connectDestroyed", c, FALSE) /\ Holds(Q(b)', "removeConnectionInLoop", c, FALSE)
    BY <2>1, <2>3, QuietKeeps, Zenon
  <2>5. Holds(Q(Base)', "removeConnectionInLoop", c, FALSE)
    BY <1>11, <2>4, ZenonT(40)
  <2>6. l = loopOf'[c]
    BY <1>1, <1>2, <1>3, Zenon
  <2> QED
    BY <2>2, <2>4, <2>5, <2>6, Zenon DEF Queues
<1>13. Open(c)'
  BY <1>1, <1>6, <1>9, <1>10, <1>12, ZenonT(40) DEF Open, Opening
<1>14. About(c)
  BY <1>1, <1>3, <1>10, Zenon DEF About
<1> QED
  BY <1>8, <1>10, <1>13, <1>14, OthersLife, Zenon DEF Life, LifeNow

LEMMA CloseLife ==
    ASSUME TypeInv, LifeNow, NEW c \in Made, Close(c), Closable(c) \/ conn[c].polled, UNCHANGED quit,
           UNCHANGED batch \/ \E l \in Loops : \E fn : Runs(l, fn) /\ fn.f = "forceCloseInLoop" /\ fn.c = c
    PROVE  LifeNow'
<1> USE DEF TypeInv
<1>1. PICK k \in Connection(Data) : k = conn[c]
  BY Zenon DEF ConnsOK, Made
<1>2. Open(c)
  BY IsOpen, Zenon
<1>3. PICK m : m = HandleClose(k)
  BY Zenon
<1>4. m.state_ = kDisconnected /\ m.callback = "down" /\ m.events_ = {} /\ ~m.polled
  BY <1>1, <1>2, <1>3, CloseOf, Zenon DEF Open
<1>5. /\ conn' = [conn EXCEPT ![c] = m] /\ UNCHANGED <<loopOf, server>> /\ RemoveConnection(c)
  BY <1>1, <1>3, Zenon DEF Close
<1>6. failed' = failed
  BY <1>2, Zenon DEF Close, Open, LifeNow
<1>7. c \in Conns /\ conn'[c] = m /\ (\A d \in Conns : d # c => conn'[d] = conn[d])
  BY <1>5, Zenon DEF ConnsOK, Made
<1>8. PICK b \in Loops, l \in Loops : b = Base /\ l = loopOf[c]
  BY Zenon DEF Loops, PoolOK, Made
<1>9. /\ Holds(Q(l), "connectEstablished", c, FALSE) /\ Holds(Q(l), "connectDestroyed", c, FALSE)
      /\ Holds(Q(b), "removeConnectionInLoop", c, FALSE)
  BY <1>2, <1>8, ZenonT(40) DEF Open, Queues
<1>10. UNCHANGED batch \/ \E y \in Loops : \E fn : Runs(y, fn) /\ fn.c = c
  BY Zenon
<1>11. CASE l = b
  <2>1. /\ connections_' = connections_ \ {c}
        /\ Push(l, Functor("connectDestroyed", c, <<>>))
    BY <1>5, <1>8, <1>11, Zenon DEF RemoveConnection, RemoveConnectionInLoop
  <2>2. PICK g : Adds(l, g) /\ g.f = "connectDestroyed" /\ g.c = c
    BY <1>7, <2>1, InData, AddsFunctor, SMTT(30) DEF FunctorNames
  <2>3. \A y \in Loops : \A f \in {"connectEstablished", "removeConnectionInLoop"} : Quiet(y, f, c)
    BY <2>2, Zenon DEF Quiet
  <2>4. Holds(Q(l)', "connectEstablished", c, FALSE) /\ Holds(Q(b)', "removeConnectionInLoop", c, FALSE)
    BY <1>9, <2>3, QuietKeeps, Zenon
  <2>5. Holds(Q(l)', "connectDestroyed", c, TRUE)
    <3>1. Holds(Q(l), g.f, g.c, FALSE) /\ g \in Functors /\ Push(l, g)
      BY <1>9, <2>2, Zenon DEF Adds
    <3>2. Holds(Q(l)', g.f, g.c, TRUE)
      BY <1>10, <3>1, PushGives, Zenon
    <3> QED
      BY <2>2, <3>2, Zenon
  <2>6. Holds(Q(Base)', "removeConnectionInLoop", c, FALSE) /\ l = loopOf'[c]
    BY <1>5, <1>8, <2>4, Zenon
  <2>7. Queues(c, FALSE, FALSE, TRUE)'
    BY <2>4, <2>5, <2>6, Zenon DEF Queues
  <2>8. Over(c)'
    BY <1>4, <1>7, <2>1, <2>7, ZenonT(40) DEF Over
  <2>9. About(c)
    BY <1>5, <1>7, <1>10, <2>1, <2>2, ZenonT(40) DEF About
  <2> QED
    BY <1>6, <1>7, <2>8, <2>9, OthersLife, ZenonT(40) DEF Life, LifeNow
<1>12. CASE l # b
  <2>1. /\ UNCHANGED connections_
        /\ Push(b, Functor("removeConnectionInLoop", c, <<>>))
    BY <1>5, <1>8, <1>12, Zenon DEF RemoveConnection
  <2>2. PICK g : Adds(b, g) /\ g.f = "removeConnectionInLoop" /\ g.c = c
    BY <1>7, <2>1, InData, AddsFunctor, SMTT(30) DEF FunctorNames
  <2>3. \A y \in Loops : \A f \in {"connectEstablished", "connectDestroyed"} : Quiet(y, f, c)
    BY <2>2, Zenon DEF Quiet
  <2>4. Holds(Q(l)', "connectEstablished", c, FALSE) /\ Holds(Q(l)', "connectDestroyed", c, FALSE)
    BY <1>9, <2>3, QuietKeeps, Zenon
  <2>5. Holds(Q(b)', "removeConnectionInLoop", c, TRUE)
    <3>1. Holds(Q(b), g.f, g.c, FALSE) /\ g \in Functors /\ Push(b, g)
      BY <1>9, <2>2, Zenon DEF Adds
    <3>2. Holds(Q(b)', g.f, g.c, TRUE)
      BY <1>10, <3>1, PushGives, Zenon
    <3> QED
      BY <2>2, <3>2, Zenon
  <2>6. Holds(Q(Base)', "removeConnectionInLoop", c, TRUE) /\ l = loopOf'[c]
    BY <1>5, <1>8, <2>5, Zenon
  <2>7. Queues(c, FALSE, TRUE, FALSE)'
    BY <2>4, <2>6, Zenon DEF Queues
  <2>8. Over(c)'
    BY <1>2, <1>4, <1>7, <1>8, <1>12, <2>1, <2>6, <2>7, ZenonT(40) DEF Over, Open
  <2>9. About(c)
    BY <1>5, <1>7, <1>10, <2>1, <2>2, ZenonT(40) DEF About
  <2> QED
    BY <1>6, <1>7, <2>8, <2>9, OthersLife, ZenonT(40) DEF Life, LifeNow
<1> QED
  BY <1>11, <1>12, Zenon

LEMMA DestroyLife ==
    ASSUME TypeInv, LifeNow, NEW l \in Loops, NEW fn, RunConnectDestroyed(l, fn)
    PROVE  LifeNow'
<1> USE DEF TypeInv
<1>1. /\ Runs(l, fn) /\ fn.f = "connectDestroyed"
      /\ UNCHANGED <<loopOf, connections_, server, pending, quit>>
  BY Zenon DEF RunConnectDestroyed, Runs
<1>2. fn.c \in Made /\ l = loopOf[fn.c] /\ 1 \in DOMAIN Q(l) /\ Q(l)[1] = fn
  BY <1>1, RunHead, Zenon
<1>3. PICK c \in Made : c = fn.c
  BY <1>2, Zenon
<1>4. PICK k \in Connection(Data) : k = conn[c]
  BY Zenon DEF ConnsOK, Made
<1>5. Has(Q(l), "connectDestroyed", c)
  BY <1>1, <1>2, <1>3, Zenon DEF Has
<1>6. Over(c) /\ c \notin connections_ /\ Queues(c, FALSE, FALSE, TRUE)
  BY <1>2, <1>3, <1>5, Zenon DEF LifeNow, Life, Opening, Open, Over, Queues, Holds
<1>7. PICK m : m = Removed(ConnectDestroyed(k))
  BY Zenon
<1>8. /\ ~m.added /\ ~m.polled /\ m.state_ = k.state_ /\ m.events_ = k.events_
      /\ m.callback = k.callback /\ ConnectDestroyed(k).events_ = k.events_
  BY <1>4, <1>6, <1>7, DestroyOf, Zenon DEF Over, kDisconnected, kConnected
<1>9. conn' = [conn EXCEPT ![c] = m] /\ failed' = failed
  BY <1>3, <1>4, <1>6, <1>7, <1>8, ZenonT(40) DEF RunConnectDestroyed, Check, Over
<1>10. c \in Conns /\ conn'[c] = m /\ (\A d \in Conns : d # c => conn'[d] = conn[d])
  BY <1>9, Zenon DEF ConnsOK, Made
<1>11. PICK b \in Loops : b = Base
  BY Zenon DEF Loops
<1>12. Queues(c, FALSE, FALSE, FALSE)'
  <2>1. /\ Holds(Q(l), "connectEstablished", c, FALSE) /\ Holds(Q(l), "connectDestroyed", c, TRUE)
        /\ Holds(Q(b), "removeConnectionInLoop", c, FALSE)
    BY <1>2, <1>3, <1>6, <1>11, Zenon DEF Queues
  <2>2. Holds(Q(l)', "connectDestroyed", c, FALSE)
    <3>1. Holds(Q(l), fn.f, fn.c, TRUE)
      BY <1>1, <1>3, <2>1, Zenon
    <3>2. Holds(Q(l)', fn.f, fn.c, FALSE)
      BY <1>1, <3>1, RunTakes, Zenon
    <3> QED
      BY <1>1, <1>3, <3>2, Zenon
  <2>3. \A y \in Loops : \A f \in {"connectEstablished", "removeConnectionInLoop"} : Quiet(y, f, c)
    BY <1>1, Zenon DEF Quiet
  <2>4. Holds(Q(l)', "connectEstablished", c, FALSE) /\ Holds(Q(b)', "removeConnectionInLoop", c, FALSE)
    BY <2>1, <2>3, QuietKeeps, Zenon
  <2>5. Holds(Q(Base)', "removeConnectionInLoop", c, FALSE)
    BY <1>11, <2>4, ZenonT(40)
  <2>6. l = loopOf'[c]
    BY <1>1, <1>2, <1>3, Zenon
  <2> QED
    BY <2>2, <2>4, <2>5, <2>6, Zenon DEF Queues
<1>13. Over(c)'
  BY <1>1, <1>4, <1>6, <1>8, <1>10, <1>12, ZenonT(40) DEF Over
<1>14. About(c)
  BY <1>1, <1>3, <1>10, Zenon DEF About
<1> QED
  BY <1>9, <1>10, <1>13, <1>14, OthersLife, ZenonT(40) DEF Life, LifeNow

LEMMA RemoveLife ==
    ASSUME TypeInv, LifeNow, NEW l \in Loops, NEW fn, RunRemoveConnectionInLoop(l, fn)
    PROVE  LifeNow'
<1> USE DEF TypeInv
<1>1. /\ Runs(l, fn) /\ fn.f = "removeConnectionInLoop" /\ RemoveConnectionInLoop(fn.c)
      /\ UNCHANGED <<conn, loopOf, server, quit>>
  BY Zenon DEF RunRemoveConnectionInLoop, Runs
<1>2. fn.c \in Made /\ l = Base /\ 1 \in DOMAIN Q(l) /\ Q(l)[1] = fn
  BY <1>1, RunHead, Zenon
<1>3. PICK c \in Made : c = fn.c
  BY <1>2, Zenon
<1>4. PICK x \in Loops : x = loopOf[c]
  BY Zenon DEF PoolOK, Made
<1>5. Has(Q(l), "removeConnectionInLoop", c)
  BY <1>1, <1>2, <1>3, Zenon DEF Has
<1>6. Over(c) /\ c \in connections_ /\ x # l /\ Queues(c, FALSE, TRUE, FALSE)
  BY <1>2, <1>4, <1>5, ZenonT(40) DEF LifeNow, Life, Opening, Open, Over, Queues, Holds
<1>7. failed' = failed
  BY <1>3, <1>6, Zenon DEF RunRemoveConnectionInLoop, Check, LifeNow
<1>8. connections_' = connections_ \ {c} /\ Push(x, Functor("connectDestroyed", c, <<>>)) /\ c \in Conns
  BY <1>1, <1>3, <1>4, ZenonT(40) DEF RemoveConnectionInLoop, Made
<1>9. PICK g : Adds(x, g) /\ g.f = "connectDestroyed" /\ g.c = c
  BY <1>8, InData, AddsFunctor DEF FunctorNames
<1>10. Queues(c, FALSE, FALSE, TRUE)'
  <2>1. /\ Holds(Q(x), "connectEstablished", c, FALSE) /\ Holds(Q(x), "connectDestroyed", c, FALSE)
        /\ Holds(Q(l), "removeConnectionInLoop", c, TRUE)
    BY <1>2, <1>4, <1>6, Zenon DEF Queues
  <2>2. Holds(Q(l)', "removeConnectionInLoop", c, FALSE)
    <3>1. Holds(Q(l), fn.f, fn.c, TRUE)
      BY <1>1, <1>3, <2>1, Zenon
    <3>2. Holds(Q(l)', fn.f, fn.c, FALSE)
      BY <1>1, <1>6, <1>9, <3>1, RunTakes, ZenonT(40)
    <3> QED
      BY <1>1, <1>3, <3>2, Zenon
  <2>3. Quiet(x, "connectEstablished", c)
    BY <1>1, <1>9, Zenon DEF Quiet
  <2>4. Holds(Q(x)', "connectEstablished", c, FALSE)
    BY <2>1, <2>3, QuietKeeps, Zenon
  <2>5. Holds(Q(x)', "connectDestroyed", c, TRUE)
    <3>1. Holds(Q(x), g.f, g.c, FALSE) /\ g \in Functors /\ Push(x, g)
      BY <1>9, <2>1, Zenon DEF Adds
    <3>2. Holds(Q(x)', g.f, g.c, TRUE)
      BY <1>1, <3>1, PushGives, Zenon
    <3> QED
      BY <1>9, <3>2, Zenon
  <2>6. Holds(Q(Base)', "removeConnectionInLoop", c, FALSE) /\ x = loopOf'[c]
    BY <1>1, <1>2, <1>4, <2>2, Zenon
  <2> QED
    BY <2>4, <2>5, <2>6, Zenon DEF Queues
<1>11. Over(c)'
  BY <1>1, <1>6, <1>8, <1>10, ZenonT(40) DEF Over
<1>12. About(c)
  BY <1>1, <1>3, <1>8, <1>9, Zenon DEF About
<1> QED
  BY <1>7, <1>8, <1>11, <1>12, OthersLife, Zenon DEF Life, LifeNow

LEMMA LifeStep ==
    ASSUME TypeInv, LifeInv, ReadingInv, InTheLoop, [Next]_vars
    PROVE  LifeInv'
<1>0. LifeNow
  BY Zenon DEF LifeInv, LifeNow
<1>1. LifeNow'
  <2>1. ASSUME NEW c \in Conns, AcceptConnection(c)
        PROVE  LifeNow'
    BY <1>0, <2>1, AcceptLife, Zenon
  <2>2. ASSUME NEW c \in Conns, CloseEvent(c)
        PROVE  LifeNow'
    <3>1. c \in Made /\ Close(c) /\ conn[c].polled /\ UNCHANGED <<quit, batch>>
      BY <2>2, Zenon DEF CloseEvent, Active, Closes, Readable, HungUp, loopVars
    <3> QED
      BY <1>0, <3>1, CloseLife, Zenon
  <2>3. ASSUME NEW l \in Loops, RunFunctor(l)
        PROVE  LifeNow'
    <3>1. PICK fn : \/ RunConnectEstablished(l, fn) \/ RunConnectDestroyed(l, fn)
                    \/ RunRemoveConnectionInLoop(l, fn) \/ RunForceCloseInLoop(l, fn)
                    \/ RunRawFunctor(l, fn) \/ RunUserCallback(l, fn)
      BY <2>3, Zenon DEF RunFunctor
    <3>2. CASE RunForceCloseInLoop(l, fn) /\ Closable(fn.c)
      <4>1. Runs(l, fn) /\ Close(fn.c) /\ fn.f = "forceCloseInLoop" /\ UNCHANGED quit
        BY <3>2, Zenon DEF RunForceCloseInLoop, Runs
      <4>2. PICK c \in Made : c = fn.c
        BY <4>1, RunHead, Zenon DEF TypeInv
      <4> QED
        BY <1>0, <3>2, <4>1, <4>2, CloseLife, ZenonT(40)
    <3>3. CASE (RunForceCloseInLoop(l, fn) /\ ~Closable(fn.c)) \/ RunRawFunctor(l, fn) \/ RunUserCallback(l, fn)
      BY <1>0, <3>3, FunctorSmall, SmallLife, Zenon
    <3> QED
      BY <1>0, <3>1, <3>2, <3>3, EstablishLife, DestroyLife, RemoveLife, ZenonT(40)
  <2>4. ASSUME NEW c \in Conns, ReadEvent(c) \/ WriteEvent(c) \/ DelayPasses(c) \/ PeerSends(c) \/ PeerCloses(c)
        PROVE  LifeNow'
    BY <1>0, <2>4, EventSmall, SmallLife, Zenon
  <2>5. ASSUME NEW c \in Conns, UserNext(c)
        PROVE  LifeNow'
    BY <1>0, <2>5, UserSmall, SmallLife, Zenon
  <2>6. ASSUME NEW u \in Users, StoreState(u) \/ QueueCall(u)
        PROVE  LifeNow'
    BY <1>0, <2>6, CallSmall, SmallLife, Zenon
  <2>7. ASSUME (\E l \in Loops : SwapFunctors(l) \/ BatchDone(l)) \/ Joined \/ Aborted \/ UNCHANGED vars
        PROVE  LifeNow'
    BY <1>0, <2>7, LoopSmall, SmallLife, Zenon
  <2>8. ~DestroyServer
    BY Zenon DEF DestroyServer, InTheLoop
  <2> QED
    BY <2>1, <2>2, <2>3, <2>4, <2>5, <2>6, <2>7, <2>8, ZenonT(40) DEF Next, EventNext, LoopNext
<1>2. ASSUME NEW l \in Loops, NEW r, r = Q(l)', NEW i \in DOMAIN r, r[i].f \in RawFunctors
      PROVE  r[i].f = "sendInLoop"
  <2>1. QView
    BY QueueView, Zenon
  <2>2. server'
    BY <1>1, Zenon DEF LifeNow
  <2>3. (\E j \in DOMAIN Q(l) : r[i] = Q(l)[j]) \/ Given(l, r[i])
    BY <1>2, <2>1, <2>2, Elements, Zenon
  <2> QED
    BY <1>2, <2>3, Zenon DEF Given, InTheLoop, LifeInv
<1> QED
  BY <1>1, <1>2, Zenon DEF LifeInv, LifeNow

LEMMA LifeAlways ==
    ASSUME InTheLoop
    PROVE  Spec => []LifeInv
<1>1. Init => LifeInv
  <2> SUFFICES ASSUME Init PROVE LifeInv
    BY Zenon
  <2>1. /\ Made = {} /\ \A l \in Loops : Q(l) = <<>>
        /\ server /\ \A l \in Loops : ~quit[l]
    BY InitTypes, Zenon
  <2>2. failed = "none"
    BY Zenon DEF Init
  <2> QED
    BY <2>1, <2>2 DEF LifeInv
<1>2. TypeInv /\ ReadingInv /\ LifeInv /\ [Next]_vars => LifeInv'
  BY LifeStep, Zenon
<1> QED
  BY <1>1, <1>2, TypesAlways, ReadingAlways, PTL DEF Spec

(* When calls are made in the connection's loop and only send() elsewhere,  *)
(* the assertions of TcpServer.cc, TcpConnection.cc and Channel.cc hold:    *)
(* connectEstablished() finds kConnecting, handleClose() an open state,     *)
(* erase() the connection, remove() a channel without events.               *)
THEOREM Assertions ==
    ASSUME InTheLoop
    PROVE  Spec => []AssertionsHold
<1>1. LifeInv => AssertionsHold
  BY Zenon DEF LifeInv, AssertionsHold
<1> QED
  BY <1>1, LifeAlways, PTL

LEMMA LifeGivesLives ==
    ASSUME TypeInv, LifeInv
    PROVE  DestroyedWhenDisconnected /\ CallbacksPaired
<1>1. ASSUME NEW c \in Made, ~Referenced(c)
      PROVE  conn[c].state_ = kDisconnected /\ ~conn[c].added /\ conn[c].callback = "down"
  <2>1. c \notin connections_
    BY <1>1, Zenon DEF Referenced
  <2>2. Over(c)
    BY <2>1, Zenon DEF LifeInv, Life, Opening, Open
  <2>3. ~Queues(c, FALSE, FALSE, TRUE)
    <3>1. SUFFICES ASSUME Queues(c, FALSE, FALSE, TRUE) PROVE FALSE
      BY ZenonT(40)
    <3>2. PICK l \in Loops : Has(Q(l), "connectDestroyed", c)
      BY <3>1, Zenon DEF Queues, Holds
    <3>3. PICK i \in DOMAIN Q(l) : Q(l)[i].f = "connectDestroyed" /\ Q(l)[i].c = c
      BY <3>2, Zenon DEF Has
    <3>4. PICK fn : fn = Q(l)[i]
      BY Zenon
    <3>5. fn \in Queued(l)
      BY <3>3, <3>4, QueuedIsQ, Zenon DEF TypeInv
    <3>6. fn.c = c /\ fn.f \notin RawFunctors
      BY <3>3, <3>4, Zenon DEF RawFunctors
    <3> QED
      BY <1>1, <3>5, <3>6, Zenon DEF Referenced
  <2> QED
    BY <2>1, <2>2, <2>3, Zenon DEF Over
<1>2. \A c \in Made : conn[c].callback # "again"
  BY Zenon DEF LifeInv, Life, Opening, Open, Over
<1> QED
  BY <1>1, <1>2, Zenon DEF DestroyedWhenDisconnected, CallbacksPaired

(* Under the same calls, every connection goes up once and down once, and   *)
(* when its last pointer goes it is down, kDisconnected and out of the      *)
(* poller, as ~TcpConnection and ~Channel assert.                           *)
THEOREM Lives ==
    ASSUME InTheLoop
    PROVE  Spec => []LivesInOrder
<1>1. TypeInv /\ LifeInv => LivesInOrder
  BY TypesGiveOK, LifeGivesLives, Zenon DEF LivesInOrder
<1> QED
  BY <1>1, LifeAlways, TypesAlways, PTL
=============================================================================
