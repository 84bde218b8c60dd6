------------------------ MODULE TcpServerOrder_proof ------------------------
(***************************************************************************)
(* The order of the functors of a connection: what was queued with a raw   *)
(* pointer runs before the connection is destroyed, and shutdown() waits   *)
(* for the output, for any number of connections, loops and messages.      *)
(***************************************************************************)
EXTENDS TcpServer_proof

(* A connection that leaves connections_ has connectDestroyed behind all    *)
(* its other functors.                                                      *)
Leaves(c) ==
    LET q == Q(loopOf[c])' IN
    \/ \E i \in DOMAIN q :
          /\ q[i].f = "connectDestroyed" /\ q[i].c = c
          /\ \A j \in DOMAIN q : q[j].f \in RawFunctors => j < i
    \/ ~server' /\ loops_ = <<>>

(* In queue q a functor with a raw pointer to c has connectDestroyed of c   *)
(* behind it.                                                               *)
Behind(q, c) ==
    \A i \in DOMAIN q : q[i].f \in RawFunctors /\ q[i].c = c /\ ~q[i].late =>
        \E j \in DOMAIN q : j > i /\ q[j].f = "connectDestroyed" /\ q[j].c = c

(* So has every raw functor of a connection that left connections_.        *)
RawInv ==
    server \/ loops_ # <<>> => \A l \in Loops, c \in Made \ connections_ : Behind(Q(l), c)

(* A raw functor keeps its connectDestroyed behind it.                      *)
LEMMA BehindTail ==
    ASSUME NEW F, NEW q \in Seq(F), q # <<>>, NEW c, Behind(q, c)
    PROVE  Behind(Tail(q), c)
<1>1. /\ \A i \in DOMAIN Tail(q) : i \in Nat /\ i + 1 \in DOMAIN q /\ Tail(q)[i] = q[i + 1]
      /\ \A i \in DOMAIN q : i \in Nat /\ (i # 1 => i > 1 /\ i - 1 \in DOMAIN Tail(q))
  BY TailElems, Zenon
<1> SUFFICES ASSUME NEW i \in DOMAIN Tail(q), Tail(q)[i].f \in RawFunctors, Tail(q)[i].c = c,
                    ~Tail(q)[i].late
             PROVE  \E j \in DOMAIN Tail(q) : j > i /\ Tail(q)[j].f = "connectDestroyed" /\ Tail(q)[j].c = c
  BY Zenon DEF Behind
<1>2. PICK j \in DOMAIN q : j > i + 1 /\ q[j].f = "connectDestroyed" /\ q[j].c = c
  BY <1>1, Zenon DEF Behind
<1>3. j - 1 \in DOMAIN Tail(q) /\ j - 1 > i /\ (j - 1) + 1 = j
  BY <1>1, <1>2
<1>4. Tail(q)[j - 1] = q[j]
  BY <1>1, <1>3, Zenon
<1> QED
  BY <1>2, <1>3, <1>4, Zenon

LEMMA BehindAppend ==
    ASSUME NEW F, NEW q \in Seq(F), NEW x \in F, NEW c, Behind(q, c),
           x.f \in RawFunctors /\ x.c = c => x.late
    PROVE  Behind(Append(q, x), c)
<1>1. /\ DOMAIN q = 1 .. Len(q) /\ Len(q) \in Nat
      /\ DOMAIN Append(q, x) = 1 .. Len(q) + 1
      /\ \A i \in DOMAIN q : Append(q, x)[i] = q[i]
      /\ Append(q, x)[Len(q) + 1] = x
  BY AppendElems
<1>2. PICK r : r = Append(q, x)
  BY ZenonT(40)
<1>3. \A i \in DOMAIN r : i \in DOMAIN q \/ i = Len(q) + 1
  BY <1>1, <1>2
<1>4. DOMAIN q \subseteq DOMAIN r /\ \A i \in DOMAIN q : r[i] = q[i]
  BY <1>1, <1>2
<1>5. Behind(r, c)
  BY <1>1, <1>2, <1>3, <1>4 DEF Behind
<1> QED
  BY <1>2, <1>5, Zenon

LEMMA BehindConcat ==
    ASSUME NEW F, NEW q \in Seq(F), NEW r \in Seq(F), NEW c, Behind(q, c),
           \A i \in DOMAIN r : r[i].f \notin RawFunctors
    PROVE  Behind(q \o r, c)
<1>1. /\ DOMAIN q = 1 .. Len(q) /\ Len(q) \in Nat /\ DOMAIN r = 1 .. Len(r) /\ Len(r) \in Nat
      /\ DOMAIN (q \o r) = 1 .. Len(q) + Len(r)
      /\ \A i \in DOMAIN q : (q \o r)[i] = q[i]
      /\ \A i \in DOMAIN r : (q \o r)[Len(q) + i] = r[i]
      /\ \A i \in DOMAIN (q \o r) : i \in DOMAIN q \/ i - Len(q) \in DOMAIN r
  BY ConcatElems, Zenon
<1>2. PICK s : s = q \o r
  BY Zenon
<1>3. ASSUME NEW i \in DOMAIN s, s[i].f \in RawFunctors
      PROVE  i \in DOMAIN q
  <2>1. CASE i - Len(q) \in DOMAIN r
    <3>1. Len(q) + (i - Len(q)) = i
      BY <1>1, <1>2
    <3> QED
      BY <1>1, <1>2, <1>3, <2>1, <3>1, ZenonT(40)
  <2> QED
    BY <1>1, <1>2, <2>1, Zenon
<1>4. DOMAIN q \subseteq DOMAIN s /\ \A i \in DOMAIN q : s[i] = q[i]
  BY <1>1, <1>2
<1>5. Behind(s, c)
  BY <1>3, <1>4 DEF Behind
<1> QED
  BY <1>2, <1>5, Zenon

-----------------------------------------------------------------------------
(* What is pushed is the last element of its queue.                         *)
LEMMA AnyPush ==
    ASSUME QueuesOK, NEW x \in Loops, NEW g \in Functors, Push(x, g),
           UNCHANGED batch \/ \E l \in Loops : \E fn : Runs(l, fn)
    PROVE  \E s \in Seq(Functors) : Q(x)' = Append(s, g)
<1>1. Q(x) \in Seq(Functors)
  BY QueueOf, Zenon
<1>2. CASE UNCHANGED batch
  BY <1>1, <1>2, PushQ, Zenon
<1>3. ASSUME NEW l \in Loops, NEW fn, Runs(l, fn)
      PROVE  \E s \in Seq(Functors) : Q(x)' = Append(s, g)
  <2>1. /\ Q(l) # <<>>
        /\ x = l => Q(l)' = Append(Tail(Q(l)), g)
        /\ x # l => Q(x)' = Append(Q(x), g)
    BY <1>3, RunPushQ
  <2>2. x = l => Tail(Q(l)) \in Seq(Functors)
    BY <1>1, <2>1, HeadTailProperties, Zenon
  <2> QED
    BY <1>1, <2>1, <2>2, Zenon
<1> QED
  BY <1>2, <1>3, Zenon

LEMMA LeavesStep ==
    ASSUME TypeInv, [Next]_vars, NEW c \in connections_, c \notin connections_'
    PROVE  Leaves(c)
<1> USE DEF TypeInv
<1>0. c \in Made /\ c \in Conns /\ loopOf[c] \in Loops /\ c \in Made'
  BY ConnStep, Zenon DEF UsersOK, Made, PoolOK
<1>1. ASSUME RemoveConnectionInLoop(c), UNCHANGED loopOf,
             UNCHANGED batch \/ \E l \in Loops : \E fn : Runs(l, fn)
      PROVE  Leaves(c)
  <2>1. "connectDestroyed" \in FunctorNames \ {"connectEstablished"} /\ "connectDestroyed" \notin RawFunctors
        /\ <<>> \in Data
    BY InData, Zenon DEF FunctorNames, RawFunctors
  <2>2. PICK g \in Functors : /\ g = Functor("connectDestroyed", c, <<>>)
                              /\ g.f = "connectDestroyed" /\ g.c = c
    BY <1>0, <2>1, FunctorIn
  <2>3. PICK l \in Loops : l = loopOf[c]
    BY <1>0, Zenon
  <2>4. Push(l, g)
    BY <1>1, <2>2, <2>3, Zenon DEF RemoveConnectionInLoop
  <2>5. PICK s \in Seq(Functors) : Q(l)' = Append(s, g)
    BY <1>1, <2>4, AnyPush, Zenon
  <2>6. PICK q : q = Q(l)'
    BY Zenon
  <2>7. /\ DOMAIN s = 1 .. Len(s) /\ Len(s) \in Nat /\ DOMAIN q = 1 .. Len(s) + 1
        /\ q[Len(s) + 1] = g
    BY <2>5, <2>6, AppendElems
  <2>8. \E i \in DOMAIN q :
          /\ q[i].f = "connectDestroyed" /\ q[i].c = c
          /\ \A j \in DOMAIN q : q[j].f \in RawFunctors => j < i
    <3>1. \A j \in DOMAIN q : q[j].f \in RawFunctors => j < Len(s) + 1
      BY <2>1, <2>2, <2>7
    <3>2. Len(s) + 1 \in DOMAIN q
      BY <2>7
    <3> QED
      BY <2>2, <2>7, <3>1, <3>2, Zenon
  <2>9. Q(loopOf[c])' = q
    BY <1>1, <2>3, <2>6, Zenon
  <2> QED
    BY <2>8, <2>9, Zenon DEF Leaves
<1>2. ASSUME NEW d \in Conns, CloseEvent(d)
      PROVE  Leaves(c)
  <2>1. RemoveConnection(d) /\ UNCHANGED <<loopOf, batch>>
    BY <1>2, Zenon DEF CloseEvent, Close, loopVars
  <2>2. d = c /\ RemoveConnectionInLoop(c)
    BY <2>1, Zenon DEF RemoveConnection, RemoveConnectionInLoop
  <2> QED
    BY <1>1, <2>1, <2>2, Zenon
<1>3. ASSUME NEW l \in Loops, NEW fn, RunRemoveConnectionInLoop(l, fn)
      PROVE  Leaves(c)
  <2>1. RemoveConnectionInLoop(fn.c) /\ UNCHANGED loopOf /\ Runs(l, fn)
    BY <1>3, Zenon DEF RunRemoveConnectionInLoop
  <2>2. fn.c = c
    BY <2>1, Zenon DEF RemoveConnectionInLoop
  <2> QED
    BY <1>1, <2>1, <2>2, Zenon
<1>4. ASSUME NEW l \in Loops, NEW fn, RunForceCloseInLoop(l, fn)
      PROVE  Leaves(c)
  <2>1. Runs(l, fn) /\ RemoveConnection(fn.c) /\ UNCHANGED loopOf
    BY <1>4, Zenon DEF RunForceCloseInLoop, Close, connVars
  <2>2. fn.c = c /\ RemoveConnectionInLoop(c)
    BY <2>1, Zenon DEF RemoveConnection, RemoveConnectionInLoop
  <2> QED
    BY <1>1, <2>1, <2>2, Zenon
<1>5. CASE DestroyServer
  <2>0. PICK order : /\ \A l \in Loops : order[l] \in Destroying(l)
                     /\ pending' = [l \in Loops |-> IF l = Base THEN pending[l] ELSE pending[l] \o order[l]]
    BY <1>5, Zenon DEF DestroyServer
  <2>1. ~server' /\ UNCHANGED loopOf /\ UNCHANGED batch
    BY <1>5, Zenon DEF DestroyServer
  <2>2. CASE loopOf[c] = Base
    BY <1>0, <2>1, <2>2, Zenon DEF Leaves, PoolOK
  <2>3. CASE loopOf[c] # Base
    <3>1. PICK l \in Loops : l = loopOf[c]
      BY <1>0, Zenon
    <3>0. PICK d \in Destroying(l) : d = order[l]
      BY <2>0, Zenon
    <3>7. /\ d \in Seq(Functors) /\ \A i \in DOMAIN d : d[i].f = "connectDestroyed"
          /\ \E i \in DOMAIN d : d[i].c = c
      BY <3>1, DestroyingOf
    <3>2. PICK b \in Seq(Functors), p \in Seq(Functors), q \in Seq(Functors) :
            b = batch[l] /\ p = pending[l] /\ q = Q(l)
      BY QueueOf, Zenon
    <3>3. b \o (p \o d) = (b \o p) \o d
      BY <3>7, ConcatAssociative, SMTT(60)
    <3>4. Q(l)' = b \o (p \o d)
      BY <2>0, <2>1, <2>3, <3>0, <3>1, <3>2, Zenon DEF Q
    <3>5. Q(l)' = q \o d
      BY <3>2, <3>3, <3>4, Zenon DEF Q
    <3>6. /\ DOMAIN q = 1 .. Len(q) /\ Len(q) \in Nat /\ DOMAIN d = 1 .. Len(d) /\ Len(d) \in Nat
          /\ DOMAIN (q \o d) = 1 .. Len(q) + Len(d)
          /\ \A i \in DOMAIN q : (q \o d)[i] = q[i]
          /\ \A i \in DOMAIN d : (q \o d)[Len(q) + i] = d[i]
          /\ \A i \in DOMAIN (q \o d) : i \in DOMAIN q \/ i - Len(q) \in DOMAIN d
      BY <3>7, ConcatElems, Zenon
    <3>8. PICK i \in DOMAIN d : d[i].f = "connectDestroyed" /\ d[i].c = c
      BY <3>7, Zenon
    <3>9. PICK r : r = q \o d
      BY Zenon
    <3>10. Len(q) + i \in DOMAIN r /\ r[Len(q) + i] = d[i]
      BY <3>6, <3>9
    <3>11. ASSUME NEW j \in DOMAIN r, r[j].f \in RawFunctors
           PROVE  j < Len(q) + i
      <4>1. CASE j \in DOMAIN q
        BY <3>6, <4>1
      <4>2. CASE j - Len(q) \in DOMAIN d
        <5>1. Len(q) + (j - Len(q)) = j
          BY <3>6, <3>9
        <5>2. r[j] = d[j - Len(q)]
          BY <3>6, <3>9, <4>2, <5>1, Zenon
        <5> QED
          BY <3>7, <3>11, <4>2, <5>2, Zenon DEF RawFunctors
      <4> QED
        BY <3>6, <3>9, <4>1, <4>2, Zenon
    <3>12. r = Q(loopOf[c])'
      BY <2>1, <3>1, <3>5, <3>9, SMTT(30)
    <3> QED
      BY <3>8, <3>10, <3>11, <3>12, Zenon DEF Leaves
  <2> QED
    BY <2>2, <2>3, Zenon
<1>6. ASSUME ~(\E d \in Conns : CloseEvent(d)),
             ~(\E l \in Loops : \E fn : RunRemoveConnectionInLoop(l, fn) \/ RunForceCloseInLoop(l, fn)),
             ~DestroyServer
      PROVE  connections_ \subseteq connections_'
  BY <1>6, ZenonT(40) DEF Next, EventNext, UserNext, LoopNext, RunFunctor, AcceptConnection,
     ReadEvent,
         WriteEvent, DelayPasses, LoopSend, LoopShutdown, LoopForceClose,
         LoopForceCloseWithDelay, LoopSetReading, DropPointer, BeginCall, SwapFunctors,
         BatchDone,
         RunConnectEstablished, RunConnectDestroyed, RunRawFunctor, RunUserCallback, PeerSends,
         PeerCloses, StoreState, QueueCall, Joined, Aborted, connVars, vars
<1> QED
  BY <1>2, <1>3, <1>4, <1>5, <1>6, Zenon

LEMMA RawStep ==
    ASSUME TypeInv, RawInv, [Next]_vars
    PROVE  RawInv'
<1> USE DEF TypeInv
<1>1. loops_' = loops_ /\ (server' => server)
  <2>1. server' => server
    BY ZenonT(40) DEF Next, EventNext, UserNext, LoopNext, RunFunctor, AcceptConnection,
       ReadEvent, CloseEvent,
         WriteEvent, DelayPasses, LoopSend, LoopShutdown, LoopForceClose, Close,
         LoopForceCloseWithDelay, LoopSetReading, DropPointer, BeginCall, SwapFunctors,
         BatchDone,
         RunConnectEstablished, RunConnectDestroyed, RunRawFunctor, RunUserCallback, PeerSends,
         RunRemoveConnectionInLoop, RunForceCloseInLoop, DestroyServer,
         PeerCloses, StoreState, QueueCall, Joined, Aborted, connVars, vars
  <2> QED
    BY <2>1, PoolStep, SMTT(30)
<1>2. QView
  BY QueueView, Zenon
<1>3. ASSUME server' \/ loops_ # <<>>, NEW l \in Loops, NEW c \in Made', c \notin connections_'
      PROVE  Behind(Q(l)', c)
  <2>1. CASE c \in Made /\ c \notin connections_
    <3>1. Behind(Q(l), c)
      BY <1>1, <1>3, <2>1, Zenon DEF RawInv
    <3>2. PICK q \in Seq(Functors) : q = Q(l)
      BY QueueOf, Zenon
    <3>3. PICK r : r = Q(l)'
      BY Zenon
    <3>4. Behind(q, c)
      BY <3>1, <3>2, Zenon
    <3>5. CASE r = q
      BY <3>3, <3>4, <3>5, Zenon
    <3>6. CASE r = <<>>
      BY <3>3, <3>6 DEF Behind
    <3>7. CASE q # <<>> /\ r = Tail(q)
      BY <3>3, <3>4, <3>7, BehindTail, Zenon
    <3>8. ASSUME NEW fn \in Functors, Given(l, fn), r = Append(q, fn)
          PROVE  Behind(r, c)
      <4>1. fn.f \in RawFunctors /\ fn.c = c => fn.late
        BY <2>1, <3>8, Zenon DEF Given
      <4> QED
        BY <3>4, <3>8, <4>1, BehindAppend, ZenonT(40)
    <3>9. ASSUME q # <<>>, NEW fn \in Functors, Given(l, fn), r = Append(Tail(q), fn)
          PROVE  Behind(r, c)
      <4>1. fn.f \in RawFunctors /\ fn.c = c => fn.late
        BY <2>1, <3>9, Zenon DEF Given
      <4>2. PICK s \in Seq(Functors) : s = Tail(q)
        BY <3>9, HeadTailProperties, Zenon
      <4>3. Behind(s, c)
        BY <3>4, <3>9, <4>2, BehindTail, Zenon
      <4> QED
        BY <3>9, <4>1, <4>2, <4>3, BehindAppend, Zenon
    <3>10. ASSUME NEW d \in Destroying(l), r = q \o d
           PROVE  Behind(r, c)
      <4>1. d \in Seq(Functors)
        BY DestroyingOf, Zenon
      <4>2. \A i \in DOMAIN d : d[i].f \notin RawFunctors
        BY DestroyingOf, Zenon DEF RawFunctors
      <4> QED
        BY <3>4, <3>10, <4>1, <4>2, BehindConcat, Zenon
    <3>11. QueueChange(l)
      BY <1>2, Zenon DEF QView
    <3> QED
      BY <3>2, <3>3, <3>5, <3>6, <3>7, <3>8, <3>9, <3>10, <3>11, ZenonT(40) DEF QueueChange
  <2>2. CASE c \notin Made
    <3>1. AcceptConnection(c)
      BY <1>3, <2>2, NewIsAccepted, Zenon
    <3> QED
      BY <1>3, <3>1, Zenon DEF AcceptConnection
  <2>3. CASE c \in connections_
    <3>1. Leaves(c) /\ c \in Made
      BY <1>3, <2>3, LeavesStep, Zenon DEF UsersOK
    <3>2. PICK q : q = Q(l)'
      BY Zenon
    <3>3. loopOf'[c] = loopOf[c]
      BY <3>1, PoolStep, Zenon
    <3>4. ASSUME NEW i \in DOMAIN q, q[i].f \in RawFunctors, q[i].c = c
          PROVE  l = loopOf[c]
      <4>1. QueuesOK'
        BY QueuesStep, Zenon
      <4>2. l = loopOf'[c]
        BY <3>2, <3>4, <4>1, ZenonT(40) DEF QueuesOK, RawFunctors
      <4> QED
        BY <3>3, <4>2, Zenon
    <3>5. CASE l = loopOf[c]
      <4>1. PICK i \in DOMAIN q :
              /\ q[i].f = "connectDestroyed" /\ q[i].c = c
              /\ \A j \in DOMAIN q : q[j].f \in RawFunctors => j < i
        <5>1. Q(loopOf[c])' = q
          BY <3>2, <3>3, <3>5, Zenon
        <5> QED
          BY <1>3, <3>1, <5>1, Zenon DEF Leaves
      <4>2. QueuesOK'
        BY QueuesStep, Zenon
      <4>3. DOMAIN q \subseteq Nat
        BY <3>2, <4>2, LenProperties, ConcatProperties, SMTT(30) DEF QueuesOK, Q
      <4>4. Behind(q, c)
        BY <4>1, <4>3, Zenon DEF Behind
      <4> QED
        BY <3>2, <4>4, Zenon
    <3>6. CASE l # loopOf[c]
      <4>1. Behind(q, c)
        BY <3>4, <3>6, Zenon DEF Behind
      <4> QED
        BY <3>2, <4>1, Zenon
    <3> QED
      BY <3>5, <3>6, Zenon
  <2> QED
    BY <2>1, <2>2, <2>3, Zenon
<1> QED
  BY <1>1, <1>3, Zenon DEF RawInv

(* A functor bound to a plain this that was queued while the connection was *)
(* in connections_ runs before the connection goes: the connectDestroyed    *)
(* that is behind it in the queue holds a pointer.  The exception is        *)
(* ~TcpServer of a single-threaded server.                                  *)
THEOREM RawSafe == Spec => []RawFunctorsSafe
<1>1. Init => RawInv
  BY InitTypes, Zenon DEF RawInv
<1>2. TypeInv /\ RawInv /\ [Next]_vars => RawInv'
  BY RawStep, Zenon
<1>3. ASSUME TypeInv, RawInv
      PROVE  RawFunctorsSafe
  <2> SUFFICES ASSUME server \/ loops_ # <<>>, NEW l \in Loops, NEW fn \in Queued(l),
                      fn.f \in RawFunctors, ~fn.late
               PROVE  Referenced(fn.c)
    BY Zenon DEF RawFunctorsSafe
  <2>1. PICK i \in DOMAIN Q(l) : Q(l)[i] = fn
    BY <1>3, QueuedIsQ, Zenon DEF TypeInv
  <2>2. fn.c \in Made
    BY <1>3, <2>1, Zenon DEF TypeInv, QueuesOK
  <2>3. CASE fn.c \in connections_
    BY <2>3, Zenon DEF Referenced
  <2>4. CASE fn.c \notin connections_
    <3>1. Behind(Q(l), fn.c)
      BY <1>3, <2>2, <2>4, Zenon DEF RawInv
    <3>2. PICK j \in DOMAIN Q(l) : Q(l)[j].f = "connectDestroyed" /\ Q(l)[j].c = fn.c
      BY <2>1, <3>1, Zenon DEF Behind
    <3>3. Q(l)[j] \in Queued(l)
      BY <1>3, QueuedIsQ, Zenon DEF TypeInv
    <3> QED
      BY <3>2, <3>3, Zenon DEF Referenced, RawFunctors
  <2> QED
    BY <2>3, <2>4, Zenon
<1> QED
  BY <1>1, <1>2, <1>3, TypesAlways, PTL DEF Spec

-----------------------------------------------------------------------------
(* A connection that waits for its connectEstablished is as it was made.    *)
Fresh(k) == k.callback = "none" /\ k.state_ = kConnecting /\ ~k.polled

LEMMA FreshStep ==
    ASSUME TypeInv, ReadingInv, [Next]_vars, NEW c \in Made, Fresh(conn[c])
    PROVE  \/ Fresh(conn'[c])
           \/ \E l \in Loops : \E fn : RunConnectEstablished(l, fn) /\ fn.c = c
<1>1. PICK k \in Connection(Data) : k = conn[c]
  BY Zenon DEF TypeInv, ConnsOK, Made
<1>2. c \in Conns /\ conn[c] # Absent /\ ~Touched(c)
  BY Zenon DEF Made, ReadingInv, Fresh
<1>3. PICK m : m = conn'[c]
  BY Zenon
<1>4. m = k \/ Step(c, m)
  BY <1>1, <1>2, <1>3, ConnView, Zenon DEF View, ConnChange
<1>5. /\ k.callback = "none" /\ k.state_ = kConnecting /\ ~k.polled
      /\ ~Closable(c)
  BY <1>1, Zenon DEF Fresh, Closable, kConnecting, kConnected, kDisconnecting
<1>6. CASE (\E i \in BOOLEAN : m = [k EXCEPT !.input = i]) \/ \E p \in Peer : m = [k EXCEPT !.peer = p]
  <2>1. m.state_ = k.state_ /\ m.polled = k.polled /\ m.callback = k.callback
    BY <1>6, PeerOf
  <2> QED
    BY <1>3, <1>5, <2>1, Zenon DEF Fresh
<1>7. CASE m = Removed(ConnectDestroyed(k))
  <2>1. ~m.polled /\ (k.state_ # kConnected => m.state_ = k.state_ /\ m.callback = k.callback)
    BY <1>7, DestroyOf, Zenon
  <2> QED
    BY <1>3, <1>5, <2>1, Zenon DEF Fresh, kConnecting, kConnected
<1>8. \/ m = k
      \/ \E i \in BOOLEAN : m = [k EXCEPT !.input = i]
      \/ \E p \in Peer : m = [k EXCEPT !.peer = p]
      \/ m = Removed(ConnectDestroyed(k))
      \/ \E l \in Loops : \E fn : RunConnectEstablished(l, fn) /\ fn.c = c
  BY <1>1, <1>2, <1>4, <1>5, Zenon DEF Step, kConnecting, kConnected
<1> QED
  BY <1>1, <1>3, <1>6, <1>7, <1>8, Zenon

LEMMA DrainStep ==
    ASSUME TypeInv, ReadingInv, DrainInv, NoStore, [Next]_vars
    PROVE  DrainInv'
<1> USE DEF TypeInv
<1>1. QView
  BY QueueView, Zenon
<1>2. ASSUME NEW c \in Made', NEW l \in Loops, NEW r, r = Q(l)', Has(r, "connectEstablished", c)
      PROVE  Fresh(conn'[c]) /\ Once(r, "connectEstablished", c)
  <2> DEFINE ce == "connectEstablished"
  <2>1. PICK q \in Seq(Functors) : q = Q(l)
    BY QueueOf, Zenon
  <2>2. ASSUME Has(q, ce, c) PROVE c \in Made /\ l = loopOf[c]
    <3>1. PICK i \in DOMAIN q : q[i].f = ce /\ q[i].c = c
      BY <2>2, Zenon DEF Has
    <3> QED
      BY <2>1, <3>1, Zenon DEF QueuesOK
  <2>3. Has(q, ce, c) => Fresh(conn[c]) /\ Once(q, ce, c)
    BY <2>1, <2>2, Zenon DEF DrainInv, Fresh
  <2>4. Once(q, ce, c)
    BY <2>3, Zenon DEF Once, Has
  <2>5. ASSUME NEW fn, Given(l, fn), fn.f = ce, fn.c = c
        PROVE  ~Has(q, ce, c) /\ Fresh(conn'[c])
    <3>1. conn[c] = Absent /\ conn'[c] = NewConnection
      BY <2>5, Zenon DEF Given
    <3>2. c \notin Made
      BY <3>1, Zenon DEF Made
    <3> QED
      BY <2>2, <3>1, <3>2, NewOf, Zenon DEF Fresh
  <2>6. CASE \E x \in Loops : \E fn : RunConnectEstablished(x, fn) /\ fn.c = c
    <3>1. PICK x \in Loops : \E fn : RunConnectEstablished(x, fn) /\ fn.c = c
      BY <2>6, Zenon
    <3>2. PICK fn : RunConnectEstablished(x, fn) /\ fn.c = c
      BY <3>1, Zenon
    <3>3. Runs(x, fn) /\ UNCHANGED pending /\ fn.f = ce
      BY <3>2, Zenon DEF RunConnectEstablished
    <3>4. /\ Q(x) # <<>> /\ fn = Head(Q(x)) /\ Q(x)' = Tail(Q(x))
          /\ \A y \in Loops : y # x => Q(y)' = Q(y)
      BY <3>3, RunQ, Zenon
    <3>5. x = loopOf[c]
      BY <3>2, <3>3, RunHead, Zenon
    <3>6. CASE x = l
      <4>1. q # <<>> /\ r = Tail(q) /\ fn = Head(q)
        BY <1>2, <2>1, <3>4, <3>6, Zenon
      <4>2. ~Has(r, ce, c)
        BY <2>4, <3>2, <3>3, <4>1, HasTail, ZenonT(40)
      <4> QED
        BY <1>2, <4>2, Zenon
    <3>7. CASE x # l
      BY <1>2, <2>1, <2>2, <3>4, <3>5, <3>7, Zenon
    <3> QED
      BY <3>6, <3>7, Zenon
  <2>7. CASE ~(\E x \in Loops : \E fn : RunConnectEstablished(x, fn) /\ fn.c = c)
    <3>1. Has(q, ce, c) => Fresh(conn'[c])
      BY <2>2, <2>3, <2>7, FreshStep, Zenon
    <3>2. CASE r = q
      BY <1>2, <2>4, <3>1, <3>2, ZenonT(40)
    <3>3. CASE r = <<>>
      BY <1>2, <3>3 DEF Has
    <3>4. CASE q # <<>> /\ r = Tail(q)
      <4>1. Has(q, ce, c) /\ Once(r, ce, c)
        BY <1>2, <2>4, <3>4, HasTail
      <4> QED
        BY <3>1, <4>1, Zenon
    <3>5. ASSUME NEW s \in Seq(Functors), Has(s, ce, c) => Has(q, ce, c), Once(s, ce, c),
                 NEW fn \in Functors, Given(l, fn), r = Append(s, fn)
          PROVE  Fresh(conn'[c]) /\ Once(r, ce, c)
      <4>1. CASE fn.f = ce /\ fn.c = c
        <5>1. ~Has(s, ce, c) /\ Fresh(conn'[c])
          BY <2>5, <3>5, <4>1, Zenon
        <5>2. Once(r, ce, c)
          BY <3>5, <5>1, HasAppend, Zenon
        <5> QED
          BY <5>1, <5>2, Zenon
      <4>2. CASE ~(fn.f = ce /\ fn.c = c)
        <5>1. Has(s, ce, c) /\ Once(r, ce, c)
          BY <1>2, <3>5, <4>2, HasAppend, SMTT(30)
        <5> QED
          BY <3>1, <3>5, <5>1, Zenon
      <4> QED
        BY <4>1, <4>2, Zenon
    <3>6. CASE \E fn \in Functors : Given(l, fn) /\ r = Append(q, fn)
      BY <2>4, <3>5, <3>6, Zenon
    <3>7. CASE q # <<>> /\ \E fn \in Functors : Given(l, fn) /\ r = Append(Tail(q), fn)
      <4>1. PICK s \in Seq(Functors) : s = Tail(q)
        BY <3>7, HeadTailProperties, Zenon
      <4>2. (Has(s, ce, c) => Has(q, ce, c)) /\ Once(s, ce, c)
        BY <2>4, <3>7, <4>1, HasTail, Zenon
      <4> QED
        BY <3>5, <3>7, <4>1, <4>2, Zenon
    <3>8. CASE \E d \in Destroying(l) : r = q \o d
      <4>0. PICK d \in Destroying(l) : r = q \o d
        BY <3>8, Zenon
      <4>1. d \in Seq(Functors)
        BY DestroyingOf, Zenon
      <4>2. ~Has(d, ce, c)
        BY DestroyingOf, Zenon DEF Has
      <4>3. Has(q, ce, c) /\ Once(r, ce, c)
        BY <1>2, <2>4, <4>0, <4>1, <4>2, HasConcat, SMTT(30)
      <4> QED
        BY <3>1, <4>3, Zenon
    <3>9. QueueChange(l)
      BY <1>1, Zenon DEF QView
    <3> QED
      BY <1>2, <2>1, <3>2, <3>3, <3>4, <3>6, <3>7, <3>8, <3>9, ZenonT(40) DEF QueueChange
  <2> QED
    BY <2>6, <2>7, Zenon
<1>3. \A c \in Made' : Dry(conn'[c])
  BY ConnStep, Zenon
<1>4. ASSUME NEW c \in Made', NEW l \in Loops
      PROVE  Has(Q(l)', "connectEstablished", c) =>
               /\ conn'[c].callback = "none" /\ conn'[c].state_ = kConnecting
               /\ ~conn'[c].polled
               /\ Once(Q(l)', "connectEstablished", c)
  <2>1. PICK r : r = Q(l)'
    BY Zenon
  <2> QED
    BY <1>2, <2>1, Zenon DEF Fresh
<1> QED
  BY <1>3, <1>4, Zenon DEF DrainInv, Dry

(* When no other thread calls shutdown() or forceClose(): the socket is     *)
(* shut down only after the output was written, and output always has the   *)
(* channel waiting for POLLOUT.  A store of kDisconnecting by another       *)
(* thread after handleClose() would make a closed connection look open.     *)
THEOREM Shutdown ==
    ASSUME NoStore
    PROVE  Spec => []ShutdownAfterOutput
<1>1. Init => DrainInv
  BY InitTypes, Zenon DEF DrainInv
<1>2. TypeInv /\ ReadingInv /\ DrainInv /\ [Next]_vars => DrainInv'
  BY DrainStep, Zenon
<1>3. DrainInv => ShutdownAfterOutput
  BY Zenon DEF DrainInv, Drained, ShutdownAfterOutput, isWriting
<1> QED
  BY <1>1, <1>2, <1>3, TypesAlways, ReadingAlways, PTL DEF Spec
=============================================================================
