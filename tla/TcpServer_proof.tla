-------------------------- MODULE TcpServer_proof ---------------------------
(***************************************************************************)
(* What a step of TcpServer makes of the queues of the loops, of the pool  *)
(* and of the users of a connection; with it the types, that bytes are kept *)
(* in order and that a connection that reads is watched, for any number of *)
(* connections, loops, users and messages.                                 *)
(***************************************************************************)
EXTENDS TcpConnection_proof

(* Other threads only call send().                                          *)
OnlySend == ThreadCalls \subseteq {"send"}

(* What is known of a functor that is queued.                               *)
Given(l, fn) ==
    /\ fn.c \in Made'
    /\ IF fn.f = "removeConnectionInLoop" THEN l = Base ELSE l = loopOf'[fn.c]
    /\ fn.f \in RawFunctors =>
          /\ Touched(fn.c) /\ (fn.c \in connections_ \/ fn.late)
          /\ OnlySend => fn.f = "sendInLoop"
    /\ fn.f = "connectEstablished" => conn[fn.c] = Absent /\ conn'[fn.c] = NewConnection

(* The steps of a queue.                                                    *)
QueueChange(l) ==
    \/ Q(l)' = Q(l)
    \/ Q(l)' = <<>>
    \/ Q(l) # <<>> /\ Q(l)' = Tail(Q(l))
    \/ \E fn \in Functors : Given(l, fn) /\ Q(l)' = Append(Q(l), fn)
    \/ Q(l) # <<>> /\ \E fn \in Functors : Given(l, fn) /\ Q(l)' = Append(Tail(Q(l)), fn)
    \/ ~server' /\ l # Base /\ \E d \in Destroying(l) : Q(l)' = Q(l) \o d

-----------------------------------------------------------------------------
LEMMA SameQ ==
    ASSUME UNCHANGED <<batch, pending>>
    PROVE  \A l : Q(l)' = Q(l)
BY Zenon DEF Q

LEMMA PushQ ==
    ASSUME QueuesOK, NEW l \in Loops, NEW fn \in Functors, Push(l, fn), UNCHANGED batch
    PROVE  /\ Q(l)' = Append(Q(l), fn)
           /\ \A x \in Loops : x # l => Q(x)' = Q(x)
           /\ pending' \in [Loops -> Seq(Functors)]
<1>1. batch[l] \in Seq(Functors) /\ pending[l] \in Seq(Functors)
  BY QueueOf, Zenon
<1>2. Append(pending[l], fn) \in Seq(Functors)
  BY <1>1, AppendProperties, Zenon
<1>3. /\ pending' \in [Loops -> Seq(Functors)] /\ pending'[l] = Append(pending[l], fn)
      /\ \A x \in Loops : x # l => pending'[x] = pending[x]
  BY <1>2, Zenon DEF Push, QueuesOK
<1>4. batch[l] \o Append(pending[l], fn) = Append(batch[l] \o pending[l], fn)
  <2>1. PICK b \in Seq(Functors), p \in Seq(Functors) : b = batch[l] /\ p = pending[l]
    BY <1>1, Zenon
  <2>2. b \o Append(p, fn) = Append(b \o p, fn)
    BY AppendQ
  <2> QED
    BY <2>1, <2>2, Zenon
<1>5. Q(l)' = batch[l] \o pending'[l] /\ \A x \in Loops : Q(x)' = batch[x] \o pending'[x]
  BY Zenon DEF Q
<1>6. Q(l)' = Append(Q(l), fn)
  BY <1>3, <1>4, <1>5, Zenon DEF Q
<1> QED
  BY <1>3, <1>5, <1>6, Zenon DEF Q

(* Loop l takes the next functor; its body leaves pending alone.            *)
LEMMA RunQ ==
    ASSUME QueuesOK, NEW l \in Loops, NEW fn, Runs(l, fn), UNCHANGED pending
    PROVE  /\ Q(l) # <<>> /\ fn = Head(Q(l)) /\ fn \in Functors
           /\ Q(l)' = Tail(Q(l))
           /\ \A x \in Loops : x # l => Q(x)' = Q(x)
           /\ batch' \in [Loops -> Seq(Functors)]
<1>1. batch[l] \in Seq(Functors) /\ pending[l] \in Seq(Functors)
  BY QueueOf, Zenon
<1>2. batch[l] # <<>> /\ fn = Head(batch[l]) /\ batch' = [batch EXCEPT ![l] = Tail(@)]
  BY Zenon DEF Runs
<1>3. /\ Tail(batch[l]) \o pending[l] = Tail(batch[l] \o pending[l])
      /\ Head(batch[l] \o pending[l]) = Head(batch[l])
      /\ batch[l] \o pending[l] # <<>>
      /\ Head(batch[l]) \in Functors /\ Tail(batch[l]) \in Seq(Functors)
  BY <1>1, <1>2, TailQ, ZenonT(40)
<1>4. /\ batch' \in [Loops -> Seq(Functors)] /\ batch'[l] = Tail(batch[l])
      /\ \A x \in Loops : x # l => batch'[x] = batch[x]
  BY <1>2, <1>3, Zenon DEF QueuesOK
<1>5. \A x \in Loops : Q(x)' = batch'[x] \o pending[x]
  BY Zenon DEF Q
<1>6. Q(l)' = Tail(Q(l))
  BY <1>3, <1>4, <1>5, Zenon DEF Q
<1> QED
  BY <1>2, <1>3, <1>4, <1>5, <1>6, Zenon DEF Q

(* Loop l takes the next functor, whose body queues g in loop x.            *)
LEMMA RunPushQ ==
    ASSUME QueuesOK, NEW l \in Loops, NEW fn, Runs(l, fn),
           NEW x \in Loops, NEW g \in Functors, Push(x, g)
    PROVE  /\ Q(l) # <<>> /\ fn = Head(Q(l)) /\ fn \in Functors
           /\ x = l => Q(l)' = Append(Tail(Q(l)), g)
           /\ x # l => Q(l)' = Tail(Q(l)) /\ Q(x)' = Append(Q(x), g)
           /\ \A y \in Loops : y # l /\ y # x => Q(y)' = Q(y)
           /\ batch' \in [Loops -> Seq(Functors)] /\ pending' \in [Loops -> Seq(Functors)]
<1>1. batch[l] \in Seq(Functors) /\ pending[l] \in Seq(Functors)
      /\ batch[x] \in Seq(Functors) /\ pending[x] \in Seq(Functors)
  BY QueueOf, Zenon
<1>2. batch[l] # <<>> /\ fn = Head(batch[l]) /\ batch' = [batch EXCEPT ![l] = Tail(@)]
  BY Zenon DEF Runs
<1>3. /\ Tail(batch[l]) \o pending[l] = Tail(batch[l] \o pending[l])
      /\ Head(batch[l] \o pending[l]) = Head(batch[l])
      /\ batch[l] \o pending[l] # <<>>
      /\ Head(batch[l]) \in Functors /\ Tail(batch[l]) \in Seq(Functors)
  BY <1>1, <1>2, TailQ, ZenonT(40)
<1>4. /\ batch' \in [Loops -> Seq(Functors)] /\ batch'[l] = Tail(batch[l])
      /\ \A y \in Loops : y # l => batch'[y] = batch[y]
  BY <1>2, <1>3, Zenon DEF QueuesOK
<1>5. Append(pending[x], g) \in Seq(Functors)
  BY <1>1, AppendProperties, Zenon
<1>6. /\ pending' \in [Loops -> Seq(Functors)] /\ pending'[x] = Append(pending[x], g)
      /\ \A y \in Loops : y # x => pending'[y] = pending[y]
  BY <1>5, Zenon DEF Push, QueuesOK
<1>7. \A y \in Loops : Q(y)' = batch'[y] \o pending'[y]
  BY Zenon DEF Q
<1>8. x = l => Q(l)' = Append(Tail(Q(l)), g)
  <2>1. Tail(batch[l]) \o Append(pending[l], g) = Append(Tail(batch[l]) \o pending[l], g)
    <3>1. PICK b \in Seq(Functors), p \in Seq(Functors) : b = Tail(batch[l]) /\ p = pending[l]
      BY <1>1, <1>3, Zenon
    <3>2. b \o Append(p, g) = Append(b \o p, g)
      BY AppendQ, SMTT(30)
    <3> QED
      BY <3>1, <3>2, Zenon
  <2> QED
    BY <1>3, <1>4, <1>6, <1>7, <2>1, Zenon DEF Q
<1>9. x # l => Q(l)' = Tail(Q(l)) /\ Q(x)' = Append(Q(x), g)
  <2>1. batch[x] \o Append(pending[x], g) = Append(batch[x] \o pending[x], g)
    <3>1. PICK b \in Seq(Functors), p \in Seq(Functors) : b = batch[x] /\ p = pending[x]
      BY <1>1, Zenon
    <3>2. b \o Append(p, g) = Append(b \o p, g)
      BY AppendQ
    <3> QED
      BY <3>1, <3>2, Zenon
  <2> QED
    BY <1>3, <1>4, <1>6, <1>7, <2>1, Zenon DEF Q
<1> QED
  BY <1>2, <1>3, <1>4, <1>6, <1>7, <1>8, <1>9, Zenon DEF Q

-----------------------------------------------------------------------------
(* Every step of the server is a step of each queue.                        *)
QView ==
    /\ \A l \in Loops : QueueChange(l)
    /\ pending' \in [Loops -> Seq(Functors)] /\ batch' \in [Loops -> Seq(Functors)]

LEMMA SameView ==
    ASSUME QueuesOK, UNCHANGED <<batch, pending>>
    PROVE  QView
BY SameQ, Zenon DEF QView, QueueChange, QueuesOK

LEMMA PushView ==
    ASSUME QueuesOK, NEW l \in Loops, NEW fn \in Functors, Push(l, fn), UNCHANGED batch, Given(l, fn)
    PROVE  QView
<1>1. /\ Q(l)' = Append(Q(l), fn)
      /\ \A x \in Loops : x # l => Q(x)' = Q(x)
      /\ pending' \in [Loops -> Seq(Functors)]
  BY PushQ, Zenon
<1>2. batch' \in [Loops -> Seq(Functors)]
  BY Zenon DEF QueuesOK
<1>3. ASSUME NEW x \in Loops
      PROVE  QueueChange(x)
  <2>1. CASE x = l
    BY <1>1, <2>1, Zenon DEF QueueChange
  <2>2. CASE x # l
    BY <1>1, <2>2, Zenon DEF QueueChange
  <2> QED
    BY <2>1, <2>2, Zenon
<1> QED
  BY <1>1, <1>2, <1>3, Zenon DEF QView

LEMMA RunView ==
    ASSUME QueuesOK, NEW l \in Loops, NEW fn, Runs(l, fn), UNCHANGED pending
    PROVE  QView
<1>1. /\ Q(l) # <<>> /\ Q(l)' = Tail(Q(l))
      /\ \A x \in Loops : x # l => Q(x)' = Q(x)
      /\ batch' \in [Loops -> Seq(Functors)]
  BY RunQ, Zenon
<1>2. \A x \in Loops : QueueChange(x)
  BY <1>1, Zenon DEF QueueChange
<1> QED
  BY <1>1, <1>2, Zenon DEF QView, QueuesOK

LEMMA RunPushView ==
    ASSUME QueuesOK, NEW l \in Loops, NEW fn, Runs(l, fn),
           NEW x \in Loops, NEW g \in Functors, Push(x, g), Given(x, g)
    PROVE  QView
<1>1. /\ Q(l) # <<>>
      /\ x = l => Q(l)' = Append(Tail(Q(l)), g)
      /\ x # l => Q(l)' = Tail(Q(l)) /\ Q(x)' = Append(Q(x), g)
      /\ \A y \in Loops : y # l /\ y # x => Q(y)' = Q(y)
      /\ batch' \in [Loops -> Seq(Functors)] /\ pending' \in [Loops -> Seq(Functors)]
  BY RunPushQ
<1>2. QueueChange(l)
  <2>1. CASE x = l
    BY <1>1, <2>1, Zenon DEF QueueChange
  <2>2. CASE x # l
    BY <1>1, <2>2, Zenon DEF QueueChange
  <2> QED
    BY <2>1, <2>2, Zenon
<1>3. x # l => QueueChange(x)
  BY <1>1, Zenon DEF QueueChange
<1>4. \A y \in Loops : y # l /\ y # x => QueueChange(y)
  BY <1>1, Zenon DEF QueueChange
<1> QED
  BY <1>1, <1>2, <1>3, <1>4, Zenon DEF QView

(* The functors that are queued about a connection that exists.             *)
LEMMA GivenOf ==
    ASSUME TypeInv, NEW c \in Made, c \in Made', UNCHANGED loopOf,
           NEW f \in FunctorNames \ {"connectEstablished"}, NEW d \in Data,
           f \in RawFunctors => Touched(c) /\ (OnlySend => f = "sendInLoop"),
           NEW l, l = IF f = "removeConnectionInLoop" THEN Base ELSE loopOf[c]
    PROVE  /\ Functor(f, c, d) \in Functors /\ Given(l, Functor(f, c, d)) /\ l \in Loops
<1>1. c \in Conns
  BY Zenon DEF Made
<1>2. PICK fn \in Functors :
        /\ fn = Functor(f, c, d) /\ fn.f = f /\ fn.c = c /\ (fn.late <=> c \notin connections_)
  BY <1>1, FunctorIn, Zenon
<1>3. loopOf[c] \in Loops /\ Base \in Loops
  BY <1>1, Zenon DEF TypeInv, PoolOK, Loops
<1>4. Given(l, fn)
  BY <1>2, Zenon DEF Given
<1> QED
  BY <1>2, <1>3, <1>4, Zenon

(* The connectDestroyed functors the destructor queues in a loop.           *)
LEMMA DestroyingOf ==
    ASSUME TypeInv, NEW l \in Loops, NEW d \in Destroying(l)
    PROVE  /\ d \in Seq(Functors)
           /\ \A i \in DOMAIN d :
                 d[i].f = "connectDestroyed" /\ d[i].c \in connections_ /\ loopOf[d[i].c] = l
           /\ \A c \in connections_ : loopOf[c] = l => \E i \in DOMAIN d : d[i].c = c
<1> DEFINE C == {e \in connections_ : loopOf[e] = l}
           Of(c) == Functor("connectDestroyed", c, <<>>)
           T == {Of(c) : c \in C}
<1>1. ASSUME NEW c \in C
      PROVE  Of(c) \in Functors /\ Of(c).f = "connectDestroyed" /\ Of(c).c = c
  <2>1. c \in Conns /\ "connectDestroyed" \in FunctorNames /\ <<>> \in Data
    BY InData, Zenon DEF FunctorNames, TypeInv, UsersOK, Made
  <2> QED
    BY <2>1, FunctorIn
<1>2. d \in Seq(T) /\ Range(d) = T
  BY Zenon DEF Destroying
<1>3. T \subseteq Functors
  BY <1>1, Zenon
<1>4. d \in Seq(Functors)
  <2> HIDE DEF T
  <2> QED
    BY <1>2, <1>3, SeqMonotonic, Zenon
<1>5. (\A i \in DOMAIN d : d[i] \in T) /\ \A t \in T : \E i \in DOMAIN d : d[i] = t
  BY <1>2, Zenon DEF Range
<1>6. \A i \in DOMAIN d : d[i].f = "connectDestroyed" /\ d[i].c \in connections_ /\ loopOf[d[i].c] = l
  <2>1. SUFFICES ASSUME NEW i \in DOMAIN d
                 PROVE  d[i].f = "connectDestroyed" /\ d[i].c \in C
    BY Zenon
  <2>2. PICK c \in C : d[i] = Of(c)
    BY <1>5, Zenon
  <2> QED
    BY <1>1, <2>2, Zenon
<1>7. ASSUME NEW c \in connections_, loopOf[c] = l
      PROVE  \E i \in DOMAIN d : d[i].c = c
  <2>1. c \in C
    BY <1>7, Zenon
  <2>2. PICK i \in DOMAIN d : d[i] = Of(c)
    BY <1>5, <2>1, Zenon
  <2> QED
    BY <1>1, <2>1, <2>2, Zenon
<1> QED
  BY <1>4, <1>6, <1>7, Zenon

Pushes == \E l \in Loops : \E fn \in Functors : Push(l, fn) /\ Given(l, fn)

LEMMA RemovePush ==
    ASSUME TypeInv, NEW c \in Made, c \in Made', UNCHANGED loopOf
    PROVE  (RemoveConnectionInLoop(c) \/ RemoveConnection(c)) => Pushes
<1>0. <<>> \in Data
  BY InData, Zenon
<1>1. ASSUME RemoveConnectionInLoop(c)
      PROVE  Pushes
  <2>1. PICK l : l = loopOf[c]
    BY Zenon
  <2>2. PICK fn : fn = Functor("connectDestroyed", c, <<>>)
    BY Zenon
  <2>3. fn \in Functors /\ Given(l, fn) /\ l \in Loops
    <3>1. "connectDestroyed" \in FunctorNames \ {"connectEstablished"} /\ "connectDestroyed" \notin RawFunctors
      BY Zenon DEF FunctorNames, RawFunctors
    <3> QED
      BY <1>0, <2>1, <2>2, <3>1, GivenOf, Zenon
  <2>4. Push(l, fn)
    BY <1>1, <2>1, <2>2, Zenon DEF RemoveConnectionInLoop
  <2> QED
    BY <2>3, <2>4, Zenon DEF Pushes
<1>2. ASSUME RemoveConnection(c), loopOf[c] # Base
      PROVE  Pushes
  <2>1. PICK l : l = Base
    BY Zenon
  <2>2. PICK fn : fn = Functor("removeConnectionInLoop", c, <<>>)
    BY Zenon
  <2>3. fn \in Functors /\ Given(l, fn) /\ l \in Loops
    <3>1. /\ "removeConnectionInLoop" \in FunctorNames \ {"connectEstablished"}
          /\ "removeConnectionInLoop" \notin RawFunctors
      BY Zenon DEF FunctorNames, RawFunctors
    <3> QED
      BY <1>0, <2>1, <2>2, <3>1, GivenOf, Zenon
  <2>4. Push(l, fn)
    BY <1>2, <2>1, <2>2, Zenon DEF RemoveConnection
  <2> QED
    BY <2>3, <2>4, Zenon DEF Pushes
<1> QED
  BY <1>1, <1>2, Zenon DEF RemoveConnection

LEMMA LoopPush ==
    ASSUME TypeInv, NEW c \in Made, c \in Made', UNCHANGED loopOf,
           NEW f \in FunctorNames \ {"connectEstablished", "removeConnectionInLoop"}, NEW d \in Data,
           f \in RawFunctors => Touched(c) /\ (OnlySend => f = "sendInLoop"),
           Push(loopOf[c], Functor(f, c, d))
    PROVE  Pushes
<1>1. PICK l : l = loopOf[c]
  BY Zenon
<1>2. PICK fn : fn = Functor(f, c, d)
  BY Zenon
<1>3. fn \in Functors /\ Given(l, fn) /\ l \in Loops
  BY <1>1, <1>2, GivenOf, Zenon
<1>4. Push(l, fn)
  BY <1>1, <1>2, Zenon
<1> QED
  BY <1>3, <1>4, Zenon DEF Pushes

LEMMA CallbackPush ==
    ASSUME TypeInv, NEW c \in Made, c \in Made', UNCHANGED loopOf, NEW k, QueueCallbacks(c, k)
    PROVE  UNCHANGED pending \/ Pushes
<1>1. <<>> \in Data
  BY InData, Zenon
<1>2. /\ {"writeComplete", "highWaterMark"}
            \subseteq FunctorNames \ {"connectEstablished", "removeConnectionInLoop"}
      /\ {"writeComplete", "highWaterMark"} \cap RawFunctors = {}
  BY Zenon DEF FunctorNames, RawFunctors
<1>3. CASE Push(loopOf[c], Functor("writeComplete", c, <<>>))
  BY <1>1, <1>2, <1>3, LoopPush, Zenon
<1>4. CASE Push(loopOf[c], Functor("highWaterMark", c, <<>>))
  BY <1>1, <1>2, <1>4, LoopPush, Zenon
<1> QED
  BY <1>3, <1>4, Zenon DEF QueueCallbacks

LEMMA PushesView ==
    ASSUME QueuesOK, UNCHANGED pending \/ Pushes
    PROVE  /\ UNCHANGED batch => QView
           /\ \A l \in Loops : \A fn : Runs(l, fn) => QView
<1>1. UNCHANGED batch => QView
  BY SameView, PushView, Zenon DEF Pushes
<1>2. ASSUME NEW l \in Loops, NEW fn, Runs(l, fn)
      PROVE  QView
  BY <1>2, RunView, RunPushView, Zenon DEF Pushes
<1> QED
  BY <1>1, <1>2, Zenon

LEMMA AcceptPush ==
    ASSUME TypeInv, NEW c \in Conns, AcceptConnection(c), NextLoop # Base
    PROVE  /\ NextLoop \in Loops
           /\ \E fn \in Functors : Push(NextLoop, fn) /\ fn.f = "connectEstablished" /\ fn.c = c
<1> USE DEF TypeInv
<1>1. PICK no \in BOOLEAN, b \in BOOLEAN : no = FALSE /\ b = (c \notin connections_)
  BY Zenon
<1>2. PICK fn : fn = [f |-> "connectEstablished", c |-> c, data |-> <<>>, late |-> no]
  BY Zenon
<1>3. fn = [Functor("connectEstablished", c, <<>>) EXCEPT !.late = FALSE]
  <2>1. Functor("connectEstablished", c, <<>>)
          = [f |-> "connectEstablished", c |-> c, data |-> <<>>, late |-> b]
    BY <1>1, Zenon DEF Functor
  <2>2. fn = [Functor("connectEstablished", c, <<>>) EXCEPT !.late = no]
    BY <1>2, <2>1
  <2> QED
    BY <1>1, <2>2, Zenon
<1>4. fn \in Functors /\ fn.f = "connectEstablished" /\ fn.c = c
  <2>1. "connectEstablished" \in FunctorNames /\ <<>> \in Data
    BY InData, Zenon DEF FunctorNames
  <2> QED
    BY <1>2, <2>1, Zenon DEF Functors
<1>5. Push(NextLoop, fn)
  BY <1>3, Zenon DEF AcceptConnection
<1>6. NextLoop \in Loops
  <2>1. loops_ \in Seq(Range(loops_)) /\ loops_ # <<>>
    BY LoopsAssumption, Zenon DEF PoolOK, NextLoop
  <2>2. next_ + 1 \in 1 .. Len(loops_)
    BY <2>1, LenProperties DEF PoolOK
  <2>3. NextLoop \in Range(loops_)
    BY <2>1, <2>2, ElementOfSeq, Zenon DEF NextLoop
  <2> QED
    BY <2>3, Zenon DEF PoolOK, Loops
<1> QED
  BY <1>4, <1>5, <1>6, Zenon

LEMMA QueueView ==
    ASSUME TypeInv, [Next]_vars
    PROVE  QView
<1> USE DEF TypeInv
<1>0. Made \subseteq Made' /\ Made \subseteq Conns
  BY ConnStep, Zenon DEF Made
<1>1. <<>> \in Data
  BY InData, Zenon
<1>2. /\ "forceCloseInLoop" \in FunctorNames \ {"connectEstablished", "removeConnectionInLoop"}
      /\ "forceCloseInLoop" \notin RawFunctors
  BY Zenon DEF FunctorNames, RawFunctors
<1>3. ASSUME NEW c \in Made, ForceClose(c), UNCHANGED loopOf
      PROVE  Pushes
  BY <1>0, <1>1, <1>2, <1>3, LoopPush, Zenon DEF ForceClose
<1>4. ASSUME NEW c \in Conns, AcceptConnection(c)
      PROVE  QView
  <2>1. CASE NextLoop = Base
    BY <1>4, <2>1, SameView, Zenon DEF AcceptConnection, loopVars
  <2>2. CASE NextLoop # Base
    <3>1. PICK l \in Loops : l = NextLoop
      BY <1>4, <2>2, AcceptPush, Zenon
    <3>2. PICK fn \in Functors : Push(l, fn) /\ fn.f = "connectEstablished" /\ fn.c = c
      BY <1>4, <2>2, <3>1, AcceptPush, Zenon
    <3>3. UNCHANGED batch /\ loopOf'[c] = l
      BY <1>4, <3>1, Zenon DEF AcceptConnection, loopVars, PoolOK
    <3>8. conn[c] = Absent /\ conn'[c] = NewConnection
      BY <1>4, <2>2, Zenon DEF AcceptConnection, ConnsOK
    <3>9. c \in Made'
      <4>1. NewConnection # Absent
        BY NewOf, Zenon
      <4> QED
        BY <3>8, <4>1, Zenon DEF Made
    <3>10. "connectEstablished" \notin RawFunctors
      BY Zenon DEF RawFunctors
    <3>11. Given(l, fn)
      BY <3>2, <3>3, <3>8, <3>9, <3>10, Zenon DEF Given
    <3> QED
      BY <3>2, <3>3, <3>11, PushView, Zenon
  <2> QED
    BY <2>1, <2>2, Zenon
<1>5. ASSUME NEW c \in Conns, EventNext(c)
      PROVE  QView
  <2>1. c \in Made /\ UNCHANGED <<loopOf, batch>>
    BY <1>5, Zenon DEF EventNext, ReadEvent, CloseEvent, WriteEvent, DelayPasses, Active,
       UsersOK, Close,
               loopVars
  <2>2. CASE ReadEvent(c)
    BY <2>1, <2>2, SameView, Zenon DEF ReadEvent
  <2>3. CASE CloseEvent(c)
    <3>1. Pushes
      BY <1>0, <2>1, <2>3, RemovePush, Zenon DEF CloseEvent, Close
    <3> QED
      BY <2>1, <3>1, PushesView, Zenon
  <2>4. CASE WriteEvent(c)
    <3>1. UNCHANGED pending \/ Pushes
      BY <1>0, <2>1, <2>4, CallbackPush, Zenon DEF WriteEvent
    <3> QED
      BY <2>1, <3>1, PushesView, Zenon
  <2>5. CASE DelayPasses(c)
    <3>1. UNCHANGED pending \/ Pushes
      BY <1>3, <2>1, <2>5, Zenon DEF DelayPasses
    <3> QED
      BY <2>1, <3>1, PushesView, Zenon
  <2> QED
    BY <1>5, <2>2, <2>3, <2>4, <2>5, Zenon DEF EventNext
<1>6. ASSUME NEW c \in Conns, UserNext(c)
      PROVE  QView
  <2>1. c \in Made /\ UNCHANGED <<loopOf, batch>>
    BY <1>6, Zenon DEF UserNext, LoopSend, LoopShutdown, LoopForceClose,
       LoopForceCloseWithDelay,
                LoopSetReading, DropPointer, BeginCall, InUserCode, UsersOK, loopVars, connVars
  <2>2. CASE LoopSend(c)
    <3>1. UNCHANGED pending \/ Pushes
      BY <1>0, <2>1, <2>2, CallbackPush, Zenon DEF LoopSend
    <3> QED
      BY <2>1, <3>1, PushesView, Zenon
  <2>3. CASE LoopForceClose(c)
    <3>1. Pushes
      BY <1>3, <2>1, <2>3, Zenon DEF LoopForceClose
    <3> QED
      BY <2>1, <3>1, PushesView, Zenon
  <2>4. CASE LoopShutdown(c) \/ LoopForceCloseWithDelay(c) \/ LoopSetReading(c) \/ DropPointer(c)
             \/ \E u \in Users, call \in ThreadCalls : BeginCall(u, c, call)
    <3>1. UNCHANGED pending
      BY <2>4, Zenon DEF LoopShutdown, LoopForceCloseWithDelay, LoopSetReading, DropPointer,
         BeginCall
    <3> QED
      BY <2>1, <3>1, SameView, Zenon
  <2> QED
    BY <1>6, <2>2, <2>3, <2>4, Zenon DEF UserNext
<1>7. ASSUME NEW l \in Loops, RunFunctor(l)
      PROVE  QView
  <2>1. PICK fn : \/ RunConnectEstablished(l, fn) \/ RunConnectDestroyed(l, fn)
                  \/ RunRemoveConnectionInLoop(l, fn) \/ RunForceCloseInLoop(l, fn)
                  \/ RunRawFunctor(l, fn) \/ RunUserCallback(l, fn)
    BY <1>7, Zenon DEF RunFunctor
  <2>2. Runs(l, fn) /\ UNCHANGED loopOf
    BY <2>1, ZenonT(40) DEF RunConnectEstablished, RunConnectDestroyed,
       RunRemoveConnectionInLoop,
                RunForceCloseInLoop, RunRawFunctor, RunUserCallback, connVars, Close
  <2>3. PICK c \in Made : c = fn.c
    BY <2>2, RunHead, Zenon
  <2>4. UNCHANGED pending \/ Pushes
    <3>1. CASE RunRemoveConnectionInLoop(l, fn)
      BY <1>0, <2>2, <2>3, <3>1, RemovePush, Zenon DEF RunRemoveConnectionInLoop
    <3>2. CASE RunForceCloseInLoop(l, fn)
      BY <1>0, <2>2, <2>3, <3>2, RemovePush, Zenon DEF RunForceCloseInLoop, Close
    <3>3. CASE RunRawFunctor(l, fn)
      <4>1. PICK k : IF fn.f = "sendInLoop" THEN QueueCallbacks(c, k) ELSE UNCHANGED pending
        BY <2>3, <3>3, Zenon DEF RunRawFunctor
      <4> QED
        BY <1>0, <2>2, <4>1, CallbackPush, Zenon
    <3>4. CASE RunConnectEstablished(l, fn) \/ RunConnectDestroyed(l, fn) \/ RunUserCallback(l, fn)
      BY <3>4, Zenon DEF RunConnectEstablished, RunConnectDestroyed, RunUserCallback
    <3> QED
      BY <2>1, <3>1, <3>2, <3>3, <3>4, Zenon
  <2> QED
    BY <2>2, <2>4, PushesView, Zenon
<1>8. ASSUME NEW l \in Loops, SwapFunctors(l) \/ BatchDone(l)
      PROVE  QView
  <2>1. batch[l] = <<>> /\ pending[l] \in Seq(Functors)
    BY <1>8, Zenon DEF SwapFunctors, BatchDone, Handling, QueuesOK
  <2>2. <<>> \o pending[l] = pending[l] /\ pending[l] \o <<>> = pending[l]
        /\ <<>> \in Seq(Functors) /\ <<>> \o <<>> = <<>>
    BY <2>1, ConcatEmptySeq, EmptySeq, Zenon
  <2>3. pending' \in [Loops -> Seq(Functors)] /\ batch' \in [Loops -> Seq(Functors)]
    <3>1. CASE SwapFunctors(l)
      BY <2>1, <2>2, <3>1, Zenon DEF SwapFunctors, QueuesOK
    <3>2. CASE BatchDone(l)
      BY <2>2, <3>2, Zenon DEF BatchDone, QueuesOK
    <3> QED
      BY <1>8, <3>1, <3>2, Zenon
  <2>4. \A x \in Loops : x # l => batch'[x] = batch[x] /\ pending'[x] = pending[x]
    BY <1>8 DEF SwapFunctors, BatchDone, QueuesOK
  <2>5. \/ batch'[l] = pending[l] /\ pending'[l] = <<>>
        \/ batch'[l] = <<>> /\ pending'[l] = <<>>
        \/ batch'[l] = <<>> /\ pending'[l] = pending[l]
    BY <1>8, <2>1 DEF SwapFunctors, BatchDone, QueuesOK
  <2>6. \A x \in Loops : Q(x)' = batch'[x] \o pending'[x]
    BY Zenon DEF Q
  <2>7. QueueChange(l)
    <3>1. Q(l) = pending[l]
      BY <2>1, <2>2, Zenon DEF Q
    <3>2. Q(l)' = pending[l] \/ Q(l)' = <<>>
      BY <2>2, <2>5, <2>6, Zenon
    <3> QED
      BY <3>1, <3>2, Zenon DEF QueueChange
  <2>8. \A x \in Loops : x # l => Q(x)' = Q(x)
    BY <2>4, <2>6, Zenon DEF Q
  <2> QED
    BY <2>3, <2>7, <2>8, Zenon DEF QView, QueueChange
<1>9. ASSUME NEW u \in Users, QueueCall(u)
      PROVE  QView
  <2>1. calls[u] # Idle /\ UNCHANGED <<loopOf, batch>>
    BY <1>9, Zenon DEF QueueCall, connVars, loopVars
  <2>2. calls[u].c \in Made /\ calls[u].call \in ThreadCalls
    BY <2>1, Zenon DEF UsersOK
  <2>3. PICK c \in Made : c = calls[u].c
    BY <2>2, Zenon
  <2>4. PICK f : f = FunctorOf(calls[u].call)
    BY Zenon
  <2>5. f \in RawFunctors \cup {"forceCloseInLoop"}
    <3>1. calls[u].call \in {"send", "shutdown", "forceClose", "startRead", "stopRead"}
      BY <2>2, CallsAssumption, ZenonT(40) DEF Calls
    <3>2. /\ FunctorOf("send") = "sendInLoop" /\ FunctorOf("shutdown") = "shutdownInLoop"
          /\ FunctorOf("forceClose") = "forceCloseInLoop"
          /\ FunctorOf("startRead") = "startReadInLoop" /\ FunctorOf("stopRead") = "stopReadInLoop"
      BY Zenon DEF FunctorOf
    <3> QED
      BY <2>4, <3>1, <3>2, Zenon DEF RawFunctors
  <2>6. f \in FunctorNames \ {"connectEstablished", "removeConnectionInLoop"}
    BY <2>5, Zenon DEF FunctorNames, RawFunctors
  <2>7. PICK d \in Data : d = IF calls[u].call = "send" THEN Message ELSE <<>>
    BY <1>1, <1>9, InData, Zenon DEF QueueCall, UsersOK
  <2>8. Push(loopOf[c], Functor(f, c, d))
    BY <1>9, <2>3, <2>4, <2>7, Zenon DEF QueueCall
  <2>9. Touched(c)
    BY <2>1, <2>3, Zenon DEF Touched
  <2>10. OnlySend => f = "sendInLoop"
    <3>1. FunctorOf("send") = "sendInLoop"
      BY Zenon DEF FunctorOf
    <3> QED
      BY <2>2, <2>4, <3>1, Zenon DEF OnlySend
  <2>11. Pushes
    BY <1>0, <2>1, <2>6, <2>8, <2>9, <2>10, LoopPush, Zenon
  <2> QED
    BY <2>1, <2>11, PushesView, Zenon
<1>10. CASE DestroyServer
  <2>0. UNCHANGED batch /\ ~server'
    BY <1>10, Zenon DEF DestroyServer
  <2>1. PICK order : /\ \A l \in Loops : order[l] \in Destroying(l)
                     /\ pending' = [l \in Loops |-> IF l = Base THEN pending[l] ELSE pending[l] \o order[l]]
    BY <1>10, Zenon DEF DestroyServer
  <2>2. ASSUME NEW l \in Loops
        PROVE  /\ QueueChange(l)
               /\ (IF l = Base THEN pending[l] ELSE pending[l] \o order[l]) \in Seq(Functors)
    <3>0. order[l] \in Destroying(l)
      BY <2>1, Zenon
    <3>1. PICK b \in Seq(Functors), p \in Seq(Functors), d \in Seq(Functors) :
            b = batch[l] /\ p = pending[l] /\ d = order[l]
      BY <3>0, DestroyingOf, QueueOf, Zenon
    <3>2. b \o (p \o d) = (b \o p) \o d
      BY ConcatAssociative, SMTT(60)
    <3>3. p \o d \in Seq(Functors)
      BY ConcatProperties, Zenon
    <3>4. Q(l)' = batch[l] \o pending'[l]
      BY <2>0, Zenon DEF Q
    <3>5. CASE l = Base
      BY <2>1, <3>1, <3>4, <3>5, Zenon DEF QueueChange, Q
    <3>6. CASE l # Base
      <4>1. Q(l)' = b \o (p \o d)
        BY <2>1, <3>1, <3>4, <3>6, Zenon
      <4>2. Q(l)' = Q(l) \o order[l]
        BY <3>1, <3>2, <4>1, Zenon DEF Q
      <4> QED
        BY <2>0, <3>0, <3>1, <3>3, <3>6, <4>2, Zenon DEF QueueChange
    <3> QED
      BY <3>5, <3>6, Zenon
  <2>3. pending' \in [Loops -> Seq(Functors)]
    BY <2>1, <2>2, Zenon
  <2> QED
    BY <2>0, <2>2, <2>3, Zenon DEF QView, QueuesOK
<1>11. ASSUME \/ \E c \in Conns : PeerSends(c) \/ PeerCloses(c)
              \/ \E u \in Users : StoreState(u)
              \/ Joined \/ Aborted \/ UNCHANGED vars
       PROVE  QView
  <2>1. UNCHANGED <<batch, pending>>
    BY <1>11, Zenon DEF PeerSends, PeerCloses, StoreState, Joined, Aborted, vars, loopVars
  <2> QED
    BY <2>1, SameView, Zenon
<1> QED
  BY <1>4, <1>5, <1>6, <1>7, <1>8, <1>9, <1>10, <1>11, Zenon DEF Next, LoopNext

-----------------------------------------------------------------------------
(* The type invariant.                                                      *)
LEMMA NewIsAccepted ==
    ASSUME TypeInv, [Next]_vars, NEW c \in Made', c \notin Made
    PROVE  AcceptConnection(c)
<1>1. c \in Conns /\ conn'[c] # conn[c] /\ ConnChange(c)
  BY ConnView, Zenon DEF Made, View
<1>2. Step(c, conn'[c])
  BY <1>1, Zenon DEF ConnChange
<1> QED
  BY <1>2, Zenon DEF Step

LEMMA PoolStep ==
    ASSUME TypeInv, [Next]_vars
    PROVE  PoolOK' /\ loops_' = loops_ /\ \A c \in Made : loopOf'[c] = loopOf[c]
<1> USE DEF TypeInv
<1>1. ASSUME NEW c \in Conns, AcceptConnection(c)
      PROVE  PoolOK' /\ loops_' = loops_ /\ \A d \in Made : loopOf'[d] = loopOf[d]
  <2>1. /\ conn[c] = Absent /\ loopOf' = [loopOf EXCEPT ![c] = NextLoop]
        /\ next_' = AfterNext /\ UNCHANGED <<loops_, server, phase, quit>>
    BY <1>1, Zenon DEF AcceptConnection, loopVars
  <2>2. loops_ \in Seq(Range(loops_)) /\ Len(loops_) \in Nat /\ Base \notin Range(loops_)
    BY LoopsAssumption, LenProperties, Zenon DEF PoolOK
  <2>3. /\ NextLoop \in Loops
        /\ NextLoop = Base <=> loops_ = <<>>
    <3>1. CASE loops_ = <<>>
      BY <3>1, Zenon DEF NextLoop, Loops
    <3>2. CASE loops_ # <<>>
      <4>1. next_ + 1 \in 1 .. Len(loops_)
        BY <2>2, <3>2 DEF PoolOK
      <4>2. NextLoop \in Range(loops_)
        BY <2>2, <3>2, <4>1, ElementOfSeq, Zenon DEF NextLoop
      <4> QED
        BY <2>2, <3>2, <4>2, Zenon DEF PoolOK, Loops
    <3> QED
      BY <3>1, <3>2, Zenon
  <2>4. next_' \in Nat /\ (loops_ = <<>> => next_' = 0) /\ (loops_ # <<>> => next_' < Len(loops_))
    <3>1. loops_ = <<>> => Len(loops_) = 0
      OBVIOUS
    <3>2. loops_ # <<>> => Len(loops_) > 0
      BY <2>2, EmptySeq
    <3> QED
      BY <2>1, <2>2, <3>1, <3>2 DEF PoolOK, AfterNext
  <2>5. \A d \in Conns : d # c => loopOf'[d] = loopOf[d] /\ conn'[d] = conn[d]
    BY <1>1, <2>1, Zenon DEF PoolOK, ConnsOK, AcceptConnection
  <2>6. loopOf' \in [Conns -> Loops] /\ loopOf'[c] = NextLoop
    BY <2>1, <2>3, Zenon DEF PoolOK
  <2>7. \A d \in Made' : loopOf'[d] = Base <=> loops_ = <<>>
    BY <2>3, <2>5, <2>6, Zenon DEF PoolOK, Made
  <2>8. \A d \in Made : loopOf'[d] = loopOf[d]
    BY <2>1, <2>5, Zenon DEF Made
  <2> QED
    BY <2>1, <2>4, <2>6, <2>7, <2>8, Zenon DEF PoolOK
<1>2. ASSUME ~ \E c \in Conns : AcceptConnection(c)
      PROVE  PoolOK' /\ loops_' = loops_ /\ \A d \in Made : loopOf'[d] = loopOf[d]
  <2>1. Made' = Made
    BY <1>2, ConnStep, NewIsAccepted, Zenon DEF Made
  <2>2. UNCHANGED <<loopOf, loops_, next_>>
    BY <1>2, ZenonT(40) DEF Next, EventNext, UserNext, LoopNext, RunFunctor, ReadEvent,
       CloseEvent, WriteEvent,
       DelayPasses, Close, LoopSend, LoopShutdown, LoopForceClose, LoopForceCloseWithDelay,
       LoopSetReading, DropPointer, BeginCall, SwapFunctors, BatchDone, RunConnectEstablished,
       RunConnectDestroyed, RunRemoveConnectionInLoop, RunForceCloseInLoop, RunRawFunctor,
       RunUserCallback, PeerSends, PeerCloses, StoreState, QueueCall, DestroyServer, Joined,
       Aborted,
       connVars, vars
  <2>3. CASE \E l \in Loops : SwapFunctors(l) \/ BatchDone(l)
    <3>1. PICK l \in Loops : SwapFunctors(l) \/ BatchDone(l)
      BY <2>3, Zenon
    <3>2. phase' \in [Loops -> {"events", "functors", "joining", "stopped"}]
      BY <3>1, Zenon DEF SwapFunctors, BatchDone, PoolOK
    <3>3. UNCHANGED <<server, quit>>
      BY <3>1, Zenon DEF SwapFunctors, BatchDone, connVars
    <3> QED
      BY <2>1, <2>2, <3>2, <3>3, Zenon DEF PoolOK
  <2>4. CASE DestroyServer
    <3>1. phase' \in [Loops -> {"events", "functors", "joining", "stopped"}]
      BY <2>4, Zenon DEF DestroyServer, PoolOK
    <3>2. quit' \in [Loops -> BOOLEAN] /\ server' \in BOOLEAN
      BY <2>4, Zenon DEF DestroyServer
    <3> QED
      BY <2>1, <2>2, <3>1, <3>2, Zenon DEF PoolOK
  <2>5. CASE Joined
    <3>1. phase' \in [Loops -> {"events", "functors", "joining", "stopped"}]
      BY <2>5, Zenon DEF Joined, PoolOK
    <3>2. UNCHANGED <<server, quit>>
      BY <2>5, Zenon DEF Joined, connVars
    <3> QED
      BY <2>1, <2>2, <3>1, <3>2, Zenon DEF PoolOK
  <2>6. CASE ~ \/ \E l \in Loops : SwapFunctors(l) \/ BatchDone(l)
               \/ DestroyServer \/ Joined
    <3>1. UNCHANGED <<server, phase, quit>>
      BY <1>2, <2>6, ZenonT(40) DEF Next, EventNext, UserNext, LoopNext, RunFunctor, ReadEvent,
         CloseEvent,
         WriteEvent, DelayPasses, Close, LoopSend, LoopShutdown, LoopForceClose,
         LoopForceCloseWithDelay, LoopSetReading, DropPointer, BeginCall, RunConnectEstablished,
         RunConnectDestroyed, RunRemoveConnectionInLoop, RunForceCloseInLoop, RunRawFunctor,
         RunUserCallback, PeerSends, PeerCloses, StoreState, QueueCall, Aborted, Runs,
         connVars, loopVars, vars
    <3> QED
      BY <2>1, <2>2, <3>1, Zenon DEF PoolOK
  <2> QED
    BY <2>3, <2>4, <2>5, <2>6, Zenon
<1> QED
  BY <1>1, <1>2, Zenon

LEMMA UsersStep ==
    ASSUME TypeInv, [Next]_vars
    PROVE  UsersOK'
<1> USE DEF TypeInv
<1>0. Made \subseteq Made' /\ Made \subseteq Conns
  BY ConnStep, Zenon DEF Made
<1>1. ASSUME NEW c \in Conns, AcceptConnection(c)
      PROVE  UsersOK'
  <2>1. c \in Made'
    <3>1. PICK m \in {NewConnection, ConnectEstablished(NewConnection)} : conn'[c] = m
      BY <1>1, Zenon DEF AcceptConnection, ConnsOK
    <3>2. m \in Connection(Data)
      <4>1. PICK k \in Connection(Data) : k = NewConnection
        BY NewOf, Zenon
      <4>2. ConnectEstablished(k) \in Connection(Data)
        BY EstablishOf, Zenon
      <4> QED
        BY <4>1, <4>2, Zenon
    <3> QED
      BY <3>1, <3>2, NewOf, Zenon DEF Made
  <2>2. connections_' = connections_ \cup {c} /\ held' \subseteq held \cup {c}
    BY <1>1, Zenon DEF AcceptConnection
  <2>3. UNCHANGED <<timers, calls, sends>>
    BY <1>1, Zenon DEF AcceptConnection
  <2>5. connections_' \subseteq Made' /\ held' \subseteq Made' /\ timers' \subseteq Made'
    BY <1>0, <2>1, <2>2, <2>3, Zenon DEF UsersOK
  <2>6. DOMAIN calls' = Users /\ sends' \in 0 .. MaxSends
        /\ \A u \in Users : calls'[u] = Idle \/ (calls'[u].call \in ThreadCalls /\ calls'[u].c \in Made')
    BY <1>0, <2>3, Zenon DEF UsersOK
  <2> QED
    BY <2>5, <2>6, Zenon DEF UsersOK
<1>2. ASSUME connections_' \subseteq connections_, held' \subseteq Made, timers' \subseteq Made,
             sends' \in 0 .. MaxSends, DOMAIN calls' = Users,
             \A u \in Users : calls'[u] = Idle \/ (calls'[u].call \in ThreadCalls /\ calls'[u].c \in Made)
      PROVE  UsersOK'
  <2>2. connections_' \subseteq Made' /\ held' \subseteq Made' /\ timers' \subseteq Made'
    BY <1>0, <1>2, Zenon DEF UsersOK
  <2>3. \A u \in Users : calls'[u] = Idle \/ (calls'[u].call \in ThreadCalls /\ calls'[u].c \in Made')
    BY <1>0, <1>2, Zenon
  <2> QED
    BY <1>2, <2>2, <2>3, Zenon DEF UsersOK
<1>3. ASSUME connections_' \subseteq connections_, UNCHANGED userVars
      PROVE  UsersOK'
  BY <1>2, <1>3, Zenon DEF UsersOK, userVars
<1>4. ASSUME NEW c \in Conns, EventNext(c)
      PROVE  UsersOK'
  <2>1. connections_' \subseteq connections_
    BY <1>4, Zenon DEF EventNext, ReadEvent, CloseEvent, WriteEvent, DelayPasses, Close,
       RemoveConnection,
                RemoveConnectionInLoop
  <2>2. UNCHANGED <<held, calls, sends>> /\ timers' \subseteq timers
    BY <1>4, Zenon DEF EventNext, ReadEvent, CloseEvent, WriteEvent, DelayPasses, userVars
  <2> QED
    BY <1>2, <2>1, <2>2, Zenon DEF UsersOK
<1>5. ASSUME NEW c \in Conns, UserNext(c)
      PROVE  UsersOK'
  <2>1. connections_' = connections_ /\ held' \subseteq held /\ c \in Made
    BY <1>5, Zenon DEF UserNext, LoopSend, LoopShutdown, LoopForceClose,
       LoopForceCloseWithDelay,
                LoopSetReading, DropPointer, BeginCall, userVars, connVars, InUserCode, UsersOK
  <2>2. timers' \subseteq timers \cup {c}
    BY <1>5, Zenon DEF UserNext, LoopSend, LoopShutdown, LoopForceClose,
       LoopForceCloseWithDelay,
                LoopSetReading, DropPointer, BeginCall, userVars
  <2>3. CASE LoopSend(c)
    <3>1. sends + 1 \in 0 .. MaxSends
      BY <2>3, InData, Zenon DEF LoopSend, UsersOK
    <3>2. sends' = sends + 1 /\ UNCHANGED calls
      BY <2>3, Zenon DEF LoopSend
    <3> QED
      BY <1>2, <2>1, <2>2, <3>1, <3>2, Zenon DEF UsersOK
  <2>4. CASE \E u \in Users, call \in ThreadCalls : BeginCall(u, c, call)
    <3>1. PICK u \in Users, call \in ThreadCalls : BeginCall(u, c, call)
      BY <2>4, Zenon
    <3>2. calls' = [calls EXCEPT ![u] = [call |-> call, c |-> c]] /\ UNCHANGED sends
      BY <3>1, Zenon DEF BeginCall
    <3>3. /\ DOMAIN calls' = Users /\ calls'[u] = [call |-> call, c |-> c]
          /\ \A v \in Users : v # u => calls'[v] = calls[v]
      BY <3>2, Zenon DEF UsersOK
    <3>4. calls'[u].call \in ThreadCalls /\ calls'[u].c \in Made
      BY <2>1, <3>3
    <3>5. \A v \in Users : calls'[v] = Idle \/ (calls'[v].call \in ThreadCalls /\ calls'[v].c \in Made)
      BY <3>3, <3>4, Zenon DEF UsersOK
    <3> QED
      BY <1>2, <2>1, <2>2, <3>2, <3>3, <3>5, Zenon DEF UsersOK
  <2>5. CASE ~LoopSend(c) /\ ~(\E u \in Users, call \in ThreadCalls : BeginCall(u, c, call))
    <3>1. UNCHANGED <<sends, calls>>
      BY <1>5, <2>5, Zenon DEF UserNext, LoopShutdown, LoopForceClose, LoopForceCloseWithDelay,
                LoopSetReading, DropPointer, userVars
    <3> QED
      BY <1>2, <2>1, <2>2, <3>1, Zenon DEF UsersOK
  <2> QED
    BY <2>3, <2>4, <2>5, Zenon
<1>6. ASSUME NEW l \in Loops, RunFunctor(l)
      PROVE  UsersOK'
  <2>1. PICK fn : \/ RunConnectEstablished(l, fn) \/ RunConnectDestroyed(l, fn)
                  \/ RunRemoveConnectionInLoop(l, fn) \/ RunForceCloseInLoop(l, fn)
                  \/ RunRawFunctor(l, fn) \/ RunUserCallback(l, fn)
    BY <1>6, Zenon DEF RunFunctor
  <2>2. Runs(l, fn)
    BY <2>1, Zenon DEF RunConnectEstablished, RunConnectDestroyed, RunRemoveConnectionInLoop,
                RunForceCloseInLoop, RunRawFunctor, RunUserCallback
  <2>3. fn.c \in Made
    BY <2>2, RunHead, Zenon
  <2>4. connections_' \subseteq connections_
    BY <2>1, ZenonT(40) DEF RunConnectEstablished, RunConnectDestroyed,
       RunRemoveConnectionInLoop,
                RunForceCloseInLoop, RunRawFunctor, RunUserCallback, connVars, Close,
                RemoveConnection, RemoveConnectionInLoop
  <2>5. CASE RunConnectEstablished(l, fn)
    BY <1>2, <2>3, <2>4, <2>5, Zenon DEF RunConnectEstablished, Establish, UsersOK
  <2>6. CASE ~RunConnectEstablished(l, fn)
    <3>1. UNCHANGED userVars
      BY <2>1, <2>6, Zenon DEF RunConnectDestroyed, RunRemoveConnectionInLoop,
                RunForceCloseInLoop, RunRawFunctor, RunUserCallback
    <3> QED
      BY <1>3, <2>4, <3>1, Zenon
  <2> QED
    BY <2>5, <2>6, Zenon
<1>7. ASSUME NEW u \in Users, StoreState(u)
      PROVE  UsersOK'
  <2>1. PICK v : v = [call |-> calls[u].call, c |-> calls[u].c, stored |-> TRUE]
    BY ZenonT(40)
  <2>2. calls[u] # Idle /\ calls' = [calls EXCEPT ![u] = v]
        /\ UNCHANGED <<connections_, held, timers, sends>>
    BY <1>7, <2>1, Zenon DEF StoreState
  <2>3. v.call = calls[u].call /\ v.c = calls[u].c
    BY <2>1, Zenon
  <2>4. \A w \in Users : calls'[w] = Idle \/ (calls'[w].call \in ThreadCalls /\ calls'[w].c \in Made)
    BY <2>2, <2>3, Zenon DEF UsersOK
  <2>5. DOMAIN calls' = Users
    BY <2>2, Zenon DEF UsersOK
  <2> QED
    BY <1>2, <2>2, <2>4, <2>5, Zenon DEF UsersOK
<1>8. ASSUME NEW u \in Users, QueueCall(u)
      PROVE  UsersOK'
  <2>1. calls' = [calls EXCEPT ![u] = Idle] /\ UNCHANGED <<connections_, held, timers>>
    BY <1>8, Zenon DEF QueueCall, connVars
  <2>2. sends' \in 0 .. MaxSends
    BY <1>8, InData, Zenon DEF QueueCall, UsersOK
  <2> QED
    BY <1>2, <2>1, <2>2, Zenon DEF UsersOK
<1>9. ASSUME \/ \E c \in Conns : PeerSends(c) \/ PeerCloses(c)
             \/ \E l \in Loops : SwapFunctors(l) \/ BatchDone(l)
             \/ DestroyServer \/ Joined \/ Aborted \/ UNCHANGED vars
      PROVE  UsersOK'
  <2>1. connections_' \subseteq connections_ /\ UNCHANGED userVars
    BY <1>9, Zenon DEF PeerSends, PeerCloses, SwapFunctors, BatchDone, DestroyServer, Joined,
       Aborted, vars,
                connVars, userVars
  <2> QED
    BY <1>3, <2>1, Zenon
<1> QED
  BY <1>1, <1>4, <1>5, <1>6, <1>7, <1>8, <1>9, Zenon DEF Next, LoopNext

LEMMA Elements ==
    ASSUME TypeInv, QView, NEW l \in Loops, NEW r, r = Q(l)', NEW i \in DOMAIN r
    PROVE  \/ \E j \in DOMAIN Q(l) : r[i] = Q(l)[j]
           \/ Given(l, r[i])
           \/ /\ ~server'
              /\ r[i].f = "connectDestroyed" /\ r[i].c \in connections_ /\ loopOf[r[i].c] = l
<1>1. QueueChange(l)
  BY Zenon DEF QView
<1>2. PICK q \in Seq(Functors) : q = Q(l)
  BY QueueOf, Zenon DEF TypeInv
<1>4. CASE r = q
  BY <1>2, <1>4, Zenon
<1>5. CASE r = <<>>
  BY <1>5
<1>6. CASE q # <<>> /\ r = Tail(q)
  BY <1>2, <1>6, TailElems
<1>7. ASSUME NEW fn \in Functors, Given(l, fn), r = Append(q, fn)
      PROVE  (\E j \in DOMAIN q : r[i] = q[j]) \/ Given(l, r[i])
  <2>1. /\ DOMAIN q = 1 .. Len(q) /\ Len(q) \in Nat
        /\ DOMAIN r = 1 .. Len(q) + 1
        /\ \A j \in DOMAIN q : r[j] = q[j]
        /\ r[Len(q) + 1] = fn
    BY <1>7, AppendElems
  <2> QED
    BY <1>7, <2>1
<1>8. ASSUME NEW fn \in Functors, Given(l, fn), q # <<>>, r = Append(Tail(q), fn)
      PROVE  (\E j \in DOMAIN q : r[i] = q[j]) \/ Given(l, r[i])
  <2>0. PICK s \in Seq(Functors) : s = Tail(q)
    BY <1>8, HeadTailProperties, Zenon
  <2>1. /\ DOMAIN s = 1 .. Len(s) /\ Len(s) \in Nat
        /\ DOMAIN r = 1 .. Len(s) + 1
        /\ \A j \in DOMAIN s : r[j] = s[j]
        /\ r[Len(s) + 1] = fn
    BY <1>8, <2>0, AppendElems
  <2>2. \A j \in DOMAIN s : j + 1 \in DOMAIN q /\ s[j] = q[j + 1]
    BY <1>8, <2>0, TailElems, Zenon
  <2> QED
    BY <1>8, <2>1, <2>2
<1>9. ASSUME ~server', NEW d \in Destroying(l), r = q \o d
      PROVE  \/ \E j \in DOMAIN q : r[i] = q[j]
             \/ r[i].f = "connectDestroyed" /\ r[i].c \in connections_ /\ loopOf[r[i].c] = l
  <2>0. /\ d \in Seq(Functors)
        /\ \A j \in DOMAIN d :
              d[j].f = "connectDestroyed" /\ d[j].c \in connections_ /\ loopOf[d[j].c] = l
    BY DestroyingOf, Zenon
  <2>1. /\ DOMAIN q = 1 .. Len(q) /\ Len(q) \in Nat /\ DOMAIN d = 1 .. Len(d) /\ Len(d) \in Nat
        /\ \A j \in DOMAIN q : (q \o d)[j] = q[j]
        /\ \A j \in DOMAIN d : (q \o d)[Len(q) + j] = d[j]
        /\ DOMAIN (q \o d) = 1 .. Len(q) + Len(d)
        /\ \A j \in DOMAIN (q \o d) : j \in DOMAIN q \/ j - Len(q) \in DOMAIN d
    BY <2>0, ConcatElems
  <2>2. r = q \o d /\ i \in DOMAIN r
    BY <1>9, Zenon
  <2>3. CASE i \in DOMAIN q
    BY <2>1, <2>2, <2>3, Zenon
  <2>4. CASE i - Len(q) \in DOMAIN d
    <3>1. i \in Nat /\ Len(q) + (i - Len(q)) = i
      BY <2>1, <2>2
    <3> QED
      BY <2>0, <2>1, <2>2, <2>4, <3>1
  <2> QED
    BY <2>1, <2>2, <2>3, <2>4, Zenon
<1> QED
  BY <1>1, <1>2, <1>4, <1>5, <1>6, <1>7, <1>8, <1>9, Zenon DEF QueueChange

LEMMA QueuesStep ==
    ASSUME TypeInv, [Next]_vars
    PROVE  QueuesOK'
<1> USE DEF TypeInv
<1>0. Made \subseteq Made' /\ \A c \in Made : loopOf'[c] = loopOf[c]
  BY ConnStep, PoolStep, Zenon
<1>1. QView
  BY QueueView, Zenon
<1>2. ASSUME NEW l \in Loops, NEW i \in DOMAIN Q(l)'
      PROVE  /\ Q(l)'[i].c \in Made'
             /\ IF Q(l)'[i].f = "removeConnectionInLoop" THEN l = Base ELSE l = loopOf'[Q(l)'[i].c]
  <2>1. PICK fn : fn = Q(l)'[i]
    BY Zenon
  <2>2. CASE \E j \in DOMAIN Q(l) : fn = Q(l)[j]
    <3>1. PICK j \in DOMAIN Q(l) : fn = Q(l)[j]
      BY <2>2, Zenon
    <3>2. fn.c \in Made /\ IF fn.f = "removeConnectionInLoop" THEN l = Base ELSE l = loopOf[fn.c]
      BY <3>1, Zenon DEF QueuesOK
    <3> QED
      BY <1>0, <2>1, <3>2, Zenon
  <2>3. CASE Given(l, fn)
    BY <2>1, <2>3, Zenon DEF Given
  <2>4. CASE fn.f = "connectDestroyed" /\ fn.c \in connections_ /\ loopOf[fn.c] = l
    <3>1. fn.c \in Made
      BY <2>4, Zenon DEF UsersOK
    <3> QED
      BY <1>0, <2>1, <2>4, <3>1, Zenon
  <2>5. \/ \E j \in DOMAIN Q(l) : fn = Q(l)[j]
        \/ Given(l, fn)
        \/ fn.f = "connectDestroyed" /\ fn.c \in connections_ /\ loopOf[fn.c] = l
    <3>1. PICK r : r = Q(l)'
      BY Zenon
    <3> QED
      BY <1>1, <2>1, <3>1, Elements
  <2> QED
    BY <2>2, <2>3, <2>4, <2>5, Zenon
<1>3. /\ DOMAIN spent' = Loops /\ \A l \in Loops : spent'[l] \subseteq Made
      /\ \A l \in Loops : phase'[l] # "functors" => batch'[l] = <<>>
  <2>1. CASE \E l \in Loops : RunFunctor(l)
    <3>0. PICK l \in Loops : \E fn : Runs(l, fn)
      BY <2>1, Zenon DEF RunFunctor, RunConnectEstablished, RunConnectDestroyed,
         RunRemoveConnectionInLoop,
                  RunForceCloseInLoop, RunRawFunctor, RunUserCallback
    <3>1. PICK fn : Runs(l, fn)
      BY <3>0, Zenon
    <3>2. fn.c \in Made
      BY <3>1, RunHead, Zenon
    <3>3. DOMAIN spent' = Loops /\ \A x \in Loops : spent'[x] \subseteq Made
      BY <3>1, <3>2, Zenon DEF Runs, QueuesOK
    <3>4. phase' = phase /\ phase[l] = "functors" /\ \A x \in Loops : x # l => batch'[x] = batch[x]
      BY <3>1, Zenon DEF Runs, QueuesOK
    <3> QED
      BY <3>3, <3>4, Zenon DEF QueuesOK
  <2>2. ASSUME NEW l \in Loops, SwapFunctors(l) \/ BatchDone(l)
        PROVE  /\ DOMAIN spent' = Loops /\ \A x \in Loops : spent'[x] \subseteq Made
               /\ \A x \in Loops : phase'[x] # "functors" => batch'[x] = <<>>
    <3>1. DOMAIN spent' = Loops /\ \A x \in Loops : spent'[x] \subseteq Made
      BY <2>2, Zenon DEF SwapFunctors, BatchDone, QueuesOK
    <3>2. \A x \in Loops : phase'[x] # "functors" => batch'[x] = <<>>
      BY <2>2, Zenon DEF SwapFunctors, BatchDone, QueuesOK, PoolOK
    <3> QED
      BY <3>1, <3>2, Zenon
  <2>3. CASE DestroyServer \/ Joined
    BY <2>3, Zenon DEF DestroyServer, Joined, QueuesOK, PoolOK, Handling
  <2>4. ASSUME ~ \E l \in Loops : LoopNext(l), ~DestroyServer, ~Joined
        PROVE  /\ DOMAIN spent' = Loops /\ \A l \in Loops : spent'[l] \subseteq Made
               /\ \A l \in Loops : phase'[l] # "functors" => batch'[l] = <<>>
    <3>1. UNCHANGED loopVars
      BY <2>4, ZenonT(40) DEF Next, EventNext, UserNext, AcceptConnection, ReadEvent,
         CloseEvent,
         WriteEvent, DelayPasses, LoopSend, LoopShutdown, LoopForceClose,
         LoopForceCloseWithDelay, LoopSetReading, DropPointer, BeginCall,
         PeerSends, PeerCloses, StoreState, QueueCall, Aborted, vars
    <3> QED
      BY <3>1, Zenon DEF loopVars, QueuesOK
  <2> QED
    BY <2>1, <2>2, <2>3, <2>4, Zenon DEF LoopNext
<1> QED
  BY <1>0, <1>1, <1>2, <1>3, Zenon DEF QueuesOK, QView

LEMMA TypeStep ==
    ASSUME TypeInv, [Next]_vars
    PROVE  TypeInv'
BY ConnStep, PoolStep, UsersStep, QueuesStep, Zenon DEF TypeInv

LEMMA InitTypes ==
    ASSUME Init
    PROVE  /\ TypeInv /\ Made = {} /\ \A l \in Loops : Q(l) = <<>>
           /\ server /\ \A l \in Loops : ~quit[l]
<1>1. Made = {}
  BY Zenon DEF Init, Made
<1>2. ConnsOK
  BY Zenon DEF Init, ConnsOK
<1>3. Base \in Loops
  BY Zenon DEF Loops
<1>4. PoolOK
  <2>1. loops_ \in Seq(Range(loops_))
    BY LoopsAssumption, Zenon DEF Init
  <2>2. loops_ # <<>> => 0 < Len(loops_)
    BY <2>1, EmptySeq
  <2>3. phase \in [Loops -> {"events", "functors", "joining", "stopped"}]
    BY Zenon DEF Init
  <2>4. quit \in [Loops -> BOOLEAN] /\ server \in BOOLEAN
    BY Zenon DEF Init
  <2>5. loopOf \in [Conns -> Loops] /\ loops_ \in Pools /\ next_ = 0
    BY <1>3, Zenon DEF Init
  <2> QED
    BY <1>1, <2>2, <2>3, <2>4, <2>5, Zenon DEF PoolOK
<1>5. UsersOK
  <2>1. 0 \in 0 .. MaxSends
    BY SizesAssumption
  <2> QED
    BY <1>1, <2>1, Zenon DEF Init, UsersOK
<1>6. <<>> \in Seq(Functors) /\ <<>> \o <<>> = <<>>
  BY EmptySeq, ConcatEmptySeq, Zenon
<1>7. \A l \in Loops : Q(l) = <<>>
  BY <1>6, Zenon DEF Init, Q
<1>8. QueuesOK
  BY <1>1, <1>6, <1>7 DEF Init, QueuesOK
<1>9. server /\ \A l \in Loops : ~quit[l]
  BY Zenon DEF Init
<1> QED
  BY <1>1, <1>2, <1>4, <1>5, <1>7, <1>8, <1>9, Zenon DEF TypeInv

(* Whatever the users call and whether or not the server is destroyed.      *)
LEMMA TypesAlways == Spec => []TypeInv
<1>1. Init => TypeInv
  BY InitTypes, Zenon
<1>2. TypeInv /\ [Next]_vars => TypeInv'
  BY TypeStep, Zenon
<1> QED
  BY <1>1, <1>2, PTL DEF Spec

(* A functor that is queued is in the queue.                                *)
LEMMA QueuedIsQ ==
    ASSUME QueuesOK, NEW l \in Loops, NEW fn
    PROVE  fn \in Queued(l) <=> \E i \in DOMAIN Q(l) : Q(l)[i] = fn
<1>1. batch[l] \in Seq(Functors) /\ pending[l] \in Seq(Functors)
  BY QueueOf, Zenon
<1>2. Range(batch[l] \o pending[l]) = Range(batch[l]) \cup Range(pending[l])
  BY <1>1, RangeConcatenation
<1>3. Range(Q(l)) = {Q(l)[i] : i \in DOMAIN Q(l)}
  BY Zenon DEF Range
<1> QED
  BY <1>2, <1>3, Zenon DEF Queued, Q

LEMMA TypesGiveOK ==
    ASSUME TypeInv
    PROVE  ServerTypeOK
<1> USE DEF TypeInv
<1>1. next_ \in 0 .. Len(loops_)
  <2>1. Len(loops_) \in Nat
    BY LoopsAssumption, LenProperties, Zenon DEF PoolOK
  <2> QED
    BY <2>1 DEF PoolOK
<1>2. \A l \in Loops : \A fn \in Queued(l) : fn.c \in Made
  BY QueuedIsQ DEF QueuesOK
<1> QED
  BY <1>1, <1>2, Zenon DEF ServerTypeOK, ConnsOK, PoolOK, UsersOK, QueuesOK

-----------------------------------------------------------------------------
(* The bytes of all messages reach the socket in the order in which they    *)
(* were sent, whatever else is called in between: sendInLoop() writes       *)
(* directly only when outputBuffer_ is empty.                               *)
THEOREM Bytes == Spec => []BytesInOrder
<1>1. Init => BytesInv
  BY InitTypes, Zenon DEF BytesInv
<1>2. TypeInv /\ BytesInv /\ [Next]_vars => BytesInv'
  BY ConnStep, Zenon
<1>3. BytesInv => BytesInOrder
  BY Zenon DEF BytesInv, Ordered, BytesInOrder
<1> QED
  BY <1>1, <1>2, <1>3, TypesAlways, PTL DEF Spec

(* Who uses a connection was given it by connectionCallback_.               *)
LEMMA TouchStep ==
    ASSUME TypeInv, [Next]_vars, NEW c \in Made', Touched(c)'
    PROVE  Touched(c) \/ conn'[c].callback # "none"
<1> USE DEF TypeInv
<1>0. c \in Conns
  BY Zenon DEF Made
<1>1. ASSUME \E l \in Loops : \E i \in DOMAIN Q(l)' : Q(l)'[i].f \in RawFunctors /\ Q(l)'[i].c = c
      PROVE  Touched(c)
  <2>1. PICK l \in Loops : \E i \in DOMAIN Q(l)' : Q(l)'[i].f \in RawFunctors /\ Q(l)'[i].c = c
    BY <1>1, Zenon
  <2>2. PICK i \in DOMAIN Q(l)' : Q(l)'[i].f \in RawFunctors /\ Q(l)'[i].c = c
    BY <2>1, Zenon
  <2>3. PICK fn : fn = Q(l)'[i]
    BY Zenon
  <2>4. \/ \E j \in DOMAIN Q(l) : fn = Q(l)[j]
        \/ Given(l, fn)
        \/ fn.f = "connectDestroyed" /\ fn.c \in connections_ /\ loopOf[fn.c] = l
    <3>1. PICK r : r = Q(l)'
      BY Zenon
    <3> QED
      BY <2>3, <3>1, QueueView, Elements
  <2>5. CASE \E j \in DOMAIN Q(l) : fn = Q(l)[j]
    BY <2>2, <2>3, <2>5, Zenon DEF Touched
  <2>6. CASE Given(l, fn)
    BY <2>2, <2>3, <2>6, Zenon DEF Given
  <2>7. CASE fn.f = "connectDestroyed"
    BY <2>2, <2>3, <2>7, Zenon DEF RawFunctors
  <2> QED
    BY <2>4, <2>5, <2>6, <2>7, Zenon
<1>2. ASSUME \E u \in Users : calls'[u] # Idle /\ calls'[u].c = c
      PROVE  Touched(c)
  <2>1. PICK u \in Users : calls'[u] # Idle /\ calls'[u].c = c
    BY <1>2, Zenon
  <2>2. CASE calls'[u] = calls[u]
    BY <2>1, <2>2, Zenon DEF Touched
  <2>3. CASE \E d \in Conns, v \in Users, call \in ThreadCalls : BeginCall(v, d, call)
    <3>1. PICK d \in Conns, v \in Users, call \in ThreadCalls : BeginCall(v, d, call)
      BY <2>3, Zenon
    <3>2. d \in held /\ calls' = [calls EXCEPT ![v] = [call |-> call, c |-> d]]
      BY <3>1, Zenon DEF BeginCall
    <3>3. CASE u = v
      <4>1. calls'[u].c = d
        BY <3>2, <3>3, Zenon DEF UsersOK
      <4> QED
        BY <2>1, <3>2, <4>1, Zenon DEF Touched
    <3>4. CASE u # v
      BY <2>2, <3>2, <3>4, Zenon DEF UsersOK
    <3> QED
      BY <3>3, <3>4, Zenon
  <2>4. CASE \E v \in Users : StoreState(v)
    <3>1. PICK v \in Users : StoreState(v)
      BY <2>4, Zenon
    <3>2. calls[v] # Idle /\ calls' = [calls EXCEPT ![v] = [call |-> @.call, c |-> @.c, stored |-> TRUE]]
      BY <3>1, Zenon DEF StoreState
    <3>3. CASE u = v
      <4>1. calls'[u].c = calls[u].c
        BY <3>2, <3>3, Zenon DEF UsersOK
      <4> QED
        BY <2>1, <3>2, <3>3, <4>1, Zenon DEF Touched
    <3>4. CASE u # v
      BY <2>2, <3>2, <3>4, Zenon DEF UsersOK
    <3> QED
      BY <3>3, <3>4, Zenon
  <2>5. CASE \E v \in Users : QueueCall(v)
    <3>1. PICK v \in Users : calls' = [calls EXCEPT ![v] = Idle]
      BY <2>5, Zenon DEF QueueCall
    <3>2. calls'[u] = calls[u]
      BY <2>1, <3>1, Zenon DEF UsersOK
    <3> QED
      BY <2>2, <3>2, Zenon
  <2>6. ASSUME ~(\E v \in Users : StoreState(v) \/ QueueCall(v)),
               ~(\E d \in Conns, v \in Users, call \in ThreadCalls : BeginCall(v, d, call))
        PROVE  Touched(c)
    <3>1. UNCHANGED calls
      BY <2>6, ZenonT(40) DEF Next, EventNext, UserNext, LoopNext, RunFunctor,
         AcceptConnection, ReadEvent, CloseEvent,
         WriteEvent, DelayPasses, LoopSend, LoopShutdown, LoopForceClose,
         LoopForceCloseWithDelay, LoopSetReading, DropPointer, SwapFunctors, BatchDone,
         RunConnectEstablished, RunConnectDestroyed, RunRemoveConnectionInLoop,
         RunForceCloseInLoop,
         RunRawFunctor, RunUserCallback, PeerSends, PeerCloses, DestroyServer, Joined, Aborted,
         userVars, vars
    <3> QED
      BY <2>2, <3>1, Zenon
  <2> QED
    BY <2>3, <2>4, <2>5, <2>6, Zenon
<1>3. ASSUME c \in held'
      PROVE  c \in held \/ conn'[c].callback # "none"
  <2>1. ASSUME NEW d \in Conns, AcceptConnection(d), c \notin held
        PROVE  conn'[c].callback # "none"
    <3>1. c = d /\ conn' = [conn EXCEPT ![c] = ConnectEstablished(NewConnection)]
      BY <1>3, <2>1, Zenon DEF AcceptConnection
    <3>2. conn'[c] = ConnectEstablished(NewConnection)
      BY <1>0, <3>1, Zenon DEF ConnsOK
    <3>3. PICK k \in Connection(Data) : k = NewConnection
      BY NewOf, Zenon
    <3>4. ConnectEstablished(k).callback \in {"up", "again"}
      BY EstablishOf, Zenon
    <3> QED
      BY <3>2, <3>3, <3>4, Zenon
  <2>2. ASSUME NEW l \in Loops, NEW fn, RunConnectEstablished(l, fn), c \notin held
        PROVE  conn'[c].callback # "none"
    <3>1. c = fn.c /\ conn' = [conn EXCEPT ![c] = ConnectEstablished(conn[c])]
      BY <1>3, <2>2, ZenonT(40) DEF RunConnectEstablished, Establish
    <3>2. conn'[c] = ConnectEstablished(conn[c])
      BY <1>0, <3>1, Zenon DEF ConnsOK
    <3>3. c \in Made
      BY <2>2, <3>1, RunHead, Zenon DEF RunConnectEstablished
    <3>4. PICK k \in Connection(Data) : k = conn[c]
      BY <3>3, Zenon DEF ConnsOK, Made
    <3>5. ConnectEstablished(k).callback \in {"up", "again"}
      BY EstablishOf, Zenon
    <3> QED
      BY <3>2, <3>4, <3>5, Zenon
  <2>3. ASSUME ~(\E d \in Conns : AcceptConnection(d)),
               ~(\E l \in Loops : \E fn : RunConnectEstablished(l, fn))
        PROVE  held' \subseteq held
      BY <2>3, ZenonT(40) DEF Next, EventNext, UserNext, LoopNext, RunFunctor, ReadEvent,
         CloseEvent,
         WriteEvent, DelayPasses, LoopSend, LoopShutdown, LoopForceClose,
         LoopForceCloseWithDelay, LoopSetReading, DropPointer, BeginCall, SwapFunctors,
         BatchDone,
         RunConnectDestroyed, RunRemoveConnectionInLoop, RunForceCloseInLoop,
         RunRawFunctor, RunUserCallback, PeerSends, PeerCloses, StoreState, QueueCall,
         DestroyServer,
         Joined, Aborted, userVars, vars
  <2> QED
    BY <1>3, <2>1, <2>2, <2>3, Zenon
<1>4. \/ c \in held'
      \/ \E u \in Users : calls'[u] # Idle /\ calls'[u].c = c
      \/ \E l \in Loops : \E i \in DOMAIN Q(l)' : Q(l)'[i].f \in RawFunctors /\ Q(l)'[i].c = c
  BY Zenon DEF Touched
<1> QED
  BY <1>1, <1>2, <1>3, <1>4, Zenon DEF Touched

LEMMA ReadingStep ==
    ASSUME TypeInv, ReadingInv, [Next]_vars
    PROVE  ReadingInv'
<1> USE DEF TypeInv
<1>1. ASSUME NEW c \in Made'
      PROVE  /\ conn'[c].callback = "none" => conn'[c].reading_ /\ ~Touched(c)'
             /\ conn'[c].callback = "up" => (conn'[c].reading_ <=> "in" \in conn'[c].events_)
  <2>1. Told(conn'[c])
    BY ConnStep, Zenon
  <2>2. ASSUME conn'[c].callback = "none", Touched(c)'
        PROVE  FALSE
    <3>1. Touched(c)
      BY <2>2, TouchStep, Zenon
    <3>2. c \in Made
      BY <3>1 DEF Touched, UsersOK, QueuesOK
    <3>3. conn[c].callback = "none"
      BY <2>2, <3>2, ConnStep, Zenon
    <3> QED
      BY <3>1, <3>2, <3>3, Zenon DEF ReadingInv
  <2> QED
    BY <2>1, <2>2, Zenon DEF Told
<1> QED
  BY <1>1, Zenon DEF ReadingInv

LEMMA ReadingAlways == Spec => []ReadingInv
<1>1. Init => ReadingInv
  BY InitTypes, Zenon DEF ReadingInv
<1>2. TypeInv /\ ReadingInv /\ [Next]_vars => ReadingInv'
  BY ReadingStep, Zenon
<1> QED
  BY <1>1, <1>2, TypesAlways, PTL DEF Spec

(* While a connection is up, reading_ tells whether its channel waits for   *)
(* input: startReadInLoop() and stopReadInLoop() cannot run before          *)
(* connectEstablished(), because only connectionCallback_ hands the         *)
(* connection out.                                                          *)
THEOREM Reading == Spec => []ReadingIsWatched
<1>1. ReadingInv => ReadingIsWatched
  BY Zenon DEF ReadingInv, ReadingIsWatched, isReading
<1> QED
  BY <1>1, ReadingAlways, PTL

-----------------------------------------------------------------------------
=============================================================================
