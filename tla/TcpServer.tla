----------------------------- MODULE TcpServer -----------------------------
(***************************************************************************)
(* muduo/net/TcpServer.cc and the thread side of TcpConnection.cc: the     *)
(* connections of a server, spread over the loops of its                   *)
(* EventLoopThreadPool, the functors the loops exchange about them, the    *)
(* calls users make on them in the loops and in other threads, and the     *)
(* references that keep them alive.                                        *)
(*                                                                         *)
(* A loop alternates between handling events and running the batch of      *)
(* functors it swapped out, as in EventLoop.  A handler or functor is one  *)
(* step.  A call in another thread is several: it reads state_, may store  *)
(* it, and queues a functor.                                               *)
(***************************************************************************)
EXTENDS TcpConnection, FiniteSets

CONSTANTS
    Conns,         \* the connections clients open
    Base,          \* loop_, the acceptor's loop
    Pools,         \* the thread pools the server may have: sequences of loops
    LoopCalls,     \* member functions user code calls in a connection's loop
    Users,         \* other threads that use connections
    ThreadCalls,   \* member functions they call
    MessageLen,    \* bytes of a message
    MaxSends,      \* bound on the number of messages
    MaxPending,    \* bound on the queue a user adds functors to
    HighWaterMark,
    ServerEnds     \* whether the TcpServer is destroyed

Calls == {"send", "shutdown", "forceClose", "forceCloseWithDelay", "startRead", "stopRead"}

ASSUME LoopsAssumption == \A p \in Pools : p \in Seq(Range(p)) /\ Base \notin Range(p)
ASSUME CallsAssumption ==
    LoopCalls \subseteq Calls /\ ThreadCalls \subseteq Calls \ {"forceCloseWithDelay"}
ASSUME SizesAssumption ==
    /\ MessageLen \in Nat \ {0} /\ MaxSends \in Nat /\ MaxPending \in Nat
    /\ HighWaterMark \in Nat /\ ServerEnds \in BOOLEAN

Loops == {Base} \cup UNION {Range(p) : p \in Pools}

VARIABLES
    conn,          \* the connections, Absent before they are made
    loopOf,        \* loop_ of each connection
    loops_,        \* the loops of the thread pool; empty for a single-threaded server
    next_,         \* the pool's round-robin index
    connections_,
    held,          \* connections of which users have a TcpConnectionPtr
    timers,        \* pending timers of forceCloseWithDelay
    calls,         \* what each of Users is doing
    sends,         \* messages sent so far
    server,        \* the TcpServer exists
    phase, pending, batch, quit,   \* of each loop
    spent,         \* connections kept by functors of the batch that have run
    failed         \* the assertion that has failed

connVars == <<conn, loopOf, loops_, next_, connections_, server>>
loopVars == <<phase, batch, quit, spent>>
userVars == <<held, timers, calls, sends>>
vars     == <<connVars, loopVars, userVars, pending, failed>>

Absent == [NewConnection EXCEPT !.state_ = "absent"]
Idle   == [call |-> "none"]
Made   == {c \in Conns : conn[c] # Absent}

(* A functor: a member function bound to a connection, and for sendInLoop   *)
(* its data.  Bound to a TcpConnectionPtr, unless it is in RawFunctors: a   *)
(* plain this.  "late" is history: the connection had left connections_     *)
(* when the functor was queued.                                             *)
RawFunctors_Destroyed ==
    {"sendInLoop", "shutdownInLoop", "startReadInLoop", "stopReadInLoop", "connectDestroyed"}

RawFunctors == {"sendInLoop", "shutdownInLoop", "startReadInLoop", "stopReadInLoop"}

Functor(f, c, data) == [f |-> f, c |-> c, data |-> data, late |-> c \notin connections_]

Queued(l) == Range(pending[l]) \cup Range(batch[l])

(* The connections that some TcpConnectionPtr refers to.                    *)
Referenced(c) ==
    \/ c \in connections_ \cup held
    \/ \E l \in Loops :
          \/ c \in spent[l]
          \/ \E fn \in Queued(l) : fn.c = c /\ fn.f \notin RawFunctors

Data == Seq(1 .. MessageLen * MaxSends)

ServerTypeOK ==
    /\ \A c \in Conns : conn[c] = Absent \/ conn[c] \in Connection(Data)
    /\ loopOf \in [Conns -> Loops]
    /\ loops_ \in Pools /\ next_ \in 0 .. Len(loops_)
    /\ connections_ \subseteq Made /\ held \subseteq Made /\ timers \subseteq Made
    /\ \A u \in Users : calls[u] = Idle \/ (calls[u].call \in ThreadCalls /\ calls[u].c \in Made)
    /\ sends \in 0 .. MaxSends
    /\ server \in BOOLEAN
    /\ phase \in [Loops -> {"events", "functors", "joining", "stopped"}]
    /\ quit \in [Loops -> BOOLEAN]
    /\ \A l \in Loops : spent[l] \subseteq Made /\ \A fn \in Queued(l) : fn.c \in Made

Init ==
    /\ conn = [c \in Conns |-> Absent]
    /\ loopOf = [c \in Conns |-> Base]
    /\ loops_ \in Pools /\ next_ = 0
    /\ connections_ = {} /\ held = {} /\ timers = {}
    /\ calls = [u \in Users |-> Idle]
    /\ sends = 0
    /\ server = TRUE
    /\ phase = [l \in Loops |-> IF l \in {Base} \cup Range(loops_) THEN "events" ELSE "stopped"]
    /\ quit = [l \in Loops |-> FALSE]
    /\ pending = [l \in Loops |-> <<>>]
    /\ batch = [l \in Loops |-> <<>>]
    /\ spent = [l \in Loops |-> {}]
    /\ failed = "none"

-----------------------------------------------------------------------------
(* An assertion of the code, checked in the step that evaluates it.  When   *)
(* it fails the process ends: no loop takes another step.                   *)
Check(ok, name) == failed' = IF ok THEN failed ELSE name

Aborted == failed # "none" /\ UNCHANGED vars

Push(l, fn) == pending' = [pending EXCEPT ![l] = Append(@, fn)]

(* removeConnectionInLoop().                                                *)
RemoveConnectionInLoop(c) ==
    /\ connections_' = connections_ \ {c}
    /\ Push(loopOf[c], Functor("connectDestroyed", c, <<>>))

(* closeCallback_ is removeConnection() of the server.                      *)
RemoveConnection(c) ==
    IF loopOf[c] = Base THEN RemoveConnectionInLoop(c)
    ELSE /\ Push(Base, Functor("removeConnectionInLoop", c, <<>>))
         /\ UNCHANGED connections_

(* handleClose() with the closeCallback_.                                   *)
Close(c) ==
    /\ conn' = [conn EXCEPT ![c] = HandleClose(@)]
    /\ RemoveConnection(c)
    /\ failed' = IF conn[c].state_ \notin {kConnected, kDisconnecting} THEN "handleClose"
                 ELSE IF ~server THEN "closeCallback"
                 ELSE IF loopOf[c] = Base /\ c \notin connections_ THEN "erase"
                 ELSE failed
    /\ UNCHANGED <<loopOf, loops_, next_, server>>

Establish(c) ==
    /\ conn' = [conn EXCEPT ![c] = ConnectEstablished(@)]
    /\ Check(conn[c].state_ = kConnecting, "connectEstablished")
    /\ held' \in {held, held \cup {c}}      \* the user may keep the pointer

(* forceClose(), from its test of state_ to queueInLoop.                    *)
Closable(c) == conn[c].state_ \in {kConnected, kDisconnecting}

SetDisconnecting(c) == conn' = [conn EXCEPT ![c].state_ = kDisconnecting]

ForceClose(c) ==
    /\ SetDisconnecting(c)
    /\ Push(loopOf[c], Functor("forceCloseInLoop", c, <<>>))

(* The bound on what users queue.                                           *)
Room(c) == Len(pending[loopOf[c]]) < MaxPending

(* The callbacks sendInLoop and handleWrite queue when they make k of       *)
(* connection c.                                                            *)
Completed(c, k) == k.outputBuffer_ = <<>> /\ k.written # conn[c].written
HighWater(c, k) ==
    Len(conn[c].outputBuffer_) < HighWaterMark /\ Len(k.outputBuffer_) >= HighWaterMark

QueueCallbacks(c, k) ==
    IF Completed(c, k) THEN Push(loopOf[c], Functor("writeComplete", c, <<>>))
    ELSE IF HighWater(c, k) THEN Push(loopOf[c], Functor("highWaterMark", c, <<>>))
    ELSE UNCHANGED pending

-----------------------------------------------------------------------------
(* Events.                                                                  *)
Handling(l) == failed = "none" /\ phase[l] = "events"

(* EventLoopThreadPool::getNextLoop: the loop, and the next value of next_. *)
NextLoop == IF loops_ = <<>> THEN Base ELSE loops_[next_ + 1]

AfterNext == IF next_ + 1 >= Len(loops_) THEN 0 ELSE next_ + 1

(* Acceptor::handleRead calls newConnection().                              *)
AcceptConnection(c) ==
    LET l == NextLoop IN
    /\ Handling(Base) /\ server
    /\ conn[c] = Absent
    /\ loopOf' = [loopOf EXCEPT ![c] = l]
    /\ next_' = AfterNext
    /\ connections_' = connections_ \cup {c}
    /\ IF l = Base
         THEN /\ conn' = [conn EXCEPT ![c] = ConnectEstablished(NewConnection)]
              /\ held' \in {held, held \cup {c}}
              /\ UNCHANGED pending
         ELSE /\ conn' = [conn EXCEPT ![c] = NewConnection]
              /\ Push(l, [Functor("connectEstablished", c, <<>>) EXCEPT !.late = FALSE])
              /\ UNCHANGED held
    /\ UNCHANGED <<loops_, server, timers, calls, sends, loopVars, failed>>

(* The channel's tie_ is locked: no event reaches a dead connection.        *)
Active(c) == c \in Made /\ Handling(loopOf[c]) /\ Referenced(c)

ReadEvent(c) ==
    /\ Active(c)
    /\ Readable(conn[c]) /\ conn[c].input
    /\ conn' = [conn EXCEPT ![c].input = FALSE]
    /\ UNCHANGED <<loopOf, loops_, next_, connections_, server, loopVars, userVars, pending, failed>>

CloseEvent(c) ==
    /\ Active(c)
    /\ Closes(conn[c])
    /\ Close(c)
    /\ UNCHANGED <<loopVars, userVars>>

WriteEvent(c) ==
    /\ Active(c)
    /\ Writable(conn[c]) /\ ~Broken(conn[c])
    /\ \E k \in HandleWrite(conn[c]) :
          /\ conn' = [conn EXCEPT ![c] = k]
          /\ QueueCallbacks(c, k)
    /\ UNCHANGED <<loopOf, loops_, next_, connections_, server, loopVars, userVars, failed>>

(* The timer of forceCloseWithDelay calls forceClose() through a weak       *)
(* pointer.                                                                 *)
DelayPasses(c) ==
    /\ c \in timers
    /\ Handling(loopOf[c]) /\ Room(c)
    /\ timers' = timers \ {c}
    /\ IF Referenced(c) /\ Closable(c) THEN ForceClose(c) ELSE UNCHANGED <<conn, pending>>
    /\ UNCHANGED <<loopOf, loops_, next_, connections_, server, loopVars, held, calls, sends, failed>>

-----------------------------------------------------------------------------
(* The functors of a loop.                                                  *)
SwapFunctors(l) ==
    /\ Handling(l)
    /\ phase' = [phase EXCEPT ![l] = "functors"]
    /\ batch' = [batch EXCEPT ![l] = pending[l]]
    /\ pending' = [pending EXCEPT ![l] = <<>>]
    /\ UNCHANGED <<connVars, userVars, quit, spent, failed>>

(* The batch is destroyed.  A loop that was told to quit returns, and its   *)
(* EventLoop is destroyed with the functors it has not run.                 *)
BatchDone(l) ==
    /\ phase[l] = "functors" /\ batch[l] = <<>>
    /\ phase' = [phase EXCEPT ![l] = IF quit[l] THEN "stopped" ELSE "events"]
    /\ pending' = IF quit[l] THEN [pending EXCEPT ![l] = <<>>] ELSE pending
    /\ spent' = [spent EXCEPT ![l] = {}]
    /\ UNCHANGED <<connVars, userVars, batch, quit, failed>>

(* Loop l runs functor fn, which is the next one of its batch.              *)
Runs(l, fn) ==
    /\ failed = "none"
    /\ phase[l] = "functors" /\ batch[l] # <<>>
    /\ fn = Head(batch[l])
    /\ batch' = [batch EXCEPT ![l] = Tail(@)]
    /\ spent' = IF fn.f \in RawFunctors THEN spent ELSE [spent EXCEPT ![l] = @ \cup {fn.c}]
    /\ UNCHANGED <<phase, quit>>

RunConnectEstablished(l, fn) ==
    /\ fn.f = "connectEstablished"
    /\ Runs(l, fn)
    /\ Establish(fn.c)
    /\ UNCHANGED <<loopOf, loops_, next_, connections_, server, timers, calls, sends, pending>>

RunConnectDestroyed(l, fn) ==
    LET k == ConnectDestroyed(conn[fn.c]) IN
    /\ fn.f = "connectDestroyed"
    /\ Runs(l, fn)
    /\ conn' = [conn EXCEPT ![fn.c] = Removed(k)]
    /\ Check(k.events_ = {}, "remove")
    /\ UNCHANGED <<loopOf, loops_, next_, connections_, server, userVars, pending>>

RunRemoveConnectionInLoop(l, fn) ==
    /\ fn.f = "removeConnectionInLoop"
    /\ Runs(l, fn)
    /\ RemoveConnectionInLoop(fn.c)
    /\ IF server THEN Check(fn.c \in connections_, "erase") ELSE Check(FALSE, "closeCallback")
    /\ UNCHANGED <<conn, loopOf, loops_, next_, server, userVars>>

RunForceCloseInLoop_NoTest(l, fn) ==
    /\ fn.f = "forceCloseInLoop"
    /\ Runs(l, fn)
    /\ Close(fn.c)
    /\ UNCHANGED userVars

RunForceCloseInLoop(l, fn) ==
    /\ fn.f = "forceCloseInLoop"
    /\ Runs(l, fn)
    /\ IF Closable(fn.c) THEN Close(fn.c) ELSE UNCHANGED <<connVars, pending, failed>>
    /\ UNCHANGED userVars

(* sendInLoop, shutdownInLoop, startReadInLoop and stopReadInLoop.          *)
InLoop(fn) ==
    LET k == conn[fn.c] IN
    CASE fn.f = "sendInLoop"      -> SendInLoop(k, fn.data)
      [] fn.f = "shutdownInLoop"  -> {ShutdownInLoop(k)}
      [] fn.f = "startReadInLoop" -> {StartReadInLoop(k)}
      [] fn.f = "stopReadInLoop"  -> {StopReadInLoop(k)}

RunRawFunctor(l, fn) ==
    /\ fn.f \in RawFunctors
    /\ Runs(l, fn)
    /\ \E k \in InLoop(fn) :
          /\ conn' = [conn EXCEPT ![fn.c] = k]
          /\ IF fn.f = "sendInLoop" THEN QueueCallbacks(fn.c, k) ELSE UNCHANGED pending
    /\ Check(Referenced(fn.c), "destroyed")
    /\ UNCHANGED <<loopOf, loops_, next_, connections_, server, userVars>>

RunUserCallback(l, fn) ==
    /\ fn.f \in {"writeComplete", "highWaterMark"}
    /\ Runs(l, fn)
    /\ UNCHANGED <<connVars, userVars, pending, failed>>

RunFunctor(l) ==
    /\ batch[l] # <<>>
    /\ LET fn == Head(batch[l]) IN
          \/ RunConnectEstablished(l, fn)
          \/ RunConnectDestroyed(l, fn)
          \/ RunRemoveConnectionInLoop(l, fn)
          \/ RunForceCloseInLoop(l, fn)
          \/ RunRawFunctor(l, fn)
          \/ RunUserCallback(l, fn)

-----------------------------------------------------------------------------
(* Calls of user code in the connection's loop, through a pointer it kept   *)
(* or was given by a callback: in an event, in a timer, or in a functor of  *)
(* the user's own, which may be anywhere in a batch.                        *)
InUserCode(c) == c \in held /\ phase[loopOf[c]] \in {"events", "functors"}

Message == [i \in 1 .. MessageLen |-> sends * MessageLen + i]

LoopSend(c) ==
    /\ InUserCode(c) /\ "send" \in LoopCalls
    /\ conn[c].state_ = kConnected /\ sends < MaxSends
    /\ sends' = sends + 1
    /\ \E k \in SendInLoop(conn[c], Message) :
          /\ conn' = [conn EXCEPT ![c] = k]
          /\ QueueCallbacks(c, k)
    /\ UNCHANGED <<loopOf, loops_, next_, connections_, server, loopVars, held, timers, calls, failed>>

LoopShutdown(c) ==
    /\ InUserCode(c) /\ "shutdown" \in LoopCalls
    /\ conn[c].state_ = kConnected
    /\ conn' = [conn EXCEPT ![c] = ShutdownInLoop([@ EXCEPT !.state_ = kDisconnecting])]
    /\ UNCHANGED <<loopOf, loops_, next_, connections_, server, loopVars, userVars, pending, failed>>

LoopForceClose(c) ==
    /\ InUserCode(c) /\ "forceClose" \in LoopCalls
    /\ Closable(c) /\ Room(c)
    /\ ForceClose(c)
    /\ UNCHANGED <<loopOf, loops_, next_, connections_, server, loopVars, userVars, failed>>

LoopForceCloseWithDelay(c) ==
    /\ InUserCode(c) /\ "forceCloseWithDelay" \in LoopCalls
    /\ Closable(c)
    /\ SetDisconnecting(c)
    /\ timers' = timers \cup {c}
    /\ UNCHANGED <<loopOf, loops_, next_, connections_, server, loopVars, held, calls, sends,
                   pending, failed>>

LoopSetReading(c) ==
    /\ InUserCode(c)
    /\ \/ "startRead" \in LoopCalls /\ conn' = [conn EXCEPT ![c] = StartReadInLoop(@)]
       \/ "stopRead" \in LoopCalls /\ conn' = [conn EXCEPT ![c] = StopReadInLoop(@)]
    /\ UNCHANGED <<loopOf, loops_, next_, connections_, server, loopVars, userVars, pending, failed>>

DropPointer(c) ==
    /\ c \in held
    /\ \A u \in Users : calls[u] # Idle => calls[u].c # c
    /\ held' = held \ {c}
    /\ UNCHANGED <<connVars, loopVars, timers, calls, sends, pending, failed>>

-----------------------------------------------------------------------------
(* Calls in other threads.  send, shutdown and forceClose read state_       *)
(* first; when it is not the one they want they return.                     *)
Admits(c, call) ==
    CASE call \in {"send", "shutdown"} -> conn[c].state_ = kConnected
      [] call = "forceClose" -> Closable(c)
      [] OTHER -> TRUE

BeginCall(u, c, call) ==
    /\ calls[u] = Idle
    /\ c \in held /\ call \in ThreadCalls
    /\ Admits(c, call)
    /\ (call = "send") => (sends < MaxSends)
    /\ calls' = [calls EXCEPT ![u] = [call |-> call, c |-> c]]
    /\ UNCHANGED <<connVars, loopVars, held, timers, sends, pending, failed>>

(* setState(kDisconnecting).                                                *)
StoreState(u) ==
    /\ calls[u] # Idle
    /\ calls[u].call \in {"shutdown", "forceClose"}
    /\ "stored" \notin DOMAIN calls[u]
    /\ SetDisconnecting(calls[u].c)
    /\ calls' = [calls EXCEPT ![u] = [call |-> @.call, c |-> @.c, stored |-> TRUE]]
    /\ UNCHANGED <<loopOf, loops_, next_, connections_, server, loopVars, held, timers, sends,
                   pending, failed>>

FunctorOf(call) ==
    [send |-> "sendInLoop", shutdown |-> "shutdownInLoop", forceClose |-> "forceCloseInLoop",
     startRead |-> "startReadInLoop", stopRead |-> "stopReadInLoop"][call]

QueueCall(u) ==
    LET c == calls[u].c
        isSend == calls[u].call = "send"
    IN
    /\ calls[u] # Idle
    /\ calls[u].call \in {"shutdown", "forceClose"} => "stored" \in DOMAIN calls[u]
    /\ phase[loopOf[c]] # "stopped" /\ Room(c)
    /\ isSend => sends < MaxSends
    /\ Push(loopOf[c], Functor(FunctorOf(calls[u].call), c, IF isSend THEN Message ELSE <<>>))
    /\ sends' = IF isSend THEN sends + 1 ELSE sends
    /\ calls' = [calls EXCEPT ![u] = Idle]
    /\ UNCHANGED <<connVars, loopVars, held, timers, failed>>

-----------------------------------------------------------------------------
(* The other end of a connection.                                           *)
PeerSends(c) ==
    /\ c \in Made /\ conn[c].peer = "open"
    /\ conn' = [conn EXCEPT ![c].input = TRUE]
    /\ UNCHANGED <<loopOf, loops_, next_, connections_, server, loopVars, userVars, pending, failed>>

PeerCloses(c) ==
    /\ c \in Made /\ conn[c].peer # "reset"
    /\ \E p \in {"closed", "reset"} : conn' = [conn EXCEPT ![c].peer = p]
    /\ UNCHANGED <<loopOf, loops_, next_, connections_, server, loopVars, userVars, pending, failed>>

-----------------------------------------------------------------------------
(* ~TcpServer(), in the base loop: every connection is taken out of         *)
(* connections_ and destroyed in its loop; then the pool's EventLoopThreads *)
(* are destroyed, which quits their loops and joins.  Destroying(l) has the *)
(* orders in which the names of loop l's connections may be sorted.         *)
Destroying(l) ==
    LET Of(c) == Functor("connectDestroyed", c, <<>>)
        S == {Of(c) : c \in {d \in connections_ : loopOf[d] = l}}
    IN  {q \in [1 .. Cardinality(S) -> S] : q \in Seq(S) /\ Range(q) = S}

DestroyServer ==
    LET here == {c \in connections_ : loopOf[c] = Base} IN
    /\ ServerEnds /\ server /\ Handling(Base)
    /\ server' = FALSE
    /\ connections_' = {}
    /\ conn' = [c \in Conns |-> IF c \in here THEN Removed(ConnectDestroyed(conn[c])) ELSE conn[c]]
    /\ Check(\A c \in here : ConnectDestroyed(conn[c]).events_ = {}, "remove")
    /\ \E order \in [Loops -> UNION {Destroying(l) : l \in Loops}] :
          /\ \A l \in Loops : order[l] \in Destroying(l)
          /\ pending' = [l \in Loops |->
                            IF l = Base THEN pending[l] ELSE pending[l] \o order[l]]
    /\ phase' = [phase EXCEPT ![Base] = "joining"]
    /\ quit' = [l \in Loops |-> l # Base]
    /\ UNCHANGED <<loopOf, loops_, next_, userVars, batch, spent>>

Joined ==
    /\ phase[Base] = "joining"
    /\ \A l \in Loops \ {Base} : phase[l] = "stopped"
    /\ phase' = [phase EXCEPT ![Base] = "events"]
    /\ UNCHANGED <<connVars, userVars, pending, batch, quit, spent, failed>>

-----------------------------------------------------------------------------
LoopNext(l) == SwapFunctors(l) \/ RunFunctor(l) \/ BatchDone(l)

EventNext(c) == ReadEvent(c) \/ CloseEvent(c) \/ WriteEvent(c) \/ DelayPasses(c)

UserNext(c) ==
    \/ LoopSend(c) \/ LoopShutdown(c) \/ LoopForceClose(c) \/ LoopForceCloseWithDelay(c)
    \/ LoopSetReading(c) \/ DropPointer(c)
    \/ \E u \in Users, call \in ThreadCalls : BeginCall(u, c, call)

Next ==
    \/ \E c \in Conns :
          AcceptConnection(c) \/ EventNext(c) \/ UserNext(c) \/ PeerSends(c) \/ PeerCloses(c)
    \/ \E l \in Loops : LoopNext(l)
    \/ \E u \in Users : StoreState(u) \/ QueueCall(u)
    \/ DestroyServer
    \/ Joined
    \/ Aborted

Spec == Init /\ [][Next]_vars

(* The loops run; every poll() reports what is ready, so an event that is   *)
(* there in iteration after iteration is handled, timers included; the peer *)
(* reads, so that the socket is writable again and again.                   *)
FairSpec ==
    /\ Spec
    /\ \A l \in Loops : WF_vars(RunFunctor(l))
    /\ \A l \in Loops : WF_vars(BatchDone(l))
    /\ \A l \in Loops : WF_vars(SwapFunctors(l))
    /\ \A c \in Conns : SF_vars(DelayPasses(c))
    /\ \A c \in Conns : SF_vars(ReadEvent(c))
    /\ \A c \in Conns : SF_vars(CloseEvent(c))
    /\ \A c \in Conns : SF_vars(WriteEvent(c))

-----------------------------------------------------------------------------
(* The assertions of the code that hold as long as calls are made in the    *)
(* connection's loop, and send() anywhere: connectEstablished() runs on a   *)
(* new connection, handleClose() on an open one, the connection is erased   *)
(* from connections_ exactly once, channel_->remove() finds no events.      *)
AssertionsHold == failed \in {"none", "destroyed"}

(* ~TcpConnection asserts that state_ is kDisconnected and ~Channel that    *)
(* the channel was removed: both hold when the last pointer goes.           *)
DestroyedWhenDisconnected ==
    \A c \in Made : ~Referenced(c) => conn[c].state_ = kDisconnected /\ ~conn[c].added

(* A functor bound to a plain this and queued before the connection left    *)
(* connections_ finds it alive: connectDestroyed, which holds a pointer, is *)
(* queued behind it in the same loop.  The one exception is ~TcpServer of a *)
(* single-threaded server, which calls connectDestroyed() at once.          *)
RawFunctorsSafe ==
    server \/ loops_ # <<>> =>
        \A l \in Loops : \A fn \in Queued(l) :
            fn.f \in RawFunctors /\ ~fn.late => Referenced(fn.c)

(* The user sees the connection go up once and then down once, and down     *)
(* before it is destroyed.                                                  *)
CallbacksPaired ==
    \A c \in Made :
        /\ conn[c].callback # "again"
        /\ ~Referenced(c) => conn[c].callback = "down"

(* The user sees the connection go up once and then down once, and at the   *)
(* end of its life it is down, kDisconnected and out of the poller, as the  *)
(* asserts of ~TcpConnection and ~Channel say.                              *)
LivesInOrder == ServerTypeOK /\ DestroyedWhenDisconnected /\ CallbacksPaired

(* The bytes of all messages reach the socket in order, none twice: the     *)
(* direct write of sendInLoop never overtakes outputBuffer_.                *)
BytesInOrder ==
    \A c \in Made : conn[c].written \o conn[c].outputBuffer_ = conn[c].accepted

(* shutdown() takes effect after the buffered bytes were written, and       *)
(* buffered bytes always have the channel waiting for POLLOUT.              *)
ShutdownAfterOutput ==
    \A c \in Made : conn[c].state_ # kDisconnected =>
        /\ conn[c].shutdown => conn[c].outputBuffer_ = <<>>
        /\ isWriting(conn[c]) <=> conn[c].outputBuffer_ # <<>>

(* A closed connection leaves connections_ and its channel the poller.      *)
ClosedIsRemoved ==
    \A c \in Conns : (conn[c].state_ = kDisconnected)
        ~> (c \notin connections_ /\ ~conn[c].added)

(* shutdown() is carried out, unless the connection is closed first: the    *)
(* last handleWrite() does what shutdownInLoop() had to leave.              *)
ShutdownHappens ==
    \A c \in Conns : (conn[c].state_ = kDisconnecting)
        ~> (conn[c].state_ = kDisconnected \/ conn[c].shutdown)

(* While the user has seen a connection go up and not down, reading_ tells  *)
(* whether its channel waits for input, whatever startRead() and stopRead() *)
(* came in between.                                                         *)
ReadingIsWatched ==
    \A c \in Made : conn[c].callback = "up" => (conn[c].reading_ <=> isReading(conn[c]))

(* removeConnectionInLoop asserts that connections_ has the connection.     *)
ErasedOnce == failed # "erase"
=============================================================================
