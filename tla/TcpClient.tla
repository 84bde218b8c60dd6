----------------------------- MODULE TcpClient -----------------------------
(***************************************************************************)
(* muduo/net/TcpClient.cc with the Connector it owns, in one loop: the     *)
(* connection it makes, loses and makes again, the calls of user code in   *)
(* the loop and of one other thread, and the destructor.                   *)
(*                                                                         *)
(* A TcpConnection is known by its descriptor, its member functions are    *)
(* those of module TcpConnection; nothing is sent on it.  connect() is     *)
(* called once: a second call finds the connector in state kConnected.     *)
(***************************************************************************)
EXTENDS Connector, SequencesExt

CONSTANTS
    LoopCalls,        \* member functions user code calls in the loop
    ThreadCalls,      \* member functions the other thread calls
    MaxPending,       \* bound on the queue user code adds functors to
    DestroyAnytime    \* whether ~TcpClient may run while a functor of its connector waits

ASSUME ClientAssumption ==
    /\ LoopCalls \subseteq {"connect", "disconnect", "stop", "destroy"}
    /\ ThreadCalls \subseteq {"connect", "stop"}
    /\ MaxPending \in Nat /\ DestroyAnytime \in BOOLEAN

T == INSTANCE TcpConnection

VARIABLES
    clientConnect_,   \* TcpClient's own connect_
    retry_,
    connection_,      \* its descriptor, NoFd for a null pointer
    conn,             \* the TcpConnections, Absent before and after their life
    held,             \* the connection to which user code has a pointer, if any
    client,           \* the TcpClient exists
    keepalive,        \* the timer of ~TcpClient that keeps the connector
    called,           \* connect() was called
    caller,           \* what the other thread is doing
    ended,            \* history: stop(), or disconnect() of a connection, has returned
    phase, batch,     \* of the loop, as in EventLoop
    spent,            \* connections kept by functors of the batch that have run
    polled,           \* descriptors that poll() may have reported
    due,              \* poll() has waited since the retry timer was set
    pc                \* the loop thread is about to call restart() or startInLoop(), or not

clientVars == <<clientConnect_, retry_, connection_, client, keepalive>>
userVars   == <<held, called, caller, ended>>
loopVars   == <<phase, batch, spent, polled, due>>
vars       == <<connectorVars, open, pending, failed, clientVars, conn, userVars, loopVars, pc>>

Absent == [T!NewConnection EXCEPT !.state_ = "absent"]
Idle   == [call |-> "none", step |-> 0]

Queued == Range(pending) \cup Range(batch)

(* The connections some TcpConnectionPtr refers to.                         *)
Pointers   == ({connection_} \cup held \cup spent \cup {fn.fd : fn \in Queued}) \ {NoFd}

(* The connector has a TcpClient, or a timer that holds a ConnectorPtr.     *)
ConnectorAlive == client \/ keepalive \/ timers > 0

ClientTypeOK ==
    /\ ConnectorTypeOK
    /\ clientConnect_ \in BOOLEAN /\ retry_ \in BOOLEAN
    /\ connection_ \in Fds \cup {NoFd}
    /\ \A fd \in Fds : conn[fd] = Absent \/ conn[fd] \in T!Connection({<<>>})
    /\ Pointers = {fd \in Fds : conn[fd] # Absent}
    /\ phase \in {"events", "functors"} /\ pc \in {"user", "restart", "start"}

Init ==
    /\ ConnectorInit
    /\ clientConnect_ = TRUE
    /\ retry_ \in BOOLEAN
    /\ connection_ = NoFd
    /\ conn = [fd \in Fds |-> Absent]
    /\ held = {}
    /\ client = TRUE /\ keepalive = FALSE
    /\ called = FALSE /\ caller = Idle /\ ended = FALSE
    /\ phase = "events" /\ batch = <<>> /\ spent = {} /\ polled = {} /\ due = FALSE
    /\ pc = "user"

-----------------------------------------------------------------------------
(* A handler of the loop thread begins; none does after a failed assertion. *)
InEvents   == failed = "none" /\ pc = "user" /\ phase = "events"
InUserCode == failed = "none" /\ pc = "user" /\ client

Unreferenced == {fd \in Fds : conn[fd] # Absent /\ fd \notin Pointers'}

(* Connections to which no pointer is left are destroyed, which closes      *)
(* their sockets.  ~TcpConnection asserts that state_ is kDisconnected, and *)
(* ~Channel that the channel was removed.                                   *)
Reap ==
    /\ conn' = [fd \in Fds |-> IF fd \in Unreferenced THEN Absent ELSE conn[fd]]
    /\ open' = open \ Unreferenced
    /\ Check(\A fd \in Unreferenced : conn[fd].state_ = T!kDisconnected /\ ~conn[fd].added,
             "~TcpConnection")

-----------------------------------------------------------------------------
(* Events.  poll() does not wait when functors are pending, and the delay   *)
(* of a retry is taken to be longer than iterations in which it does not.   *)
RetryTimer ==
    /\ InEvents
    /\ due /\ timers > 0
    /\ StartInLoop(timers - 1)
    /\ due' = FALSE
    /\ UNCHANGED <<pending, clientVars, conn, userVars, phase, batch, spent, polled, pc>>

(* One second is taken to be longer than the two iterations that run        *)
(* stopInLoop and resetChannel.                                             *)
KeepaliveTimer ==
    /\ InEvents
    /\ keepalive /\ \A fn \in Queued : fn.fd # NoFd
    /\ keepalive' = FALSE
    /\ Check(timers > 0 \/ channel_ = NoFd, "~Connector")
    /\ UNCHANGED <<connectorVars, open, pending, clientConnect_, retry_, connection_, client,
                   conn, userVars, loopVars, pc>>

AttemptFails ==
    /\ InEvents
    /\ watched /\ channel_ \in polled
    /\ HandleWriteFails
    /\ UNCHANGED <<failed, clientVars, conn, userVars, loopVars, pc>>

(* newConnection().                                                         *)
NewConnection(fd) ==
    /\ connection_' = fd
    /\ conn' = [conn EXCEPT ![fd] = T!ConnectEstablished(T!NewConnection)]

AttemptSucceeds ==
    /\ InEvents
    /\ watched /\ channel_ \in polled
    /\ HandleWriteSucceeds
    /\ IF connect_ THEN NewConnection(channel_) ELSE UNCHANGED <<connection_, conn>>
    /\ Check(connect_ => client, "newConnection")
    /\ polled' = polled \ {channel_}
    /\ UNCHANGED <<clientConnect_, retry_, client, keepalive, userVars, phase, batch, spent, due, pc>>

(* handleClose() of a connection, and removeConnection(): that of TcpClient *)
(* up to its call of restart(), or the one ~TcpClient put in its place.     *)
CloseConnection_NoRestart(fd) ==
    /\ conn' = [conn EXCEPT ![fd] = T!HandleClose(@)]
    /\ pending' = Append(pending, [f |-> "connectDestroyed", fd |-> fd])
    /\ IF client
         THEN Check(connection_ = fd, "removeConnection") /\ connection_' = NoFd
         ELSE UNCHANGED <<failed, connection_>>
    /\ UNCHANGED pc

CloseConnection_IgnoreDisconnect(fd) ==
    /\ conn' = [conn EXCEPT ![fd] = T!HandleClose(@)]
    /\ pending' = Append(pending, [f |-> "connectDestroyed", fd |-> fd])
    /\ IF client
         THEN /\ Check(connection_ = fd, "removeConnection")
              /\ connection_' = NoFd
              /\ pc' = IF retry_ THEN "restart" ELSE "user"
         ELSE UNCHANGED <<failed, connection_, pc>>

CloseConnection(fd) ==
    /\ conn' = [conn EXCEPT ![fd] = T!HandleClose(@)]
    /\ pending' = Append(pending, [f |-> "connectDestroyed", fd |-> fd])
    /\ IF client
         THEN /\ Check(connection_ = fd, "removeConnection")
              /\ connection_' = NoFd
              /\ pc' = IF retry_ /\ clientConnect_ THEN "restart" ELSE "user"
         ELSE UNCHANGED <<failed, connection_, pc>>

CloseEvent(fd) ==
    /\ InEvents
    /\ fd \in polled /\ conn[fd] # Absent
    /\ T!Closes(conn[fd])
    /\ CloseConnection(fd)
    /\ UNCHANGED <<connectorVars, open, clientConnect_, retry_, client, keepalive, userVars,
                   loopVars>>

(* connector_->restart(), where another thread's stores may come between.   *)
(* Its startInLoop() is called directly, as that of start() in the loop.    *)
RestartConnector ==
    /\ failed = "none" /\ pc = "restart"
    /\ Restart
    /\ pc' = "start"
    /\ UNCHANGED <<open, pending, failed, clientVars, conn, userVars, loopVars>>

StartDirectly ==
    /\ failed = "none" /\ pc = "start"
    /\ StartInLoop(timers)
    /\ pc' = "user"
    /\ UNCHANGED <<pending, clientVars, conn, userVars, loopVars>>

-----------------------------------------------------------------------------
(* The functors of the loop.                                                *)
SwapFunctors ==
    /\ InEvents
    /\ phase' = "functors"
    /\ batch' = pending /\ pending' = <<>>
    /\ UNCHANGED <<connectorVars, open, failed, clientVars, conn, userVars, spent, polled, due, pc>>

Runs(fn) ==
    /\ failed = "none" /\ pc = "user" /\ phase = "functors"
    /\ batch # <<>> /\ fn = Head(batch)
    /\ batch' = Tail(batch)
    /\ spent' = (spent \cup {fn.fd}) \ {NoFd}
    /\ UNCHANGED <<phase, polled, due>>

(* The functors of the connector are bound to a plain this.                 *)
RunConnectorFunctor(fn) ==
    /\ Runs(fn)
    /\ \/ fn.f = "startInLoop" /\ StartInLoop(timers) /\ UNCHANGED pending
       \/ fn.f = "stopInLoop" /\ Abandon /\ Check(ConnectorAlive, "stopInLoop")
       \/ /\ fn.f = "resetChannel"
          /\ ResetChannel
          /\ Check(ConnectorAlive, "resetChannel")
          /\ UNCHANGED <<connect_, state_, watched, retryDelayMs_, timers, gaveUp, open, pending>>
    /\ UNCHANGED <<clientVars, conn, userVars, pc>>

RunConnectDestroyed(fn) ==
    /\ fn.f = "connectDestroyed"
    /\ Runs(fn)
    /\ conn' = [conn EXCEPT ![fn.fd] = T!Removed(T!ConnectDestroyed(@))]
    /\ UNCHANGED <<connectorVars, open, pending, failed, clientVars, userVars, pc>>

RunForceCloseInLoop(fn) ==
    /\ fn.f = "forceCloseInLoop"
    /\ Runs(fn)
    /\ IF conn[fn.fd].state_ \in {T!kConnected, T!kDisconnecting}
         THEN CloseConnection(fn.fd)
         ELSE UNCHANGED <<conn, pending, failed, connection_, pc>>
    /\ UNCHANGED <<connectorVars, open, clientConnect_, retry_, client, keepalive, userVars>>

RunFunctor ==
    /\ batch # <<>>
    /\ LET fn == Head(batch) IN
         RunConnectorFunctor(fn) \/ RunConnectDestroyed(fn) \/ RunForceCloseInLoop(fn)

(* The batch is destroyed, and poll() is called.                            *)
BatchDone ==
    /\ failed = "none" /\ pc = "user" /\ phase = "functors" /\ batch = <<>>
    /\ phase' = "events"
    /\ spent' = {}
    /\ UNCHANGED <<connectorVars, pending, clientVars, userVars, batch, pc>>
    /\ Reap
    /\ polled' = {fd \in Fds : conn'[fd].polled} \cup (IF watched THEN {channel_} ELSE {})
    /\ due' = (timers > 0 /\ (due \/ pending = <<>>))

-----------------------------------------------------------------------------
(* User code in the loop thread, in either phase.                           *)
Room == Len(pending) < MaxPending

LoopConnect ==
    /\ InUserCode /\ "connect" \in LoopCalls
    /\ ~called /\ called' = TRUE
    /\ clientConnect_' = TRUE
    /\ connect_' = TRUE
    /\ pc' = "start"
    /\ UNCHANGED <<state_, channel_, watched, retryDelayMs_, timers, gaveUp, open, pending,
                   failed, retry_, connection_, client, keepalive, conn, held, caller, ended,
                   loopVars>>

LoopStop ==
    /\ InUserCode /\ "stop" \in LoopCalls /\ Room
    /\ clientConnect_' = FALSE /\ connect_' = FALSE
    /\ Queue("stopInLoop")
    /\ ended' = (ended \/ (called /\ caller = Idle))
    /\ UNCHANGED <<state_, channel_, watched, retryDelayMs_, timers, gaveUp, open, failed,
                   retry_, connection_, client, keepalive, conn, held, called, caller,
                   loopVars, pc>>

LoopDisconnect ==
    /\ InUserCode /\ "disconnect" \in LoopCalls
    /\ clientConnect_' = FALSE
    /\ IF connection_ # NoFd /\ conn[connection_].state_ = T!kConnected
         THEN conn' = [conn EXCEPT ![connection_] =
                         T!ShutdownInLoop([@ EXCEPT !.state_ = T!kDisconnecting])]
         ELSE UNCHANGED conn
    /\ ended' = (ended \/ (caller = Idle /\ connection_ # NoFd))
    /\ UNCHANGED <<connectorVars, open, pending, failed, retry_, connection_, client, keepalive,
                   held, called, caller, loopVars, pc>>

TakePointer ==
    /\ InUserCode
    /\ held = {} /\ connection_ # NoFd
    /\ held' = {connection_}
    /\ UNCHANGED <<connectorVars, open, pending, failed, clientVars, conn, called, caller, ended,
                   loopVars, pc>>

(* Once the TcpClient is gone, the user closes a connection it has kept.    *)
HolderForceClose(fd) ==
    /\ failed = "none" /\ pc = "user"
    /\ fd \in held /\ Room
    /\ conn[fd].state_ \in {T!kConnected, T!kDisconnecting}
    /\ conn' = [conn EXCEPT ![fd].state_ = T!kDisconnecting]
    /\ pending' = Append(pending, [f |-> "forceCloseInLoop", fd |-> fd])
    /\ UNCHANGED <<connectorVars, open, failed, clientVars, userVars, loopVars, pc>>

DropPointer(fd) ==
    /\ failed = "none" /\ pc = "user"
    /\ fd \in held
    /\ client \/ conn[fd].state_ = T!kDisconnected
    /\ held' = {}
    /\ UNCHANGED <<connectorVars, pending, clientVars, called, caller, ended, loopVars, pc>>
    /\ Reap

(* ~TcpClient, in the loop thread and not in a callback of the connection.  *)
Destroy ==
    /\ InUserCode /\ "destroy" \in LoopCalls
    /\ caller = Idle
    /\ client' = FALSE
    /\ connection_' = NoFd
    /\ IF connection_ # NoFd
         THEN /\ DestroyAnytime \/ \A fn \in Queued : fn.fd # NoFd
              /\ IF connection_ \in held \cup spent \cup {fn.fd : fn \in Queued}
                   THEN UNCHANGED <<conn, pending>>
                   ELSE /\ conn' = [conn EXCEPT ![connection_].state_ = T!kDisconnecting]
                        /\ pending' = Append(pending, [f |-> "forceCloseInLoop", fd |-> connection_])
              /\ Check(timers > 0 \/ channel_ = NoFd, "~Connector")
              /\ UNCHANGED <<connect_, keepalive>>
         ELSE /\ connect_' = FALSE
              /\ Queue("stopInLoop")
              /\ keepalive' = TRUE
              /\ UNCHANGED <<conn, failed>>
    /\ UNCHANGED <<state_, channel_, watched, retryDelayMs_, timers, gaveUp, open,
                   clientConnect_, retry_, userVars, loopVars, pc>>

-----------------------------------------------------------------------------
(* Calls in the other thread: connect(), and stop() after it, store the two *)
(* flags one after the other and queue a functor.                           *)
ThreadCall(call) ==
    /\ client /\ caller = Idle
    /\ call \in ThreadCalls
    /\ IF call = "connect" THEN ~called /\ called' = TRUE ELSE called /\ ~ended /\ UNCHANGED called
    /\ clientConnect_' = (call = "connect")
    /\ caller' = [call |-> call, step |-> 1]
    /\ UNCHANGED <<connectorVars, open, pending, failed, retry_, connection_, client, keepalive,
                   conn, held, ended, loopVars, pc>>

ThreadStore ==
    /\ caller.step = 1
    /\ connect_' = (caller.call = "connect")
    /\ caller' = [caller EXCEPT !.step = 2]
    /\ UNCHANGED <<state_, channel_, watched, retryDelayMs_, timers, gaveUp, open, pending,
                   failed, clientVars, conn, held, called, ended, loopVars, pc>>

ThreadQueue ==
    /\ caller.step = 2
    /\ Queue(IF caller.call = "connect" THEN "startInLoop" ELSE "stopInLoop")
    /\ caller' = Idle
    /\ ended' = (ended \/ caller.call = "stop")
    /\ UNCHANGED <<connectorVars, open, failed, clientVars, conn, held, called, loopVars, pc>>

(* The server closes or resets a connection.                                *)
PeerCloses(fd) ==
    /\ conn[fd] # Absent /\ conn[fd].peer # "reset"
    /\ \E p \in {"closed", "reset"} : conn' = [conn EXCEPT ![fd].peer = p]
    /\ UNCHANGED <<connectorVars, open, pending, failed, clientVars, userVars, loopVars, pc>>

-----------------------------------------------------------------------------
EventNext ==
    \/ RetryTimer \/ KeepaliveTimer \/ AttemptFails \/ AttemptSucceeds
    \/ \E fd \in Fds : CloseEvent(fd)

LoopNext == SwapFunctors \/ RunFunctor \/ BatchDone \/ RestartConnector \/ StartDirectly

UserNext ==
    \/ LoopConnect \/ LoopStop \/ LoopDisconnect \/ Destroy \/ TakePointer
    \/ \E fd \in held : HolderForceClose(fd) \/ DropPointer(fd)

ThreadNext ==
    \/ \E call \in ThreadCalls : ThreadCall(call)
    \/ ThreadStore \/ ThreadQueue

Next ==
    \/ EventNext \/ LoopNext \/ UserNext \/ ThreadNext
    \/ \E fd \in Fds : PeerCloses(fd)

Spec == Init /\ [][Next]_vars

(* The loop runs, timers and reported events are handled, and calls return. *)
(* A server is there: if attempts are made again and again, connect(2) gets *)
(* under way and the connection is made in the end.                         *)
FairSpec ==
    /\ Spec
    /\ WF_vars(SwapFunctors) /\ WF_vars(RunFunctor) /\ WF_vars(BatchDone)
    /\ WF_vars(RestartConnector) /\ WF_vars(StartDirectly)
    /\ WF_vars(ThreadStore) /\ WF_vars(ThreadQueue)
    /\ SF_vars(RetryTimer /\ state_' = kConnecting)
    /\ SF_vars(AttemptSucceeds)

-----------------------------------------------------------------------------
(* The assertions of the code hold: startInLoop() finds the connector       *)
(* disconnected and connecting() without a channel, removeConnection()      *)
(* gets the current connection, destructors find channels and connections   *)
(* closed, and no functor bound to a plain this reaches a dead connector.   *)
ClientAssertionsHold == failed = "none"

(* Every socket that connect() opened is owned by the watched channel of    *)
(* the connector or by one TcpConnection, and closed when it is not:        *)
(* failed, abandoned and stopped attempts leak none.                        *)
SocketsOwned ==
    LET watching == IF watched THEN {channel_} ELSE {}
        living   == {fd \in Fds : conn[fd] # Absent}
    IN  open = watching \cup living /\ watching \cap living = {}

(* A client makes one attempt at a time: at most one of a queued or         *)
(* imminent startInLoop(), a retry timer, a socket that connects and a      *)
(* connection that is up.                                                   *)
OneAttempt ==
    Cardinality({fn \in Queued : fn.f = "startInLoop"})
        + (IF pc # "user" THEN 1 ELSE 0) + timers + (IF watched THEN 1 ELSE 0)
        + (IF connection_ # NoFd THEN 1 ELSE 0) <= 1

(* After stop(), or disconnect() of a connection, no connection is made.    *)
EndedIsFinal == [][ended => connection_' \in {connection_, NoFd}]_vars

(* A client with enableRetry() gets a connection, and another one when it   *)
(* has lost it, unless it is told to stop or connect(2) fails for good.     *)
Reconnects ==
    (called /\ caller = Idle /\ retry_ /\ clientConnect_ /\ client)
        ~> (connection_ # NoFd \/ ~connect_ \/ ~clientConnect_ \/ ~client \/ gaveUp)
=============================================================================
