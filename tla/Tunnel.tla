------------------------------- MODULE Tunnel -------------------------------
(***************************************************************************)
(* examples/socks4a: a Tunnel (tunnel.h) relays between serverConn_, which *)
(* a TcpServer accepted, and clientConn_, which its TcpClient makes, with  *)
(* the server callbacks of tcprelay.cc (balancer.cc has the same ones).    *)
(* When the output buffer of one side reaches the high water mark, reading *)
(* from the other side stops until that buffer has been written.           *)
(*                                                                         *)
(* Everything runs in one loop: an iteration handles at most one event of  *)
(* each connection, then the functors that were queued.  A connection that *)
(* is readable and writable at once is handled in two iterations.  Bytes   *)
(* are counted in units.                                                   *)
(***************************************************************************)
EXTENDS Integers, Sequences

CONSTANTS
    highWaterMark,   \* 1024*1024
    MaxRead,         \* the most one readFd brings
    MaxUnits         \* what each peer sends in all

(* There is a mark, and what is read and sent is counted.                  *)
ASSUME TunnelAssumption == highWaterMark \in Nat \ {0} /\ MaxRead \in Nat /\ MaxUnits \in Nat

VARIABLES
    conn,            \* the two connections
    context,         \* serverConn_'s context holds the client connection
    clientConn_,     \* clientConn_ is not null
    tunnels,         \* g_tunnels holds the tunnel
    pending,         \* the functors queued in the loop
    handled,         \* connections handled in this iteration
    fed,             \* units each peer still has to send
    fault            \* what went wrong, "none" while the program runs

socksVars == <<conn, context, clientConn_, tunnels, pending, handled, fed, fault>>

Sides == {"server", "client"}
Other(x) == IF x = "server" THEN "client" ELSE "server"

(* onServerConnection, UP: reading waits for the client connection;        *)
(* setup() installs the callback for the high water mark.                  *)
TunnelInit ==
    /\ conn = [x \in Sides |->
                  [state |-> IF x = "server" THEN "kConnected" ELSE "kConnecting",
                   reading |-> FALSE, in |-> 0, out |-> 0, onComplete |-> FALSE]]
    /\ context = FALSE /\ clientConn_ = FALSE /\ tunnels = TRUE
    /\ pending = <<>> /\ handled = {}
    /\ fed = [x \in Sides |-> MaxUnits]
    /\ fault = "none"

Up(x) == conn[x].state \in {"kConnected", "kDisconnecting"}

----------------------------------------------------------------------------
(* TcpConnection, as far as the tunnel sees it: what a send() of n units   *)
(* leaves in the record and which functors it queues.                      *)

Sent(c, n, wrote) ==
    IF c.state # "kConnected" THEN c ELSE [c EXCEPT !.out = @ + n - wrote]

Queued(x, n, wrote) ==
    LET c == conn[x] IN
    CASE c.state # "kConnected" -> <<>>
      [] n - wrote = 0 /\ c.onComplete /\ c.out = 0 -> <<<<"complete", x>>>>
      [] n - wrote > 0 /\ c.out < highWaterMark /\ c.out + n - wrote >= highWaterMark
            -> <<<<"mark", x>>>>
      [] OTHER -> <<>>

(* What a write(2) of n units may take: all of it only if nothing waits.   *)
Writes(x, n) == IF conn[x].out = 0 THEN 0..n ELSE {0}

Event(x) == "later" \notin handled /\ x \notin handled /\ fault = "none"

(* handleRead: onServerMessage leaves the bytes in the input buffer while  *)
(* there is no client connection, and so does send() to a connection that  *)
(* is being closed; onClientMessage forwards.                              *)
Readable(x) ==
    /\ Event(x) /\ Up(x) /\ conn[x].reading
    /\ \E n \in 1..MaxRead :
        LET y == Other(x)
            len == conn[x].in + n
            forwards == (x = "server" => context) /\ conn[y].state = "kConnected"
        IN
        /\ n <= fed[x]
        /\ fed' = [fed EXCEPT ![x] = @ - n]
        /\ IF forwards
           THEN \E wrote \in Writes(y, len) :
                /\ conn' = [conn EXCEPT ![x].in = 0, ![y] = Sent(@, len, wrote)]
                /\ pending' = pending \o Queued(y, len, wrote)
           ELSE conn' = [conn EXCEPT ![x].in = len] /\ UNCHANGED pending
    /\ handled' = handled \cup {x}
    /\ UNCHANGED <<context, clientConn_, tunnels, fault>>

(* handleWrite *)
Writable(x) ==
    /\ Event(x) /\ Up(x) /\ conn[x].out > 0
    /\ \E n \in 1..conn[x].out :
        /\ conn' = [conn EXCEPT ![x].out = @ - n]
        /\ pending' = IF n = conn[x].out /\ conn[x].onComplete
                      THEN Append(pending, <<"complete", x>>) ELSE pending
    /\ handled' = handled \cup {x}
    /\ UNCHANGED <<context, clientConn_, tunnels, fed, fault>>

Shut(c) == [c EXCEPT !.state = IF @ = "kConnected" THEN "kDisconnecting" ELSE @]
Closed(c) == [c EXCEPT !.state = "kDisconnected", !.reading = FALSE]

(* The channel is watched, so the end of the connection is noticed. *)
Closes(x) == Event(x) /\ Up(x) /\ (conn[x].reading \/ conn[x].out > 0)

(* handleClose of the server connection: onServerConnection, DOWN, calls   *)
(* disconnect(), which shuts the client connection down.                   *)
ServerDown ==
    /\ Closes("server")
    /\ conn' = [conn EXCEPT !["server"] = Closed(@), !["client"] = Shut(@)]
    /\ tunnels' = FALSE
    /\ handled' = handled \cup {"server"}
    /\ UNCHANGED <<context, clientConn_, pending, fed, fault>>

(* handleClose of the client connection: onClientConnection, DOWN, calls   *)
(* teardown(); removeConnection queues connectDestroyed, and until that    *)
(* has run the callbacks of the connection keep the tunnel alive.          *)
ClientDown ==
    /\ Closes("client")
    /\ conn' = [conn EXCEPT !["client"] = Closed(@), !["server"] = Shut(@)]
    /\ context' = FALSE /\ clientConn_' = FALSE
    /\ pending' = Append(pending, <<"destroyed", "client">>)
    /\ handled' = handled \cup {"client"}
    /\ UNCHANGED <<tunnels, fed, fault>>

(* onClientConnection, UP: what the server connection has read meanwhile   *)
(* is forwarded.                                                           *)
ClientUp ==
    /\ Event("client") /\ conn["client"].state = "kConnecting"
    /\ LET len == conn["server"].in
           new == [conn["client"] EXCEPT !.state = "kConnected", !.reading = TRUE]
       IN  \E wrote \in 0..len :
           conn' = [conn EXCEPT !["server"].reading = TRUE, !["server"].in = 0,
                                !["client"] = [new EXCEPT !.out = len - wrote]]
    /\ context' = TRUE /\ clientConn_' = TRUE
    /\ handled' = handled \cup {"client"}
    /\ UNCHANGED <<tunnels, pending, fed, fault>>

----------------------------------------------------------------------------
(* The functors, in the order they were queued *)

(* weak_ptr::lock in onHighWaterMarkWeak and onWriteCompleteWeak *)
Alive ==
    \/ tunnels
    \/ conn["client"].state # "kDisconnected"
    \/ \E i \in DOMAIN pending : pending[i] = <<"destroyed", "client">>

(* onHighWaterMark(x): the check that the buffer is still not empty comes  *)
(* before the other side's reading stops.                                  *)
onHighWaterMark_NoCallback(x) ==
    IF conn[x].out = 0 THEN UNCHANGED <<conn, fault>>
    ELSE conn' = [conn EXCEPT ![Other(x)].reading = FALSE] /\ UNCHANGED fault

onHighWaterMark_NoStop(x) ==
    conn' = [conn EXCEPT ![x].onComplete = TRUE] /\ UNCHANGED fault

onHighWaterMark(x) ==
    IF x = "server" /\ conn[x].out = 0 THEN UNCHANGED <<conn, fault>>
    ELSE IF ~ clientConn_ THEN fault' = "nullClientConn" /\ UNCHANGED conn
    ELSE IF conn[x].out = 0 THEN UNCHANGED <<conn, fault>>
    ELSE /\ conn' = [conn EXCEPT ![Other(x)].reading = FALSE, ![x].onComplete = TRUE]
         /\ UNCHANGED fault

(* onWriteComplete(x): startRead() on a server connection that has been    *)
(* destroyed would put its channel back into the poller.                   *)
onWriteComplete(x) ==
    IF ~ clientConn_ THEN fault' = "nullClientConn" /\ UNCHANGED conn
    ELSE IF ~ Up(Other(x)) THEN fault' = "startReadAfterClose" /\ UNCHANGED conn
    ELSE /\ conn' = [conn EXCEPT ![Other(x)].reading = TRUE, ![x].onComplete = FALSE]
         /\ UNCHANGED fault

(* One functor of doPendingFunctors; an empty queue ends the iteration. *)
RunFunctor ==
    /\ fault = "none" /\ pending # <<>>
    /\ LET f == Head(pending) IN
       IF f[1] = "destroyed" \/ ~ Alive THEN UNCHANGED <<conn, fault>>
       ELSE IF f[1] = "mark" THEN onHighWaterMark(f[2])
       ELSE onWriteComplete(f[2])
    /\ pending' = Tail(pending)
    /\ handled' = handled \cup {"later"}
    /\ UNCHANGED <<context, clientConn_, tunnels, fed>>

EndIteration ==
    /\ fault = "none" /\ pending = <<>> /\ handled # {}
    /\ handled' = {}
    /\ UNCHANGED <<conn, context, clientConn_, tunnels, pending, fed, fault>>

Loop == RunFunctor \/ EndIteration

TunnelNext ==
    \/ \E x \in Sides : Readable(x) \/ Writable(x)
    \/ ServerDown \/ ClientDown \/ ClientUp
    \/ Loop

(* The loop goes on; a peer that is connected keeps reading what is        *)
(* written to it, although not in every iteration.                         *)
TunnelFairness == WF_socksVars(Loop) /\ \A x \in Sides : SF_socksVars(Writable(x))

TunnelSpec == TunnelInit /\ [][TunnelNext]_socksVars /\ TunnelFairness

----------------------------------------------------------------------------
(* Properties *)

(* While both connections are up, the callbacks find both of them: only a  *)
(* callback that is still queued or installed when one side goes down      *)
(* meets a null clientConn_ or a destroyed server connection.              *)
FaultsNeedAClose ==
    /\ fault = "nullClientConn" => conn["client"].state = "kDisconnected"
    /\ fault = "startReadAfterClose" => conn["server"].state = "kDisconnected"

(* The high water marks bound the output buffers: what is added after a    *)
(* mark is passed is at most the one read that passed it; and the          *)
(* callbacks that do this meet no connection that is gone before one ends. *)
OutputBounded ==
    /\ \A x \in Sides : conn[x].out <= highWaterMark - 1 + MaxRead
    /\ FaultsNeedAClose

(* A side that has been paused is read again once the other side's output  *)
(* is written, unless one of the two connections ends.                     *)
PausedIsResumed ==
    \A x \in Sides :
        clientConn_ /\ Up(x) /\ ~ conn[x].reading
            ~> conn[x].reading \/ ~ Up("server") \/ ~ Up("client")
=============================================================================
