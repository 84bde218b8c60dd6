--------------------------- MODULE TcpConnection ---------------------------
(***************************************************************************)
(* muduo/net/TcpConnection.cc: one connection with its channel and socket, *)
(* as a record, and what each member function that runs in the loop thread *)
(* makes of it.  TcpServer runs these functions in the loops.              *)
(*                                                                         *)
(* A message is a sequence of numbered bytes, so that what is written to   *)
(* the socket can be compared with what was passed to send().  The channel *)
(* is registered with an EPollPoller.                                      *)
(***************************************************************************)
EXTENDS Naturals, Sequences, Functions

kDisconnected  == "kDisconnected"
kConnecting    == "kConnecting"
kConnected     == "kConnected"
kDisconnecting == "kDisconnecting"

States == {kDisconnected, kConnecting, kConnected, kDisconnecting}

(* What the socket's peer has done: nothing, closed its side, reset.        *)
Peer == {"open", "closed", "reset"}

(* Records of connections whose byte sequences are in Data.                 *)
Connection(Data) ==
    [state_ : States,
     reading_ : BOOLEAN,
     events_ : SUBSET {"in", "out"},
     added : BOOLEAN,               \* channel_'s addedToLoop_
     polled : BOOLEAN,              \* in the interest list of epoll
     outputBuffer_ : Data,
     written : Data,                \* what the kernel has taken from us
     accepted : Data,               \* history: what sendInLoop took
     shutdown : BOOLEAN,            \* shutdownWrite() was called
     peer : Peer,
     input : BOOLEAN,               \* unread bytes in the socket
     callback : {"none", "up", "down", "again"}]  \* history of connectionCallback_

(* The constructor.                                                         *)
NewConnection ==
    [state_ |-> kConnecting, reading_ |-> TRUE, events_ |-> {}, added |-> FALSE,
     polled |-> FALSE, outputBuffer_ |-> <<>>, written |-> <<>>, accepted |-> <<>>,
     shutdown |-> FALSE, peer |-> "open", input |-> FALSE, callback |-> "none"]

-----------------------------------------------------------------------------
(* Channel::update through EPollPoller::updateChannel: a registered channel *)
(* that asks for nothing is taken out of the interest list, one that is not *)
(* in the list is added, whatever it asks for.                              *)
Update(k, ev) ==
    [k EXCEPT !.events_ = ev, !.added = TRUE, !.polled = ~(@ /\ ev = {})]

enableReading(k)  == Update(k, k.events_ \cup {"in"})
disableReading(k) == Update(k, k.events_ \ {"in"})
enableWriting(k)  == Update(k, k.events_ \cup {"out"})
disableWriting(k) == Update(k, k.events_ \ {"out"})
disableAll(k)     == Update(k, {})

isWriting(k) == "out" \in k.events_
isReading(k) == "in" \in k.events_

(* connectionCallback_: once for the connection going up, once for down.    *)
CallUp(k) ==
    [k EXCEPT !.callback = IF @ = "none" THEN "up" ELSE "again"]

CallDown(k) ==
    [k EXCEPT !.callback = IF @ = "up" THEN "down" ELSE "again"]

-----------------------------------------------------------------------------
ConnectEstablished(k) == CallUp(enableReading([k EXCEPT !.state_ = kConnected]))

(* Up to the call of closeCallback_, which TcpServer models.                *)
HandleClose(k) == CallDown(disableAll([k EXCEPT !.state_ = kDisconnected]))

(* connectDestroyed() up to channel_->remove(), which asserts that the      *)
(* channel asks for no events.                                              *)
ConnectDestroyed(k) == IF k.state_ = kConnected THEN HandleClose(k) ELSE k

Removed_Unregistered(k) == [k EXCEPT !.polled = FALSE]
Removed(k) == [k EXCEPT !.added = FALSE, !.polled = FALSE]

(* write(2) of bytes: some of them are taken, none on EWOULDBLOCK; it fails *)
(* with EPIPE or ECONNRESET when our side was shut down or the peer reset.  *)
Broken(k) == k.shutdown \/ k.peer = "reset"

Taken(s) == {SubSeq(s, 1, n) : n \in 0 .. Len(s)}

Rest(s, p) == SubSeq(s, Len(p) + 1, Len(s))

(* The possible results of sendInLoop(data).                                *)
SendInLoop_Overtake(k, data) ==
    IF k.state_ = kDisconnected THEN {k}
    ELSE IF Broken(k) THEN {k}
    ELSE {LET sent == [k EXCEPT !.written = @ \o p, !.accepted = @ \o data,
                                !.outputBuffer_ = @ \o Rest(data, p)]
          IN IF Rest(data, p) # <<>> /\ ~isWriting(k) THEN enableWriting(sent) ELSE sent
          : p \in Taken(data)}

SendInLoop(k, data) ==
    LET direct == ~isWriting(k) /\ k.outputBuffer_ = <<>>
        Sent(p) == [k EXCEPT !.written = @ \o p, !.accepted = @ \o data,
                             !.outputBuffer_ = @ \o Rest(data, p)]
    IN
    IF k.state_ = kDisconnected \/ (direct /\ Broken(k)) THEN {k}
    ELSE {IF Rest(data, p) # <<>> /\ ~isWriting(k) THEN enableWriting(Sent(p)) ELSE Sent(p)
          : p \in IF direct THEN Taken(data) ELSE {<<>>}}

ShutdownInLoop_Always(k) == [k EXCEPT !.shutdown = TRUE]
ShutdownInLoop(k) == IF isWriting(k) THEN k ELSE [k EXCEPT !.shutdown = TRUE]

(* The possible results of handleWrite() on a writable socket.  A failed    *)
(* write changes nothing.                                                   *)
HandleWrite_NoShutdown(k) ==
    {LET left == [k EXCEPT !.written = @ \o p, !.outputBuffer_ = Rest(@, p)]
     IN IF left.outputBuffer_ = <<>> THEN disableWriting(left) ELSE left
     : p \in Taken(k.outputBuffer_) \ {<<>>}}

HandleWrite(k) ==
    {LET left == [k EXCEPT !.written = @ \o p, !.outputBuffer_ = Rest(@, p)]
     IN IF left.outputBuffer_ # <<>> THEN left
        ELSE IF k.state_ = kDisconnecting THEN ShutdownInLoop(disableWriting(left))
        ELSE disableWriting(left)
     : p \in Taken(k.outputBuffer_) \ {<<>>}}

StartReadInLoop(k) ==
    IF ~k.reading_ \/ ~isReading(k) THEN [enableReading(k) EXCEPT !.reading_ = TRUE] ELSE k

StopReadInLoop_KeepFlag(k) ==
    IF k.reading_ \/ isReading(k) THEN disableReading(k) ELSE k

StopReadInLoop(k) ==
    IF k.reading_ \/ isReading(k) THEN [disableReading(k) EXCEPT !.reading_ = FALSE] ELSE k

-----------------------------------------------------------------------------
(* What epoll_wait() reports of the channel.                                *)
Readable(k) == k.polled /\ isReading(k) /\ (k.input \/ k.peer # "open")
Writable(k) == k.polled /\ isWriting(k)
HungUp(k)   == k.polled /\ (k.peer = "reset" \/ (k.peer = "closed" /\ k.shutdown))

(* handleClose() is called by handleRead() at the end of the input, and by  *)
(* handleEvent on POLLHUP without POLLIN.                                   *)
Closes(k) == (Readable(k) /\ ~k.input) \/ (HungUp(k) /\ ~Readable(k))
=============================================================================
