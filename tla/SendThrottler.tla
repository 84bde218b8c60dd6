--------------------------- MODULE SendThrottler ---------------------------
(***************************************************************************)
(* examples/wordcount/hasher.cc: the main thread sends word counts through *)
(* a SendThrottler, whose connection lives in another thread's loop.  The  *)
(* loop sets congestion_ when the output buffer passes the high water mark *)
(* and clears it when everything is written; the main thread waits on      *)
(* cond_ before a batch while congestion_ is set.                          *)
(*                                                                         *)
(* The connection is up when the model starts (connect() has waited for    *)
(* connectLatch_).  A word is one unit.  The peer may drop the connection. *)
(***************************************************************************)
EXTENDS Integers, Sequences

CONSTANTS
    MaxWords,        \* the words of the files
    g_batchSize,
    highWaterMark,   \* 1024*1024
    MayDrop          \* the peer may close before it has seen the end

VARIABLES
    at,              \* where the main thread is
    words, buffer_,  \* words handed to send(), words in buffer_
    congestion_, disconnectLatch_,
    state, out,      \* the connection: state_ and the size of outputBuffer_
    finSent,         \* shutdownWrite has been called
    functors,        \* the loop's pending functors
    written,         \* words the peer has got
    overtaken        \* shutdownWrite came before a batch that was queued

vars == <<at, words, buffer_, congestion_, disconnectLatch_, state, out, finSent,
          functors, written, overtaken>>

Init ==
    /\ at = "send" /\ words = 0 /\ buffer_ = 0
    /\ congestion_ = FALSE /\ disconnectLatch_ = 1
    /\ state = "kConnected" /\ out = 0 /\ finSent = FALSE
    /\ functors = <<>> /\ written = 0 /\ overtaken = FALSE

Lost == state = "kDisconnected" /\ ~ finSent

----------------------------------------------------------------------------
(* The main thread *)

(* send(): a word is added; a full batch goes through throttle(). *)
AddWord ==
    /\ at = "send" /\ words < MaxWords
    /\ words' = words + 1 /\ buffer_' = buffer_ + 1
    /\ at' = IF buffer_ + 1 >= g_batchSize THEN "throttle" ELSE "send"
    /\ UNCHANGED <<congestion_, disconnectLatch_, state, out, finSent, functors, written, overtaken>>

(* throttle(), under mutex_: wait while congestion_. *)
Throttle ==
    /\ at \in {"throttle", "woken"}
    /\ at' = IF congestion_ THEN "waiting" ELSE "batch"
    /\ UNCHANGED <<words, buffer_, congestion_, disconnectLatch_, state, out, finSent,
                   functors, written, overtaken>>

(* cond_.wait() may also return without a notify. *)
SpuriousWakeup ==
    /\ at = "waiting" /\ at' = "woken"
    /\ UNCHANGED <<words, buffer_, congestion_, disconnectLatch_, state, out, finSent,
                   functors, written, overtaken>>

(* conn_->send(&buffer_) from another thread: the bytes are copied into a  *)
(* functor.  conn_ is null once the connection is down, and the main       *)
(* thread dereferences it: the program ends.                               *)
SendBuffer(n) == buffer_' = 0 /\ functors' = Append(functors, <<"send", n>>)

SendBatch ==
    /\ at = "batch"
    /\ IF state = "kDisconnected"
       THEN at' = "crashed" /\ UNCHANGED <<buffer_, functors>>
       ELSE at' = "send" /\ SendBuffer(buffer_)
    /\ UNCHANGED <<words, congestion_, disconnectLatch_, state, out, finSent, written, overtaken>>

(* disconnect(): the rest is sent, then shutdown(), which stores state_    *)
(* before it queues shutdownInLoop.                                        *)
SendRest ==
    /\ at = "send" /\ words = MaxWords
    /\ \/ buffer_ = 0 /\ at' = "shutdown" /\ UNCHANGED <<buffer_, functors>>
       \/ /\ buffer_ > 0 /\ state # "kDisconnected"
          /\ at' = "shutdown" /\ SendBuffer(buffer_)
       \/ /\ buffer_ > 0 /\ state = "kDisconnected"
          /\ at' = "crashed" /\ UNCHANGED <<buffer_, functors>>
    /\ UNCHANGED <<words, congestion_, disconnectLatch_, state, out, finSent, written, overtaken>>

Shutdown ==
    /\ at = "shutdown"
    /\ IF state = "kDisconnected"
       THEN at' = "crashed" /\ UNCHANGED state
       ELSE at' = "queueing" /\ state' = "kDisconnecting"
    /\ UNCHANGED <<words, buffer_, congestion_, disconnectLatch_, out, finSent, functors,
                   written, overtaken>>

QueueShutdown ==
    /\ at = "queueing" /\ at' = "latch"
    /\ functors' = Append(functors, <<"shutdown", 0>>)
    /\ UNCHANGED <<words, buffer_, congestion_, disconnectLatch_, state, out, finSent,
                   written, overtaken>>

Disconnected ==
    /\ at = "latch" /\ disconnectLatch_ = 0
    /\ at' = "done"
    /\ UNCHANGED <<words, buffer_, congestion_, disconnectLatch_, state, out, finSent,
                   functors, written, overtaken>>

----------------------------------------------------------------------------
(* The loop thread *)

Queue(fs, f) == Append(fs, <<f, 0>>)

(* TcpConnection::sendInLoop; after shutdownWrite the write fails (EPIPE). *)
SendInLoop(n, rest) ==
    IF state = "kDisconnected" \/ finSent
    THEN /\ functors' = rest /\ overtaken' = (overtaken \/ finSent)
         /\ UNCHANGED <<out, written>>
    ELSE \E wrote \in (IF out = 0 THEN 0..n ELSE {0}) :
         /\ written' = written + wrote
         /\ out' = out + n - wrote
         /\ functors' =
                IF wrote = n THEN Queue(rest, "complete")
                ELSE IF out < highWaterMark /\ out + n - wrote >= highWaterMark
                     THEN Queue(rest, "mark") ELSE rest
         /\ UNCHANGED overtaken

onHighWaterMark == congestion_' = TRUE

onWriteComplete_NoNotify == congestion_' = FALSE /\ UNCHANGED at

(* onWriteComplete, under mutex_: notify only if congestion_ was set. *)
onWriteComplete ==
    /\ congestion_' = FALSE
    /\ at' = IF congestion_ /\ at = "waiting" THEN "woken" ELSE at

RunFunctor ==
    /\ functors # <<>>
    /\ LET f == Head(functors)
           rest == Tail(functors)
       IN  \/ /\ f[1] = "send" /\ SendInLoop(f[2], rest)
              /\ UNCHANGED <<at, congestion_, finSent>>
           \/ /\ f[1] = "mark" /\ onHighWaterMark /\ functors' = rest
              /\ UNCHANGED <<at, out, finSent, written, overtaken>>
           \/ /\ f[1] = "complete" /\ onWriteComplete /\ functors' = rest
              /\ UNCHANGED <<out, finSent, written, overtaken>>
           \/ /\ f[1] = "shutdown"
              /\ finSent' = (finSent \/ (out = 0 /\ state # "kDisconnected"))
              /\ functors' = rest
              /\ UNCHANGED <<at, congestion_, out, written, overtaken>>
    /\ UNCHANGED <<words, buffer_, disconnectLatch_, state>>

(* TcpConnection::handleWrite: state_ may already be kDisconnecting while   *)
(* the batch sent before shutdown() is still among the functors.           *)
HandleWrite ==
    /\ state # "kDisconnected" /\ out > 0
    /\ \E n \in 1..out :
        /\ out' = out - n /\ written' = written + n
        /\ functors' = IF n = out THEN Queue(functors, "complete") ELSE functors
        /\ finSent' = (finSent \/ (n = out /\ state = "kDisconnecting"))
    /\ UNCHANGED <<at, words, buffer_, congestion_, disconnectLatch_, state, overtaken>>

(* handleClose, onConnection DOWN: the peer closes after the end, or drops *)
(* the connection; nobody who waits on cond_ is told.                      *)
ConnectionDown ==
    /\ state # "kDisconnected" /\ (finSent \/ MayDrop)
    /\ state' = "kDisconnected"
    /\ disconnectLatch_' = disconnectLatch_ - 1
    /\ UNCHANGED <<at, words, buffer_, congestion_, out, finSent, functors, written, overtaken>>

----------------------------------------------------------------------------
Main ==
    \/ AddWord \/ Throttle \/ SendBatch
    \/ SendRest \/ Shutdown \/ QueueShutdown \/ Disconnected
LoopThread == RunFunctor \/ HandleWrite

Next == Main \/ SpuriousWakeup \/ LoopThread \/ ConnectionDown

(* Both threads run, the peer reads, and it closes after the end. *)
Fairness ==
    /\ WF_vars(Main) /\ WF_vars(RunFunctor) /\ WF_vars(HandleWrite)
    /\ WF_vars(finSent /\ ConnectionDown)

Spec == Init /\ [][Next]_vars /\ Fairness

----------------------------------------------------------------------------
(* Properties *)

(* The sender gets through and the peer has every word: a sender that      *)
(* waits is told when the output is written, whatever the order in which   *)
(* mark and completion are reported.  The exceptions are a connection that *)
(* the peer drops, and a shutdown() that overtakes the batch queued before *)
(* it because handleWrite emptied the output buffer in between.            *)
SenderFinishes ==
    <>(Lost \/ overtaken \/ (at = "done" /\ written = MaxWords))
=============================================================================
