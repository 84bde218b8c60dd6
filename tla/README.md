# TLA+ specifications of the muduo network library

The repository collects study notes around one complete program: the C++ network library
**muduo** (`src/Linux多线程服务端编程/muduo/`): `muduo/base` (threads, synchronisation,
logging, time), `muduo/net` (the reactor, the TCP classes built on it, http and RPC), and
`examples` (servers and clients that use it). This directory specifies muduo and a number of its
example programs. Paths below are relative to `muduo/muduo/`; `examples/` is its sibling.

## The system

| component | state | operations | who else touches it |
|---|---|---|---|
| `net/EventLoop` | `quit_`, `pendingFunctors_`, `wakeupFd_`, `callingPendingFunctors_` | `loop`, `quit`, `runInLoop`, `queueInLoop`, `wakeup`, `doPendingFunctors` | any thread |
| `net/EventLoopThread(Pool)` | `loop_`, the thread, round-robin index | `startLoop`, `threadFunc`, destructor, `getNextLoop` | owner and loop thread |
| `net/Channel`, `net/poller/*` | interest set, `index_`, `channels_`, `pollfds_` | enabling, disabling, `updateChannel`, `removeChannel` | loop thread |
| `net/TimerQueue`, `net/Timer` | `timers_`, `activeTimers_`, `cancelingTimers_`, timerfd | `addTimer`, `cancel`, `handleRead`, `reset` | any thread through `runInLoop` |
| `net/Acceptor` | `idleFd_`, the listening socket | `listen`, `handleRead` | other threads, through the descriptor table |
| `net/TcpServer`, `net/TcpConnection` | `connections_`, `state_`, `reading_`, buffers | `newConnection`, `send`, `shutdown`, `forceClose`, handlers, destructors | any thread, base loop, I/O loops |
| `net/TcpClient`, `net/Connector` | `connect_`, `retry_`, `connection_`, `state_`, retry delay | `connect`, `disconnect`, `stop`, retry timer | any thread, one loop |
| `base/ThreadPool` | queue, two conditions, `running_` | `start`, `run`, `take`, `stop` | any thread |
| `base/AsyncLogging`, `base/LogFile` | double buffers, the log files | `append`, `threadFunc`, `stop`, roll, flush | any thread, logging thread |
| `net/Buffer`, the codecs, `net/http` | two indexes and storage, parser state | `append`, `retrieve`, `makeSpace`, `readFd`, `onMessage` | one I/O loop |
| `net/protorpc/RpcChannel` | `outstandings_`, `id_` | `CallMethod`, `onRpcMessage` | caller threads, I/O loop |

A thread that owns an `EventLoop` runs `loop()`. Each iteration polls through a `Poller`, calls
the handlers of the active `Channel`s, and then runs the functors that were queued.
`TimerQueue`, `Acceptor`, `Connector` and `TcpConnection` are users of channels. Nearly every
public call ends in `runInLoop` or `queueInLoop`, so what is hard in this library is what lies
between a call and its functor: the loop has gone to sleep, the object the functor names has
gone, its state has changed, or the loop has quit. The second difficulty is the order in which an
object that is used from its own callbacks may be taken apart. The programs on top add their own:
state shared by I/O threads, flow control through callbacks, input that arrives in pieces.

`PROJECT.json` lists the components, the hazards with their lines, and the lines each definition
stands for.

## Modules

| module | models | state and actions |
|---|---|---|
| `TaskQueue` | what `EventLoop` promises | a first-in first-out executor that runs functors only while it is running |
| `EventLoop` | `net/EventLoop.{h,cc}` | the members under the names of the code; `at` is the place of the loop thread in `loop()`; a critical section of `mutex_` is a step, the write to `wakeupFd_` after it is another |
| `EventLoopThread` | `net/EventLoopThread.cc` | composes `EventLoop` (by `EXTENDS`) with the owner's `startLoop()` and destructor and with `threadFunc()` |
| `Poller` | `net/Poller.h` | what both pollers promise: they watch for each registered channel exactly the events it asks for |
| `Channel`, `EPollPoller`, `PollPoller` | `net/Channel.{h,cc}`, `net/poller/*.cc` | the life of a channel; `updateChannel` and `removeChannel`; the kernel's interest list, and the vector `pollfds_` |
| `TimerQueue` | `net/TimerQueue.cc`, `Timer.h` | the three sets of timers, the timerfd, a heap whose addresses are reused, the functors of the loop |
| `Acceptor` | `net/Acceptor.cc` | a descriptor table shared with other threads; each system call of `handleRead()` is a step |
| `TcpConnection` | `net/TcpConnection.cc` | the member functions run in the loop, as functions from a connection's record to its next value |
| `TcpServer` | `net/TcpServer.cc`, thread side of `TcpConnection.cc`, `EventLoopThreadPool` | connections, loops with their functors, user threads, and the pointers that keep connections alive |
| `Connector`, `TcpClient` | `net/Connector.cc`, `net/TcpClient.cc` | the attempt under way, its channel and retry timer; composed with `TcpConnection` in one loop, with calls of the loop thread and of another thread |
| `ThreadPool` | `base/ThreadPool.cc`, and `Thread`, `CountDownLatch`, `Condition` as it uses them | one mutex, two wait sets, spurious wakeups; tasks that call `run()` themselves |
| `LogFile`, `AsyncLogging` | `base/LogFile.cc`, `FileUtil`, `base/AsyncLogging.cc` | rolling and flushing as operators on a record; the buffers that threads and the logging thread exchange |
| `Buffer` | `net/Buffer.{h,cc}` | a record with the vector and its indexes; every assertion of the code is kept in `ok` |
| `FramedCodecs` | `ProtobufCodecLite`, `examples` codec (chat, protobuf), `FastCgiCodec` | one iteration of an `onMessage()` loop: context and readable bytes to context, bytes retrieved, callbacks |
| `TextCodecs`, `Memcached` | `net/http`, the hub, sudoku, word count and memcached handlers | the same for lines; the memcached session and its items |
| `Streams` | `TcpConnection::handleRead` with one of these handlers | input arrives in pieces of any size, is read with `readFd()` and given to the handler |
| `RpcBalancer` | `net/protorpc`, `examples/protobuf/rpcbalancer` | callers, the balancer that renumbers, services that answer in any order, failing backends |
| `Multiplexer` | `examples/multiplexer` | both programs with the wire between them |
| `Tunnel` | `examples/socks4a/tunnel.h` | two connections in one loop, their buffers, the functors between them |
| `SendThrottler` | `examples/wordcount/hasher.cc` | a sending thread, a loop, and the congestion flag between them |
| `IdleConnection` | `examples/idleconnection` | the timing wheel and the sorted list, side by side on the same input |
| `Hub`, `ChatServer` | `examples/hub/hub.cc`, `examples/asio/chat/server_threaded_efficient.cc` | subscriptions kept twice; a list copied on write and walked without the mutex |
| `Pollers` | both pollers | `EPollPoller` and `PollPoller` with variables of their own; what `RegistrationConsistent` and `ImplementsPoller` say of the two |
| `Services` | `ThreadPool` and `Acceptor` | the same for these two, which share nothing but a run |
| `Loop_proof` | | theorems about `EventLoop`, `EventLoopThread` and `TimerQueue` |
| `Pollers_proof`, `Services_proof` | | theorems about the two pollers; about `Acceptor` and `ThreadPool` |
| `Apps_proof` | | theorems about `Hub`, `ChatServer`, `RpcBalancer` and `Tunnel` |
| `TcpConnection_proof`, `TcpServer_proof`, `TcpServerOrder_proof`, `TcpServerLife_proof` | | theorems about `TcpServer`, each module built on the one before (the last two both on `TcpServer_proof`) |

The `MC` modules give the constants values. `MCLoop`, `MCThreads` and `MCApps` put several
independent parts into one run: a variable that never changes (`part`, `app`) says which of them
a behaviour is about, the other parts keep their initial values, and each part has the next-state
relation and the fairness of its own specification. A part that theorems are about is brought in
by `EXTENDS` (the four programs of `Apps_proof`, `Pollers`, `Services`), so that the run and the
theorem speak of the same definition; the others by `INSTANCE`. Names that end in an underscore and words
(`Retry_NoCap`) are wrong versions of the definition they precede; they are used to see that
a property can fail and appear in no specification.

Conventions. User code is nondeterministic: where the code calls a callback, or is idle in the
loop thread, any call in the configuration may come. An assertion of the code that fails sets
`failed` (where a property is about assertions), after which the step's other effects do not
matter; only `Multiplexer` goes on after it, as the release build does. Sockets, peers, `epoll`,
`poll`, `timerfd` and `eventfd` are modelled by what the code sees of them.

## What the runs check

`tlc -config <cfg> <module>`, in this directory.

| run (cfg) | question | answer |
|---|---|---|
| `loop` (`MCLoop`) | two threads and the loop thread hand over two functors and quit at any moment; two timers, at two addresses or reusing one, are added and cancelled from a thread, the loop and callbacks; four channels on three descriptors are updated and removed in any order | no wakeup is lost (`NoLostWakeup`), the loop implements `TaskQueue`, functors run and `quit()` ends the loop even if `poll()` never times out (`LoopIsPrompt`); timer indexes agree, each timer has one owner and an alarm is set (`TimersConsistent`), a cancelled timer never comes back, timers run; no `epoll_ctl` fails, no pointer to a dead channel is left, `index_` follows every move (`RegistrationConsistent`), both pollers implement `Poller` |
| `threads` (`MCThreads`) | an owner starts a loop thread and destroys it at any moment; a pool whose tasks call `run()` is stopped at any moment; lines go through the logger; a listening socket meets a full descriptor table | no missed notification, no pointer to a missing loop, `join()` returns once `loop()` runs (all three unless the loop thread quits its own loop); no worker or caller sleeps beside work or room, tasks are begun once, `stop()` returns; each line is in the log once and in order or was dropped with a note, and is flushed; `Acceptor` closes only its own descriptors and answers waiting connections |
| `tcp` (`MCTcpServer`) | a connection in the base loop or in an I/O loop: sends, shutdown, forceClose, delays, a peer that closes or resets, pointers dropped | the code's assertions hold, callbacks come in pairs, connections are destroyed when they are down, output precedes shutdown, closing completes |
| `tcp_all_calls` (`MCTcpServerCalls`) | the same with racing `send` and `shutdown` of another thread, reading stopped and resumed, the server destroyed | bytes stay in order, functors bound to a plain `this` find their connection, `reading_` tells the truth while the connection is up |
| `tcp_client` (`MCTcpClient`) | a client connects, fails, retries, loses its connection, reconnects, is stopped and destroyed in the loop | sockets have one owner, one attempt at a time, the end is final, a client with retry reconnects |
| `codecs` (`MCStreams`) | nine protocols read up to three requests, good and malformed, cut at any byte | the Buffer is a queue of bytes and its assertions hold (`BufferIsQueue`), callbacks do not depend on the cuts (`CutsDoNotMatter`), what an encoder wrote is what the decoder delivers (`MessagesArrive`) |
| `apps` (`MCApps`) | seven programs | see below |
| `timers_add_returns_deleted` (`TimerQueueAdd`) | is the `TimerId` that `addTimer` returns the one of its timer? | **no**: the sequence number is read after the loop may have deleted the timer |
| `loopthread_quit_lost` (`EventLoopThreadQuit`) | does `~EventLoopThread` always return? | **no**: `loop()` clears a `quit_` that was set before it began |
| `tcp_force_close_race` (`MCTcpServerForceClose`) | is a connection erased once if another thread calls `forceClose()`? | **no**: its store to `state_` can overwrite `kDisconnected` |
| `tcp_server_dtor_threads` (`MCTcpServerDtorThreads`) | are connections disconnected before they are destroyed when a server with I/O threads goes? | **no**: an I/O loop can quit with `connectDestroyed` pending |
| `demux_asserts` (`MultiplexerAsserts`) | does `onSocksConnection` of the demultiplexer always find its entry? | **no**: the backend's end clears the table first |

The five answers in bold are behaviours of the code that a comment, a declaration or an assertion
of the code contradicts; `PROJECT.json` quotes the lines under `findings`.

The properties of `apps`: the asserts of `multiplexer.cc` hold, and a socks connection carries
the bytes of one client only as long as numbers stay with their backend connection
(`TunnelsArePrivate`); the high water mark bounds a tunnel's output and a side that was paused is
read again (`OutputBounded`, `PausedIsResumed`); a remote call's closure runs once, with its own
response, and does run when no backend fails (`OwnResponseOnce`, `CallsComplete`); the throttled
sender finishes and its peer has all words (`SenderFinishes`); wheel and list shut idle connections
down, in time and never early (`IdleIsShut`); topics and connections agree about subscriptions and
subscribers have the latest content (`SubscribersAreCurrent`); a list of connections never
changes under a thread that walks it (`WalksAreStable`).

Deadlock is checked in the runs of the loop and of the TCP classes. In `threads`, `codecs` and
`apps` behaviours end by themselves: a pool is stopped, a script has been read, words are sent.

### Bounds

- Two functors are enough for one to run while another is pushed, and for two to be in one batch;
  two threads for one to push while another owes its write. What more functors would do is
  proved (`Loop_proof`). The eventfd counter is
  capped at 2, so a write to a full counter is among the cases.
- Three descriptors let a removal from the front or the middle of `pollfds_` move another entry
  into the gap. Descriptor 0 is one of them. Two channels share a descriptor one after the other.
- Two timer sequence numbers and two addresses: the second timer may reuse the address of the
  first, so a stale `TimerId` can point to another timer. Time runs to 3, delays are 0 and 2,
  intervals 0 and 1: a repeating timer expires several times before the other one does.
- One connection in a server whose pool is empty or has one loop: all that connections share is
  the queue of a loop, and the two loops of one connection are the ones that race. A second
  connection makes the runs too long; the round-robin index is therefore exercised only for a
  pool of one. The theorems about `TcpServer` are for any connections and pools. Messages of two bytes allow a partial write.
- Three descriptors for a client: an old connection that a user keeps, one that waits to be
  destroyed, and the present connection or attempt. The retry delays 2 and 3 reach the cap at the
  first doubling. `MaxPending` bounds only what user code may add to a queue, never what the
  library queues.
- A pool of none, one or two threads, two callers, four tasks of which two call `run()`: both
  threads can wait in `run()` at once. Queues are unlimited or of size 1.
- Logging: a buffer holds two lines, the overload rule begins at three buffers instead
  of 26, a file rolls at two lines or at a period of three seconds; five lines pass through all
  of these. An Acceptor's table has three descriptors and three peers come: the table is full,
  is freed and fills again in the middle of `handleRead()`.
- Bytes are below 8 and a length is two of them in two's complement, so lengths can be negative
  and can be cut. The Buffer begins with four bytes of room and two of prepend space and readv's
  extra space is three, so that it moves, grows and overflows to the stack.
- Programs: one number for two clients makes reuse certain, and two backend connections let a
  client of the first meet the second; five units against a mark of two and
  reads of two; three calls of two processes over two backends; seven words in batches of two
  against a mark of three; five seconds for an idle time of two, with the clock set back once.

### Fairness

- `EventLoop`: a thread past its push goes on to write the eventfd; the loop thread goes on;
  `poll()` returns when the eventfd is readable. Nothing is asked of the ten-second timeout,
  which would hide a lost wakeup.
- `EventLoopThread`, `ThreadPool`, `AsyncLogging`: threads that can go on do. Nothing obliges the
  owner to start, stop or destroy, callers to call, or a spurious wakeup to come. In
  `AsyncLogging` the timed wait ends by itself; `flushInterval_` is the code's own guarantee.
- `TimerQueue`: time passes, a due timerfd becomes readable, the loop goes on, and it polls in
  each iteration however many functors are queued.
- `Acceptor`: the loop polls and `handleRead()` goes on. Peers and other threads are not fair.
- `TcpServer`: loops run (weak fairness for each step of each loop). Strong fairness for events
  and timers, because an event that is pending is reported by *some* later poll but is not
  enabled while the loop runs functors. The peer reads, so a socket becomes writable again.
- `TcpClient`: as above; a server exists, so that an attempt made again and again succeeds
  (strong fairness of `AttemptSucceeds`). User calls are never fair.
- `Tunnel`, `SendThrottler`, `RpcBalancer`: loops and threads go on and peers read. Services
  answer what they received. Failures are never fair.

## What is proved

`tlapm <module>` checks the proofs of a `_proof` module (three to twelve minutes each). All follow
one plan: a property that the runs check on a small instance is strengthened to an inductive
invariant, which every action is shown to keep, for all values of the constants. The theorems are
about the specifications without fairness, and so about those with it.

| module: theorem | states | assumes of the constants |
|---|---|---|
| `Loop_proof`: `Invariance`, `WakeupNotLost`, `QuitNotLost`, `FunctorsConserved` | `IInv`, `NoLostWakeup`, `NoLostQuit`, `Conservation` are invariants of `EventLoop` | `wakeupChannel_` is not another channel; the eventfd counter has room for one |
| `Loop_proof`: `Refinement` | `EventLoop` implements `TaskQueue` | the same |
| `Loop_proof`: `LiveLoop` | `OwnerSeesLiveLoop` of `EventLoopThread` | the same, and the owner is a thread |
| `Loop_proof`: `Consistent`, `CancelFinal` | `TimersConsistent` (`IndexesAgree`, `OneOwner`, `AlarmIsSet`), `CancelIsFinal` of `TimerQueue` | delays, intervals and bounds are natural numbers |
| `Pollers_proof`: `Registered` | `RegistrationConsistent`: `EpollCtlSucceeds` and `NoStalePointer` of `EPollPoller`, `IndexIsPosition` of `PollPoller` | a null pointer is no channel, descriptors are natural numbers |
| `Pollers_proof`: `PollersImplement` | `ImplementsPoller`: both implement `Poller` | the same |
| `Services_proof`: `SpareOwned` | `SpareIsOwned` of `Acceptor` | the size of the table and the number of peers are natural numbers |
| `Services_proof`: `PoolSleepers` | `NoSleeperBesideWork` of `ThreadPool` | finitely many threads; callers are not workers; sizes are natural numbers |
| `TcpServer_proof`: `Bytes` | `BytesInOrder` | pools are sequences of loops without the base loop; bounds are natural numbers |
| `TcpServer_proof`: `Reading` | `ReadingIsWatched` | the same |
| `TcpServerOrder_proof`: `RawSafe` | `RawFunctorsSafe` | the same |
| `TcpServerOrder_proof`: `Shutdown` | `ShutdownAfterOutput` | the same, and `NoStore` |
| `TcpServerLife_proof`: `Assertions`, `Lives` | `AssertionsHold`, `LivesInOrder` | the same, and `InTheLoop` |
| `Apps_proof`: `Current` | `SubscribersAreCurrent` of `Hub` | none |
| `Apps_proof`: `Stable` | `WalksAreStable` of `ChatServer` | none |
| `Apps_proof`: `OwnResponse` | `OwnResponseOnce` of `RpcBalancer` | the number of backends is a natural number |
| `Apps_proof`: `Bounded` | `OutputBounded` of `Tunnel` | the mark is positive; sizes are natural numbers |

Two theorems have a hypothesis that says how the library is used, where the property is false
without it:

- `NoStore`: no *other* thread calls `shutdown()` or `forceClose()`. Both test `state_` and then
  store to it without the loop's knowledge, so the store can hit a closed connection
  (`tcp_force_close_race`); a closed connection that looks open is shut down with output left.
  The hypothesis is that of the run `tcp`, where other threads call `send()`.
- `InTheLoop`: in the loop user code calls `send`, `shutdown`, `forceClose` and
  `forceCloseWithDelay`, other threads call `send` only, and the server is not destroyed. Calls
  outside it break the code's assertions in the ways listed below ("What the models showed").
  It too holds in the run `tcp`.

Why the strengthening is needed, and where the arguments turn:

- `EventLoop` (`IInv`). `NoLostWakeup` speaks of the moments before `poll()` only: a step that
  brings the loop there must know what was true earlier in the iteration. `WakeupInv` says it for
  every place of the loop thread: pending functors are covered by a readable eventfd, by a thread
  that owes a write, or by the fact that the loop has still to reach its swap. It needs `PlaceInv`,
  which ties the flags of the code to the place of the loop thread, above all
  `callingPendingFunctors_`, on which `queueInLoop` bases its decision to write. Reading the
  eventfd resets the counter, and is harmless because it happens before the swap of the same
  iteration. The refinement rests on `Conservation`: the functor the loop runs is the oldest one
  that was queued and not yet run.
- `EventLoopThread` (`LifeInv`). A step of the two threads is a step of the loop (`StepOfLoop`), so
  the lemmas about the loop carry over. `RunningInv` says that before the destructor's `quit()`
  nothing has ended the loop, and that a call which is lost is the write to the eventfd after it; `PublishedInv` ties `loop_` to the place of the thread, so that the
  destructor's unlocked read finds it set.
- `TimerQueue` (`TimerIInv`). `OwnInv` restates `OneOwner` by position in the queue of functors.
  `CancelInv` is what makes a cancellation final: sequence numbers are never reused, and a
  cancelled timer is gone or is in the running batch and marked in `cancelingTimers_`, which
  `handleRead()` clears only when there is no batch (`BatchInv`).
- `EPollPoller` (`EPollIInv`). `index_` must tell both what `channels_` holds and what the kernel
  holds (`EPollIndexInv`, `EPollKernelInv`). That an ADD never meets an entry of another channel
  rests on `EPollOwnerInv`: a descriptor belongs to one channel at a time.
- `PollPoller` (`PollIInv`). `PositionInv` says that `index_` maps the registered channels *onto*
  the positions of `pollfds_`; with `PollOwnerInv` it is one to one. So the last entry has a
  channel, and the removal that moves it finds that channel.
- `Acceptor` (`AcceptIInv`). `SpareFdInv` says which descriptors are the spare one at each call of
  `handleRead()`; between the `close` and the `open` none is, whatever number `idleFd_` still has.
- `ThreadPool` (`PoolIInv`). The code notifies one thread for each task and each free slot, so the
  invariant counts: while anybody waits for a task, there are at least as many threads on their way
  to the queue as tasks in it, and the same for room (`SleepInv`). The threads on their way
  (`SeekWork`, `SeekRoom`) are counted with `Cardinality`, which is why they must be finitely many.
- `TcpServer`, common part. `TypeInv` includes which loop each queued functor belongs to.
  `ConnStep` and the lemmas about queues split a step of the whole server into what it does
  to one connection (`ConnChange`) and to one queue (`QueueChange`: nothing, a pop, a push, both, or the
  destructor's pushes), where a queue is a loop's batch followed by its pending functors.
  The invariants below are kept by these few kinds of change.
- `Bytes` (`BytesInv`). What was written, followed by `outputBuffer_`, is what was accepted;
  `sendInLoop()` keeps it because it writes directly only when the buffer is empty. This needs
  nothing of `state_`, and so no hypothesis.
- `Reading` (`ReadingInv`). A connection that is not yet up is untouched: no pointer to it was kept,
  no call is under way, none is queued. So no `startRead` or `stopRead` comes before
  `connectEstablished()` enables reading.
- `RawSafe` (`RawInv`). When a connection leaves `connections_`, `connectDestroyed`, which owns a
  pointer, is queued in the same loop behind all its raw functors. Every later step keeps it
  behind them (`Behind`), since functors are taken from the front.
- `Shutdown` (`DrainInv`). Until a connection is closed its channel waits for POLLOUT exactly when
  there is output, and it was shut down only without output.
- `Assertions`, `Lives` (`LifeInv`). A connection is opening, open or over, and in each of these
  the control functors in the queues (`connectEstablished`, `removeConnectionInLoop`,
  `connectDestroyed`) are exactly the ones still due, once each. That a functor is queued *once*
  is what makes the second `erase()` or `connectDestroyed()` impossible.
- `Hub`. Subscribing sends nothing when a topic was never published; `UnpublishedInv` makes that
  consistent with being current.
- `ChatServer`. `WalkInv` adds what a walk has visited and has still to visit. That the list
  changed in place is nobody's is the reference count's test.
- `RpcBalancer` (`RpcIInv`). A message is followed over five queues: on the client's side its
  number is the one of its call (`OfProcess`), on a backend's side it is the one under which the
  balancer remembers that call (`OfSession`). Numbers are never reused, so a late response whose
  entry is gone is nobody else's.
- `Tunnel` (`TunnelIInv`). `MarkInv` says that output above the mark has its source paused or a
  functor queued that will pause it, and that the source reads nothing in between; `PauseInv` that
  a pause is ended only by a write that completed.

Most leaves name Zenon as their prover. It is fast on them, and the encoding for SMT infers
types over all the leaves of a module that it is given, so that it slows down when they are many;
SMT is left for arithmetic and sequences.

Only model-checked:

- All liveness properties (`LoopIsPrompt`, `TimersFire`, `LoopThreadStartsAndEnds`, `PoolServes`,
  `LinesReachFile`, `PeersAreAnswered`, `CloseCompletes`, `Reconnects`, `PausedIsResumed`, `CallsComplete`, `SenderFinishes`): fairness and `ENABLED`
  are out of the prover's reach.
- `BufferIsQueue`, `CutsDoNotMatter`, `MessagesArrive`, `LogKeepsOrder`: what recursive
  operators compute over bytes and lines is a matter of induction over data.
- `ClientAssertionsHold`, `OneSocketAnAttempt`, `EndedIsFinal`, `TunnelsArePrivate`, `IdleIsShut`:
  safety properties whose inductive invariants have not been worked out.

## What the models showed beside the runs

Cases that a configuration leaves out because the code goes wrong in them:

- `TcpClient::stop()` in another thread can come between the test in `removeConnection()` and
  the store in `Connector::restart()`, and is undone: with `ThreadCalls = {"stop"}` TLC finds
  `EndedIsFinal` violated. `~TcpClient` in the iteration that connected, or just after `stop()`,
  meets a queued functor of its connector: with `DestroyAnytime = TRUE` `ClientAssertionsHold`
  is violated.
- `~TcpServer` calls `connectDestroyed()` on connections in state `kDisconnecting` too, whose
  channel still waits for input; `Channel::remove` then fails its assertion. `AssertionsHold` is
  checked with `ServerEnds = FALSE`. A single-threaded server moreover destroys connections that
  queued functors name by a plain `this`.
- `startRead()` and `stopRead()` do not look at `state_`; after `handleClose()` they register
  the channel again. `ReadingIsWatched` is about connections that are up, and `AssertionsHold` is
  checked without the two calls.
- `PollPoller::removeChannel` asserts (`PollPoller.cc:122`) that an entry is marked as ignored;
  a channel whose first update asks for nothing (an `Acceptor` that never listened) is entered
  unmarked. The model leaves this assertion out and shows that the registration is right without it.
- Multiplexer: a number is given to the next client without waiting for the demultiplexer, so
  answers under way can reach that client. The model does not follow answers.
- http: a request line with a valid method and a bad version, followed by more bytes, makes
  the parser meet the assertion of `HttpRequest::setMethod` again; the scripts leave it out.

Exceptions that a property names:

- A loop thread that quits its own loop destroys it while the owner still has the pointer, and
  between the destructor's unlocked test of `loop_` and its `quit()`. Without such a quit, only the
  `wakeup()` at the end of the destructor's `quit()` can come after the loop is gone. The model
  lets these calls go through or end in the place `"lost"`, from which nothing follows
  (`otherQuit` in `OwnerSeesLiveLoop` and `DestructorJoins`).
- A backend connection of the multiplexer may come up before the clients of the last one are gone.
  Such a client still sends packets with its old number on the new connection and pushes the
  number to `availIds_` when it leaves, so that two clients can have the number and share a socks
  connection. The demultiplexer likewise handles the packets of a second backend connection that it
  has only shut down (`crossed` in `TunnelsArePrivate`). After that `MCApps` explores the steps of
  `MultiplexServer` only: its asserts are all that is still claimed, and no step of `DemuxServer`
  touches what they read.
- A functor that the loop thread queues before it calls `loop()` waits for the first `poll()`
  to end (`early` in `NoLostWakeup`).
- A `send()` or `shutdown()` in another thread that tested `state_` before the connection was
  closed can queue its functor after `connectDestroyed`; if the caller then drops its pointer,
  the functor, bound to a plain `this`, runs on a destroyed object (`late` in `RawFunctorsSafe`).
- A pool all of whose threads wait in `run()` for room that only they could make is stuck until
  `stop()` (`PoolStuck`).
- Lines appended after the logging thread's last swap are not written when `stop()` returns.
- Another thread that opens a descriptor while `Acceptor` has given up its spare leaves it with
  `idleFd_ = -1` until descriptors are freed; the loop spins on the waiting connection meanwhile
  (`stolen`).
- After one side of a tunnel has ended, a functor of the other can meet a null `clientConn_`, or
  call `startRead()` on a destroyed connection (`FaultsNeedAClose`).
- Sender of the word count: `shutdown()` may overtake a batch that `send()` queued in the loop
  (`overtaken`), and a peer that drops the connection leaves the sender waiting or with a null
  `conn_`.

Others:

- `TimerQueue::cancel` in the loop thread overtakes an `addTimerInLoop` that another thread has
  queued; the cancel finds nothing and the timer fires.
- `shutdown()` in another thread can put `kDisconnecting` over `kDisconnected`, as
  `forceClose()` can; `tcp_all_calls` shows what survives it. `TcpConnection.h` declares
  `shutdown()` not thread safe.
- Under `AsyncLogging` an append to `LogFile` is a whole buffer, so `checkEveryN_` counts
  buffers. The `notify()` of `stop()` is sent without the mutex and can be missed; the wait then
  ends with `flushInterval_`.
- `HttpServer` and `FastCgiCodec` handle one request per callback; a second request in the same
  read waits for more input. Their peers are modelled as waiting for the response. The sudoku
  server accepts or rejects a line that is too long depending on the cuts, and so does the
  memcached session for a command line of more than 1024 bytes; scripts have none.
- Requests outstanding on a backend that fails stay in the balancer's table for good.
- `Acceptor::handleRead()` tests `errno` after writing a log line; the model takes `errno` to
  survive it.
- A second `TcpClient::connect()` finds the connector in state `kConnected` for ever, so the
  model calls it once. Assumptions about user code there: the client is not destroyed from a
  callback of its connection, and one who keeps a connection beyond the client closes it. A retry
  timer expires only after the loop has waited in `poll()` at least once since it was set, which
  the delays of half a second and more justify (`due`).

## What is not modelled

The models cover the classes of muduo whose behaviour depends on the order of events, and the
example programs that add a protocol or shared state of their own. They stand for a small share of the
repository's lines, because most of it is not this system or has no behaviour of this kind:

- `recipes`: the book's step-by-step versions of the same classes. `reactor/s00` to `s13` repeat
  the reactor fourteen times; the last version became muduo, which is what is modelled. Mapping
  the copies to the same definitions would claim a translation nobody made.
- The rest of the notes: puzzles, exercises, course code and unrelated snippets, tests, benchmarks,
  generated code.
- Text and time conversion (`Logging`, `LogStream`, `Date`, `TimeZone`, `HttpResponse`,
  `inspect`), wrappers of system and library calls (`Socket`, `SocketsOps`, `Singleton`,
  `ThreadLocal`, `GzipFile`, `ZlibStream` and others): conversions without state between calls.
- `BlockingQueue`, `BoundedBlockingQueue`: the two conditions of `ThreadPool` without its `stop()`.
- The other examples, which use the library in the ways the modelled ones do, or compute and print.
- Within modelled parts: tasks that throw, `fwrite` that fails, errors of system calls that end
  the process, memcached's flags and expiry times, the iteration of the hub over the
  subscriptions it erases (one step), the timer in `EventLoop`'s own module (the two
  are composed only through the functor queue that `TimerQueue` models).

Candidates for proofs: `OneSocketAnAttempt` and `ClientAssertionsHold` of the client;
`TunnelsArePrivate` of the multiplexer; `Assertions` and `Lives` of the server for user code that
also stops and resumes reading while the connection is up.
