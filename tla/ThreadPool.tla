----------------------------- MODULE ThreadPool ----------------------------
(***************************************************************************)
(* muduo/base/ThreadPool.cc, with the part of Thread.cc and                *)
(* CountDownLatch.cc it starts its threads with: start(), run(), take()    *)
(* and stop() over one mutex and the conditions notEmpty_ and notFull_.    *)
(*                                                                         *)
(* A critical section of mutex_, up to its end or to a wait, is one step.  *)
(* A thread in a wait set leaves it when it is notified, or spuriously,    *)
(* and then evaluates its condition again.  Tasks are run by a thread of   *)
(* the pool, or by the caller when the pool has none; the body of a task   *)
(* may itself call run().                                                  *)
(***************************************************************************)
EXTENDS Naturals, Sequences, FiniteSets

CONSTANTS
    Workers,      \* the threads the pool may start
    Callers,      \* other threads, which call run()
    Tasks,        \* each is passed to run() once
    NoTask,       \* the empty Task
    Child,        \* Child[t]: the task t's body passes to run(), or NoTask
    ThreadCounts, \* possible arguments of start()
    QueueSizes    \* possible values of maxQueueSize_; 0 is no limit

TasksAssumption == NoTask \notin Tasks /\ Child \in [Tasks -> Tasks \cup {NoTask}]
SizesAssumption ==
    ThreadCounts \subseteq 0 .. Cardinality(Workers) /\ QueueSizes \subseteq Nat

VARIABLES
    numThreads, maxQueueSize_,  \* as start() and setMaxQueueSize() were called
    running_, queue_,
    notEmpty_, notFull_,        \* the wait sets, of take() and of run()
    threads_,                   \* the workers created so far
    latch_,                     \* latch_ of the Thread that start() is creating
    owner,                      \* where the thread that owns the pool is
    at,                         \* where each worker and caller is
    doing,                      \* the task it runs, or passes to run()
    given, executed             \* history: tasks passed to run(); tasks begun

setup == <<numThreads, maxQueueSize_>>
queue == <<running_, queue_>>
conds == <<notEmpty_, notFull_>>
owning == <<threads_, latch_, owner>>
history == <<given, executed>>
vars == <<setup, queue, conds, owning, at, doing, history>>

PoolThreads == Workers \cup Callers

Init ==
    /\ numThreads \in ThreadCounts /\ maxQueueSize_ \in QueueSizes
    /\ running_ = FALSE /\ queue_ = <<>>
    /\ notEmpty_ = {} /\ notFull_ = {}
    /\ threads_ = {} /\ latch_ = 0 /\ owner = "made"
    /\ at = [th \in PoolThreads |-> IF th \in Callers THEN "free" ELSE "none"]
    /\ doing = [th \in PoolThreads |-> NoTask]
    /\ given = {} /\ executed = <<>>

-----------------------------------------------------------------------------
(* Condition::notify wakes one waiter, if there is one.                     *)
Notify(waiters) == IF waiters = {} THEN {{}} ELSE {waiters \ {th} : th \in waiters}

isFull == maxQueueSize_ > 0 /\ Len(queue_) >= maxQueueSize_

Goes(th, place) == at' = [at EXCEPT ![th] = place]
Does(th, t) == doing' = [doing EXCEPT ![th] = t]

(* A thread whose task, or whose call of run(), has ended.                  *)
Returns(th) == Does(th, NoTask) /\ Goes(th, IF th \in Workers THEN "loop" ELSE "free")

-----------------------------------------------------------------------------
(* start(), one Thread after the other: Thread::start() creates the thread  *)
(* and waits for its latch_.                                                *)
Start ==
    /\ owner = "made" /\ owner' = "starting"
    /\ running_' = TRUE
    /\ UNCHANGED <<setup, queue_, conds, threads_, latch_, at, doing, history>>

StartThread(w) ==
    /\ owner = "starting" /\ latch_ = 0
    /\ Cardinality(threads_) < numThreads /\ w \notin threads_
    /\ threads_' = threads_ \cup {w} /\ latch_' = 1
    /\ Goes(w, "created")
    /\ UNCHANGED <<setup, queue, conds, owner, doing, history>>

(* ThreadData::runInThread(), up to func_().                                *)
CountDown(w) ==
    /\ at[w] = "created" /\ Goes(w, "loop")
    /\ latch_' = latch_ - 1
    /\ UNCHANGED <<setup, queue, conds, threads_, owner, doing, history>>

Started ==
    /\ owner = "starting" /\ latch_ = 0
    /\ Cardinality(threads_) = numThreads
    /\ owner' = "using"
    /\ UNCHANGED <<setup, queue, conds, threads_, latch_, at, doing, history>>

Stop_OneCondition ==
    /\ owner = "using" /\ owner' = "stopping"
    /\ running_' = FALSE
    /\ notEmpty_' = {}
    /\ UNCHANGED <<setup, queue_, notFull_, threads_, latch_, at, doing, history>>

(* stop(): under the mutex, then join() of the workers.                     *)
Stop ==
    /\ owner = "using" /\ owner' = "stopping"
    /\ running_' = FALSE
    /\ notEmpty_' = {} /\ notFull_' = {}
    /\ UNCHANGED <<setup, queue_, threads_, latch_, at, doing, history>>

Joined ==
    /\ owner = "stopping" /\ owner' = "stopped"
    /\ \A w \in threads_ : at[w] = "ended"
    /\ UNCHANGED <<setup, queue, conds, threads_, latch_, at, doing, history>>

-----------------------------------------------------------------------------
(* run(t), called by a caller or by the body of a task.                     *)
CallRun(th, t) ==
    /\ t \notin given /\ given' = given \cup {t}
    /\ Does(th, t) /\ Goes(th, "run")
    /\ UNCHANGED <<setup, queue, conds, owning, executed>>

CallerCalls(th, t) ==
    /\ at[th] = "free" /\ owner \in {"using", "stopping", "stopped"}
    /\ \A p \in Tasks : Child[p] # t
    /\ CallRun(th, t)

(* A pool without threads runs the task in the caller.                      *)
RunInline(th) ==
    /\ at[th] = "run" /\ threads_ = {}
    /\ executed' = Append(executed, doing[th])
    /\ Goes(th, "body")
    /\ UNCHANGED <<setup, queue, conds, owning, doing, given>>

RunWaits(th) ==
    /\ at[th] = "run" /\ threads_ # {}
    /\ isFull /\ running_
    /\ notFull_' = notFull_ \cup {th} /\ Goes(th, "wait")
    /\ UNCHANGED <<setup, queue, notEmpty_, owning, doing, history>>

(* After the wait: nothing once the pool has been stopped.                  *)
RunPushes(th) ==
    /\ at[th] = "run" /\ threads_ # {}
    /\ ~(isFull /\ running_)
    /\ IF running_
       THEN queue_' = Append(queue_, doing[th]) /\ notEmpty_' \in Notify(notEmpty_)
       ELSE UNCHANGED <<queue_, notEmpty_>>
    /\ Returns(th)
    /\ UNCHANGED <<setup, running_, notFull_, owning, history>>

-----------------------------------------------------------------------------
(* runInThread() tests running_ without the mutex.                          *)
TestRunning(w) ==
    /\ at[w] = "loop" /\ Goes(w, IF running_ THEN "take" ELSE "ended")
    /\ UNCHANGED <<setup, queue, conds, owning, doing, history>>

TakeWaits(w) ==
    /\ at[w] = "take"
    /\ queue_ = <<>> /\ running_
    /\ notEmpty_' = notEmpty_ \cup {w} /\ Goes(w, "wait")
    /\ UNCHANGED <<setup, queue, notFull_, owning, doing, history>>

TakeReturns_NoNotify(w) ==
    /\ at[w] = "take"
    /\ ~(queue_ = <<>> /\ running_)
    /\ \/ /\ queue_ # <<>>
          /\ queue_' = Tail(queue_)
          /\ executed' = Append(executed, Head(queue_))
          /\ Does(w, Head(queue_)) /\ Goes(w, "body")
       \/ /\ queue_ = <<>>
          /\ Goes(w, "loop")
          /\ UNCHANGED <<queue_, executed, doing>>
    /\ UNCHANGED <<setup, running_, conds, owning, given>>

(* take() returns a task, which then runs, or an empty one.                 *)
TakeReturns(w) ==
    /\ at[w] = "take"
    /\ ~(queue_ = <<>> /\ running_)
    /\ \/ /\ queue_ # <<>>
          /\ queue_' = Tail(queue_)
          /\ IF maxQueueSize_ > 0 THEN notFull_' \in Notify(notFull_) ELSE UNCHANGED notFull_
          /\ executed' = Append(executed, Head(queue_))
          /\ Does(w, Head(queue_)) /\ Goes(w, "body")
       \/ /\ queue_ = <<>>
          /\ Goes(w, "loop")
          /\ UNCHANGED <<queue_, notFull_, executed, doing>>
    /\ UNCHANGED <<setup, running_, notEmpty_, owning, given>>

(* A waiter that has been notified, or wakes spuriously, evaluates its      *)
(* condition again.                                                         *)
Wake(th) ==
    /\ at[th] = "wait" /\ Goes(th, IF doing[th] = NoTask THEN "take" ELSE "run")
    /\ notEmpty_' = notEmpty_ \ {th} /\ notFull_' = notFull_ \ {th}
    /\ UNCHANGED <<setup, queue, owning, doing, history>>

(* The body of a task: it ends, or passes its child to run() and then ends. *)
Body(th) ==
    /\ at[th] = "body"
    /\ LET child == Child[doing[th]]
       IN \/ child # NoTask /\ CallRun(th, child)
          \/ /\ child \in {NoTask} \cup given
             /\ Returns(th)
             /\ UNCHANGED <<setup, queue, conds, owning, history>>

-----------------------------------------------------------------------------
Proceed(th) ==
    \/ RunInline(th) \/ RunWaits(th) \/ RunPushes(th)
    \/ TestRunning(th) \/ TakeWaits(th) \/ TakeReturns(th)
    \/ Body(th)
    \/ th \notin notEmpty_ \cup notFull_ /\ Wake(th)

OwnerProceeds == (\E w \in Workers : StartThread(w)) \/ Started \/ Joined

Next ==
    \/ Start \/ Stop \/ OwnerProceeds
    \/ \E w \in Workers : CountDown(w)
    \/ \E th \in PoolThreads : Proceed(th) \/ Wake(th)
    \/ \E th \in Callers, t \in Tasks : CallerCalls(th, t)

(* Every thread that can take a step does; the owner need not stop, callers *)
(* need not call, and no spurious wakeup is promised.                       *)
Spec ==
    /\ Init /\ [][Next]_vars
    /\ \A th \in PoolThreads : WF_vars(Proceed(th))
    /\ \A w \in Workers : WF_vars(CountDown(w))
    /\ WF_vars(OwnerProceeds)

-----------------------------------------------------------------------------
(* No thread sleeps beside work or room that nobody else is coming for:     *)
(* while a worker waits for notEmpty_, the workers awake in the loop are as *)
(* many as the tasks queued, and while a thread waits for notFull_ the      *)
(* threads awake in run() are as many as the free places.  (One notify() a  *)
(* task and one a place, ThreadPool.cc:89 and :108, then suffice.)          *)
Awake(place) ==
    {th \in PoolThreads :
        \/ at[th] \in place
        \/ /\ at[th] = "wait" /\ th \notin notEmpty_ \cup notFull_
           /\ ("run" \in place) = (doing[th] # NoTask)}
NoSleeperBesideWork ==
    /\ notEmpty_ # {} => Len(queue_) <= Cardinality(Awake({"loop", "take"}))
    /\ notFull_ # {} => maxQueueSize_ <= Len(queue_) + Cardinality(Awake({"run"}))

(* Tasks are begun in the order run() queued them, once each, and the queue *)
(* keeps to its size: what has been begun and what is queued never repeat a *)
(* task, and a queued task has not been begun (run() and take()).           *)
TasksOnce ==
    LET all == executed \o queue_
    IN /\ \A i, j \in DOMAIN all : all[i] = all[j] => i = j
       /\ maxQueueSize_ > 0 => Len(queue_) <= maxQueueSize_

(* run() returns, and what it queued is begun, unless the pool is stopped   *)
(* or all its threads wait in run() themselves, for room that only they     *)
(* could make (ThreadPool.cc:83).                                           *)
PoolStuck ==
    /\ isFull
    /\ \A w \in threads_ : at[w] \in {"run", "wait"} /\ doing[w] # NoTask
GivenIsBegun ==
    \A t \in Tasks : t \in given ~> \/ \E i \in DOMAIN executed : executed[i] = t
                                    \/ ~running_ \/ PoolStuck

(* stop() returns: every worker leaves its wait, also one that waits in     *)
(* run() for room in its own queue, and a call of run() after stop()        *)
(* returns (ThreadPool.h:42, "Call after stop() will return immediately.").  *)
StopReturns ==
    /\ owner = "stopping" ~> owner = "stopped"
    /\ \A th \in Callers : (at[th] = "run" /\ ~running_) ~> at[th] = "free"
=============================================================================
