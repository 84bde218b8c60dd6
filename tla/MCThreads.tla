----------------------------- MODULE MCThreads -----------------------------
(* EventLoopThread, ThreadPool and AsyncLogging, which own threads, and     *)
(* Acceptor, whose descriptors other threads compete for.                   *)
(* They are checked one at a time: part says which of them this behaviour   *)
(* is about, and the variables of the others keep their initial values.     *)
(* In the pool two of the tasks pass a third to run().                      *)
EXTENDS EventLoopThread, Services

CONSTANTS
    a, b, a1, b1,
    rollSize_, flushInterval_, checkEveryN_, kRollPerSeconds_,
    MaxLines, MaxTime, kLargeBuffer, MaxToWrite

VARIABLES
    part,
    logRunning, currentBuffer_, nextBuffer_, buffers_, newBuffer1, newBuffer2,
    buffersToWrite, written, output, logThread, logOwner, appended, dropped, now

logVars == <<logRunning, currentBuffer_, nextBuffer_, buffers_, newBuffer1, newBuffer2,
             buffersToWrite, written, output, logThread, logOwner, appended, dropped, now>>
all == <<part, allVars, poolVars, logVars, acceptVars>>

Children == [t \in PoolTasks |-> CASE t = a -> a1 [] t = b -> b1 [] OTHER -> NoTask]

Log == INSTANCE AsyncLogging WITH
    running_ <- logRunning, thread <- logThread, owner <- logOwner

ASSUME Log!LogFileAssumption /\ Log!AsyncAssumption

AllInit ==
    /\ part \in {"loop", "pool", "log", "accept"}
    /\ ThreadInit /\ Pool!Init /\ Log!Init /\ Accept!Init
    /\ part # "pool" => numThreads = 0 /\ maxQueueSize_ = 0

AllNext ==
    \/ part = "loop" /\ ThreadSystemNext /\ UNCHANGED <<part, poolVars, logVars, acceptVars>>
    \/ part = "pool" /\ Pool!Next /\ UNCHANGED <<part, allVars, logVars, acceptVars>>
    \/ part = "log" /\ Log!Next /\ UNCHANGED <<part, allVars, poolVars, acceptVars>>
    \/ part = "accept" /\ Accept!Next /\ UNCHANGED <<part, allVars, poolVars, logVars>>

(* The fairness of FairThreadSpec and of the other specifications.          *)
Fairness ==
    /\ WF_allVars(part = "loop" /\ OwnerNext)
    /\ WF_allVars(part = "loop" /\ owner = "using" /\ WakeupStep(Owner) /\ UNCHANGED tvars)
    /\ WF_allVars(part = "loop" /\ ThreadFunc)
    /\ \A th \in Workers \cup Callers : WF_poolVars(part = "pool" /\ Pool!Proceed(th))
    /\ \A w \in Workers : WF_poolVars(part = "pool" /\ Pool!CountDown(w))
    /\ WF_poolVars(part = "pool" /\ Pool!OwnerProceeds)
    /\ WF_logVars(part = "log" /\ Log!ThreadProceeds)
    /\ WF_logVars(part = "log" /\ Log!Started)
    /\ WF_logVars(part = "log" /\ Log!Joined)
    /\ WF_acceptVars(part = "accept" /\ Accept!HandleRead)

AllSpec == AllInit /\ [][AllNext]_all /\ Fairness

-----------------------------------------------------------------------------
(* Unless the loop thread quits its own loop, startLoop() returns, and a    *)
(* destructor that finds loop() running ends it and joins the thread or     *)
(* finds the loop gone when it comes to wake it (EventLoopThread.cc).       *)
LoopThreadStartsAndEnds == StartLoopReturns /\ DestructorJoins

(* Every line appended is in the log once, in order, or on its way there,   *)
(* or was erased by the overload rule, which leaves a note; the spare       *)
(* buffers never run short, as the asserts of threadFunc() say; and no name *)
(* of a log file repeats although names count seconds (AsyncLogging.cc,     *)
(* LogFile.cc:93-108).                                                      *)
LogKeepsOrder == Log!LogKeepsOrder /\ Log!SparesSuffice /\ Log!OneFileASecond

(* A line appended while the thread runs is flushed or erased by the        *)
(* overload rule unless stop() comes, and stop() returns                    *)
(* (AsyncLogging.cc:69-134, AsyncLogging.h:47-52).                          *)
LinesReachFile == Log!LinesReachFile
=============================================================================
