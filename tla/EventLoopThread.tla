-------------------------- MODULE EventLoopThread --------------------------
(***************************************************************************)
(* muduo/net/EventLoopThread.cc: a thread that makes an EventLoop, gives   *)
(* its address to the owner and runs it; and the owner, who starts the     *)
(* thread, uses the loop and destroys the EventLoopThread.  The loop is    *)
(* that of EventLoop, entered once.                                        *)
(***************************************************************************)
EXTENDS EventLoop

CONSTANT Owner   \* the thread that calls startLoop() and the destructor

ASSUME OwnerAssumption == Owner \in Threads

VARIABLES
    loop_,      \* loop_ # NULL
    waiting,    \* the owner is in cond_'s wait set
    thread,     \* where threadFunc() is
    owner,      \* where the owner is
    otherQuit   \* history: code in the loop thread has called quit()

tvars   == <<loop_, waiting, thread, owner, otherQuit>>
allVars == <<vars, tvars>>

ThreadPlaces ==
    {"none", "callback",   \* not started; running callback_
     "published",          \* loop_ is set, loop() is not yet entered
     "loop",               \* in loop(), or just returned from it
     "locked",             \* has set loop_ to NULL and holds mutex_
     "unlocked",           \* about to destroy the EventLoop
     "finished"}

OwnerPlaces ==
    {"made", "start",      \* before startLoop(); in its while loop
     "using",              \* startLoop() has returned
     "dtor",               \* has seen loop_ # NULL in the destructor
     "join", "gone",
     "lost"}               \* has called a loop that is gone

ThreadTypeOK ==
    /\ TypeOK
    /\ loop_ \in BOOLEAN /\ waiting \in BOOLEAN /\ otherQuit \in BOOLEAN
    /\ thread \in ThreadPlaces
    /\ owner \in OwnerPlaces

ThreadInit ==
    /\ Init
    /\ loop_ = FALSE /\ waiting = FALSE /\ otherQuit = FALSE
    /\ thread = "none" /\ owner = "made"

-----------------------------------------------------------------------------
(* startLoop(): starts the thread, then waits for loop_ under mutex_.       *)
StartThread ==
    /\ owner = "made"
    /\ owner' = "start"
    /\ thread' = "callback"
    /\ UNCHANGED <<vars, loop_, waiting, otherQuit>>

WaitForLoop ==
    /\ owner = "start" /\ ~waiting /\ thread # "locked"
    /\ IF loop_ THEN owner' = "using" /\ UNCHANGED waiting
                ELSE waiting' = TRUE /\ UNCHANGED owner
    /\ UNCHANGED <<vars, loop_, thread, otherQuit>>

SpuriousWakeup ==
    /\ waiting
    /\ waiting' = FALSE
    /\ UNCHANGED <<vars, loop_, thread, owner, otherQuit>>

(* The EventLoop object exists.                                             *)
LoopAlive == thread \in ThreadPlaces \ {"none", "finished"}

(* A call that reaches a destroyed loop, or NULL, has no defined outcome:   *)
(* it writes to memory and to a descriptor that nobody reads, as the call   *)
(* itself would, or the owner gets no further.                              *)
CallLost ==
    /\ owner' = "lost"
    /\ UNCHANGED <<vars, loop_, waiting, thread, otherQuit>>

(* The owner hands functors to the loop it was given.                       *)
UseLoop ==
    /\ owner = "using"
    /\ \/ /\ WakeupStep(Owner) \/ \E t \in Tasks : QueueInLoop(Owner, t)
          /\ UNCHANGED tvars
       \/ ~LoopAlive /\ CallLost

(* The destructor reads loop_ without mutex_.                               *)
Destroy ==
    /\ owner \in {"made", "using"}
    /\ Owner \notin owesWakeup
    /\ owner' = IF loop_ THEN "dtor" ELSE "gone"
    /\ UNCHANGED <<vars, loop_, waiting, thread, otherQuit>>

(* It reads loop_ again for the call of quit(), whose two steps can each    *)
(* come after the thread has ended.                                         *)
DestroyQuit ==
    /\ owner = "dtor"
    /\ \/ /\ Quit(Owner)
          /\ owner' = "join"
          /\ UNCHANGED <<loop_, waiting, thread, otherQuit>>
       \/ ~(LoopAlive /\ loop_) /\ CallLost

DestroyWakeup ==
    /\ owner = "join" /\ Owner \in owesWakeup
    /\ \/ WakeupStep(Owner) /\ UNCHANGED tvars
       \/ ~LoopAlive /\ CallLost

Join ==
    /\ owner = "join"
    /\ Owner \notin owesWakeup
    /\ thread = "finished"
    /\ owner' = "gone"
    /\ UNCHANGED <<vars, loop_, waiting, thread, otherQuit>>

-----------------------------------------------------------------------------
(* threadFunc().                                                            *)
Publish_NoNotify ==
    /\ thread = "callback"
    /\ loop_' = TRUE
    /\ thread' = "published"
    /\ UNCHANGED <<vars, waiting, owner, otherQuit>>

Publish ==
    /\ thread = "callback"
    /\ loop_' = TRUE
    /\ waiting' = FALSE
    /\ thread' = "published"
    /\ UNCHANGED <<vars, owner, otherQuit>>

EnterLoop ==
    /\ thread = "published"
    /\ LoopStart
    /\ thread' = "loop"
    /\ UNCHANGED <<loop_, waiting, owner, otherQuit>>

RunLoop ==
    /\ thread = "loop" /\ looping_
    /\ LoopNext
    /\ UNCHANGED tvars

Poll ==
    /\ thread = "loop"
    /\ PollReady \/ PollTimeout
    /\ UNCHANGED tvars

(* User code in the loop thread: callback_, or a callback or functor.       *)
UserCall ==
    /\ thread = "callback" \/ (thread = "loop" /\ looping_)
    /\ UserNext
    /\ otherQuit' = (otherQuit \/ quit_' # quit_)
    /\ UNCHANGED <<loop_, waiting, thread, owner>>

ClearLoop_BeforeLoop ==
    /\ thread \in {"published", "loop"} /\ ~looping_
    /\ loop_' = FALSE
    /\ thread' = "locked"
    /\ UNCHANGED <<vars, waiting, owner, otherQuit>>

ClearLoop ==
    /\ thread = "loop" /\ ~looping_
    /\ loop_' = FALSE
    /\ thread' = "locked"
    /\ UNCHANGED <<vars, waiting, owner, otherQuit>>

Unlock ==
    /\ thread = "locked"
    /\ thread' = "unlocked"
    /\ UNCHANGED <<vars, loop_, waiting, owner, otherQuit>>

DestroyLoop ==
    /\ thread = "unlocked"
    /\ thread' = "finished"
    /\ UNCHANGED <<vars, loop_, waiting, owner, otherQuit>>

-----------------------------------------------------------------------------
OwnerNext == WaitForLoop \/ DestroyQuit \/ DestroyWakeup \/ Join

ThreadFunc == Publish \/ EnterLoop \/ RunLoop \/ Poll \/ ClearLoop \/ Unlock \/ DestroyLoop

(* Everything is over: the owner is gone, and the thread, if any, finished. *)
Over == owner \in {"gone", "lost"} /\ thread \in {"none", "finished"} /\ UNCHANGED allVars

ThreadSystemNext ==
    \/ StartThread \/ SpuriousWakeup \/ UseLoop \/ Destroy
    \/ OwnerNext \/ ThreadFunc \/ UserCall \/ Over

ThreadSpec == ThreadInit /\ [][ThreadSystemNext]_allVars

(* Both threads run: nothing obliges the owner to start or to destroy, or   *)
(* the user's code to call anything.                                        *)
FairThreadSpec ==
    /\ ThreadSpec
    /\ WF_allVars(OwnerNext)
    /\ WF_allVars(owner = "using" /\ WakeupStep(Owner) /\ UNCHANGED tvars)
    /\ WF_allVars(ThreadFunc)

-----------------------------------------------------------------------------
(* As long as no code in the loop thread quits the loop itself, the owner   *)
(* has a pointer to a loop that exists, from startLoop()'s return to the    *)
(* store to quit_ in the destructor.  The one call that can meet a          *)
(* destroyed loop is the write of wakeup() after that store, as the comment *)
(* in quit() says (EventLoop.cc:139-141).                                   *)
(* The EventLoopThread, with the mutex_ and loop_ that threadFunc() uses to *)
(* the end, is destroyed after the thread ended.                            *)
OwnerSeesLiveLoop ==
    /\ ThreadTypeOK
    /\ ~otherQuit /\ owner \in {"using", "dtor"} => LoopAlive
    /\ ~otherQuit /\ owner = "gone" => thread \in {"none", "finished"}
    /\ ~otherQuit /\ owner = "lost" => thread = "finished" /\ Owner \in owesWakeup

(* startLoop() returns: the notification cannot be missed, unless the loop  *)
(* is quit by its own thread and loop_ is NULL again before the owner looks.*)
StartLoopReturns == owner = "start" ~> (owner # "start" \/ otherQuit)

(* A destructor called once loop() is running ends it, and join() returns.  *)
(* Nothing is said when the loop thread quits its loop itself: the          *)
(* destructor then calls a loop that may be gone (EventLoopThread.cc:30-33),*)
(* as wakeup() at the end of quit() may.                                    *)
DestructorJoins ==
    (owner = "dtor" /\ looping_) ~> (owner \in {"gone", "lost"} \/ otherQuit)

(* The destructor ends the loop and returns, whenever it is called, with    *)
(* the same exceptions.                                                     *)
DestructorReturns == owner = "dtor" ~> (owner \in {"gone", "lost"} \/ otherQuit)
=============================================================================
