----------------------------- MODULE EventLoop -----------------------------
(***************************************************************************)
(* muduo/net/EventLoop.{h,cc}: the hand-over of functors to a loop thread  *)
(* through pendingFunctors_ and the eventfd wakeupFd_, the iterations of   *)
(* loop(), and quit().                                                     *)
(*                                                                         *)
(* One thread, the loop thread, owns the EventLoop; Threads are the        *)
(* others.  A critical section of mutex_ is one step.  Everything a thread *)
(* does outside mutex_ that others can observe is a step of its own: the   *)
(* write to wakeupFd_ follows the push, or the store to quit_, later.      *)
(***************************************************************************)
EXTENDS Naturals, Sequences, FiniteSets

CONSTANTS
    Threads,      \* threads other than the loop thread
    Tasks,        \* functors; each is handed over at most once
    Channels,     \* I/O channels of the loop, other than wakeupChannel_
    Wakeup,       \* wakeupChannel_
    EventfdMax    \* largest value of an eventfd counter (2^64 - 2 in Linux)

ASSUME WakeupAssumption == Wakeup \notin Channels
ASSUME EventfdAssumption == EventfdMax \in Nat \ {0}

VARIABLES
    looping_,
    quit_,
    callingPendingFunctors_,
    pendingFunctors_,
    wakeupFd_,          \* the counter of the eventfd; readable when positive
    activeChannels_,    \* the active channels that are still to be handled
    functors,           \* doPendingFunctors' local vector, not yet run
    at,                 \* where the loop thread is
    inCallback,         \* user code is on the loop thread's stack
    owesWakeup,         \* threads past the push or the store to quit_, before the write
    queued, executed,   \* history: functors pushed, functors run from the queue
    inlined,            \* history: functors runInLoop called directly
    early               \* history: pushed by the loop thread outside loop()

vars == <<looping_, quit_, callingPendingFunctors_, pendingFunctors_, wakeupFd_,
          activeChannels_, functors, at, inCallback, owesWakeup, queued,
          executed, inlined, early>>

loopVars == <<looping_, callingPendingFunctors_, activeChannels_, functors, at, inCallback>>
history  == <<queued, executed, inlined, early>>

Places == {"out", "while", "poll", "handle", "swap", "call"}

Elements(s) == {s[i] : i \in DOMAIN s}

TypeOK ==
    /\ looping_ \in BOOLEAN /\ quit_ \in BOOLEAN
    /\ callingPendingFunctors_ \in BOOLEAN /\ inCallback \in BOOLEAN
    /\ pendingFunctors_ \in Seq(Tasks) /\ functors \in Seq(Tasks)
    /\ wakeupFd_ \in 0 .. EventfdMax
    /\ activeChannels_ \subseteq Channels \cup {Wakeup}
    /\ at \in Places
    /\ owesWakeup \subseteq Threads
    /\ queued \in Seq(Tasks) /\ executed \in Seq(Tasks)
    /\ inlined \subseteq Tasks /\ early \subseteq Tasks

Init ==
    /\ looping_ = FALSE /\ quit_ = FALSE
    /\ callingPendingFunctors_ = FALSE
    /\ pendingFunctors_ = <<>>
    /\ wakeupFd_ = 0
    /\ activeChannels_ = {}
    /\ functors = <<>>
    /\ at = "out" /\ inCallback = FALSE
    /\ owesWakeup = {}
    /\ queued = <<>> /\ executed = <<>> /\ inlined = {} /\ early = {}

-----------------------------------------------------------------------------
(* The counter after one write: a write to a full eventfd fails (EAGAIN,    *)
(* wakeup() logs it) and leaves the counter as it is.                       *)
AfterWakeup == IF wakeupFd_ < EventfdMax THEN wakeupFd_ + 1 ELSE wakeupFd_

(* The counter after handleRead(): reading an eventfd resets it.            *)
AfterRead == 0

Fresh(t) == t \notin Elements(queued) \cup inlined

Push(t) ==
    /\ Fresh(t)
    /\ pendingFunctors_' = Append(pendingFunctors_, t)
    /\ queued' = Append(queued, t)

(* Calls of threads other than the loop thread.  There runInLoop(cb) is     *)
(* queueInLoop(cb).                                                         *)
QueueInLoop(th, t) ==
    /\ th \notin owesWakeup
    /\ Push(t)
    /\ owesWakeup' = owesWakeup \cup {th}
    /\ UNCHANGED <<loopVars, quit_, wakeupFd_, executed, inlined, early>>

Quit_NoWakeup(th) ==
    /\ th \notin owesWakeup
    /\ quit_' = TRUE
    /\ UNCHANGED <<loopVars, pendingFunctors_, wakeupFd_, owesWakeup, history>>

Quit(th) ==
    /\ th \notin owesWakeup
    /\ quit_' = TRUE
    /\ owesWakeup' = owesWakeup \cup {th}
    /\ UNCHANGED <<loopVars, pendingFunctors_, wakeupFd_, history>>

WakeupStep(th) ==
    /\ th \in owesWakeup
    /\ wakeupFd_' = AfterWakeup
    /\ owesWakeup' = owesWakeup \ {th}
    /\ UNCHANGED <<loopVars, quit_, pendingFunctors_, history>>

-----------------------------------------------------------------------------
(* Calls of user code in the loop thread: in a channel's callback, in a     *)
(* functor, or outside loop().  isInLoopThread() holds.                     *)
UserCode == inCallback \/ at = "out"

NeedsWakeup_Never == FALSE
NeedsWakeup == callingPendingFunctors_

LoopQueueInLoop(t) ==
    /\ UserCode
    /\ Push(t)
    /\ wakeupFd_' = IF NeedsWakeup THEN AfterWakeup ELSE wakeupFd_
    /\ early' = IF at = "out" THEN early \cup {t} ELSE early
    /\ UNCHANGED <<loopVars, quit_, owesWakeup, executed, inlined>>

LoopRunInLoop(t) ==
    /\ UserCode
    /\ Fresh(t)
    /\ inlined' = inlined \cup {t}
    /\ UNCHANGED <<loopVars, quit_, pendingFunctors_, wakeupFd_, owesWakeup,
                   queued, executed, early>>

LoopQuit ==
    /\ UserCode
    /\ quit_' = TRUE
    /\ UNCHANGED <<loopVars, pendingFunctors_, wakeupFd_, owesWakeup, history>>

-----------------------------------------------------------------------------
(* loop(), step by step.                                                    *)
LoopStart ==
    /\ at = "out"
    /\ looping_' = TRUE
    /\ quit_' = FALSE
    /\ at' = "while"
    /\ UNCHANGED <<callingPendingFunctors_, activeChannels_, functors, inCallback,
                   pendingFunctors_, wakeupFd_, owesWakeup, history>>

While ==
    /\ at = "while"
    /\ at' = IF quit_ THEN "out" ELSE "poll"
    /\ looping_' = ~quit_
    /\ UNCHANGED <<quit_, callingPendingFunctors_, activeChannels_, functors, inCallback,
                   pendingFunctors_, wakeupFd_, owesWakeup, history>>

(* poll() returns with some of the ready channels.                          *)
PollReturn(active) ==
    /\ at = "poll"
    /\ (Wakeup \in active) => (wakeupFd_ > 0)
    /\ activeChannels_' = active
    /\ at' = "handle"
    /\ UNCHANGED <<looping_, quit_, callingPendingFunctors_, functors, inCallback,
                   pendingFunctors_, wakeupFd_, owesWakeup, history>>

PollReady == \E active \in (SUBSET (Channels \cup {Wakeup})) \ {{}} : PollReturn(active)

(* kPollTimeMs has passed, or a signal interrupted the call.                *)
PollTimeout == PollReturn({})

HandleEvent(c) ==
    /\ at = "handle"
    /\ c \in activeChannels_
    /\ activeChannels_' = activeChannels_ \ {c}
    /\ wakeupFd_' = IF c = Wakeup THEN AfterRead ELSE wakeupFd_
    /\ inCallback' = (c # Wakeup)
    /\ UNCHANGED <<looping_, quit_, callingPendingFunctors_, functors, at,
                   pendingFunctors_, owesWakeup, history>>

EventsDone ==
    /\ at = "handle"
    /\ activeChannels_ = {}
    /\ inCallback' = FALSE
    /\ callingPendingFunctors_' = TRUE
    /\ at' = "swap"
    /\ UNCHANGED <<looping_, quit_, activeChannels_, functors, pendingFunctors_,
                   wakeupFd_, owesWakeup, history>>

SwapFunctors ==
    /\ at = "swap"
    /\ functors' = pendingFunctors_
    /\ pendingFunctors_' = <<>>
    /\ at' = "call"
    /\ UNCHANGED <<looping_, quit_, callingPendingFunctors_, activeChannels_, inCallback,
                   wakeupFd_, owesWakeup, history>>

RunFunctor ==
    /\ at = "call"
    /\ functors # <<>>
    /\ executed' = Append(executed, Head(functors))
    /\ functors' = Tail(functors)
    /\ inCallback' = TRUE
    /\ UNCHANGED <<looping_, quit_, callingPendingFunctors_, activeChannels_, at,
                   pendingFunctors_, wakeupFd_, owesWakeup, queued, inlined, early>>

(* Stops as soon as quit_ is set, leaving the rest of the batch.            *)
FunctorsDone_OnQuit ==
    /\ at = "call"
    /\ functors = <<>> \/ quit_
    /\ functors' = <<>>
    /\ callingPendingFunctors_' = FALSE
    /\ inCallback' = FALSE
    /\ at' = "while"
    /\ UNCHANGED <<looping_, quit_, activeChannels_, pendingFunctors_, wakeupFd_,
                   owesWakeup, history>>

FunctorsDone ==
    /\ at = "call"
    /\ functors = <<>>
    /\ callingPendingFunctors_' = FALSE
    /\ inCallback' = FALSE
    /\ at' = "while"
    /\ UNCHANGED <<looping_, quit_, activeChannels_, functors, pendingFunctors_,
                   wakeupFd_, owesWakeup, history>>

-----------------------------------------------------------------------------
ThreadNext ==
    \E th \in Threads :
        \/ \E t \in Tasks : QueueInLoop(th, t)
        \/ Quit(th)
        \/ WakeupStep(th)

UserNext ==
    \/ \E t \in Tasks : LoopQueueInLoop(t) \/ LoopRunInLoop(t)
    \/ LoopQuit

(* The steps of the loop thread that need nothing from the outside.         *)
LoopNext ==
    \/ While
    \/ \E c \in Channels \cup {Wakeup} : HandleEvent(c)
    \/ EventsDone
    \/ SwapFunctors
    \/ RunFunctor
    \/ FunctorsDone

Next ==
    \/ ThreadNext
    \/ UserNext
    \/ LoopStart
    \/ LoopNext
    \/ PollReady
    \/ PollTimeout

Spec == Init /\ [][Next]_vars

(* A thread that has pushed goes on to write, and the loop thread goes on.  *)
(* poll() is only known to return when the eventfd is readable: nothing     *)
(* rests on its timeout or on other channels.                               *)
PromptSpec ==
    /\ Spec
    /\ \A th \in Threads : WF_vars(WakeupStep(th))
    /\ WF_vars(LoopNext)
    /\ WF_vars(wakeupFd_ > 0 /\ PollReady)

-----------------------------------------------------------------------------
(* No lost wakeup.  When the loop thread is about to block in poll() while  *)
(* a functor is pending, the eventfd is readable or a thread is on its way  *)
(* to write it: queueInLoop's test                                          *)
(* (!isInLoopThread() || callingPendingFunctors_) wakes the loop in every   *)
(* case that needs it.  The exception is a functor the loop thread queued   *)
(* itself outside loop(), which nothing wakes the loop for.                 *)
NoLostWakeup ==
    at \in {"while", "poll"} /\ ~(Elements(pendingFunctors_) \subseteq early)
        => wakeupFd_ > 0 \/ owesWakeup # {}

(* No lost quit.  When the loop thread is in or before poll() and quit_ is  *)
(* set, the eventfd is readable or about to be written.                     *)
NoLostQuit ==
    at = "poll" /\ quit_ => wakeupFd_ > 0 \/ owesWakeup # {}

(* The functors run so far, the batch doPendingFunctors swapped out and the *)
(* pending ones are together, in this order, exactly what was pushed: none  *)
(* is lost, doubled or overtaken, whatever is queued while a batch runs.    *)
Conservation == executed \o functors \o pendingFunctors_ = queued

TQ == INSTANCE TaskQueue WITH running <- looping_

(* queueInLoop and doPendingFunctors implement a first-in first-out         *)
(* executor that runs functors only while loop() is running.                *)
ImplementsTaskQueue == TQ!Spec

(* A functor handed over while the loop is running is run, or the loop is   *)
(* left, without waiting for the poll timeout.                              *)
PromptTask ==
    \A t \in Tasks :
        (looping_ /\ t \in Elements(pendingFunctors_) \ early)
            ~> (t \in Elements(executed) \/ ~looping_)

(* quit() called while the loop runs makes loop() return, without waiting   *)
(* for the poll timeout.                                                    *)
QuitLeavesLoop == (looping_ /\ quit_) ~> ~looping_
=============================================================================
