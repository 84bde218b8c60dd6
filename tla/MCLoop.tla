------------------------------- MODULE MCLoop -------------------------------
(* The event loop, its timer queue and its poller.  Each is checked on its  *)
(* own instance: part says which of them this behaviour is about, and the   *)
(* variables of the others keep their initial values.  newDefaultPoller()   *)
(* makes one of the two pollers.                                            *)
EXTENDS EventLoop, TimerQueue, Pollers, TLC

CONSTANTS c1, c2, c3, c4

(* Four channels on three descriptors, 0 among them; c4 reuses that of c1.  *)
FourOnThree == (c1 :> 0) @@ (c2 :> 1) @@ (c3 :> 2) @@ (c4 :> 0)

ASSUME TimerAssumption

VARIABLE part

all == <<part, vars, timerVars, epollVars, pollVars>>

AllInit ==
    /\ part \in {"loop", "timers", "epoll", "poll"}
    /\ Init /\ TimerInit /\ EPoll!Init /\ Poll!Init

(* The timers' bounds on time and on sequence numbers end its behaviours.   *)
TimersEnd == part = "timers" /\ now = MaxTime /\ UNCHANGED all

AllNext ==
    \/ part = "loop" /\ Next /\ UNCHANGED <<part, timerVars, epollVars, pollVars>>
    \/ part = "timers" /\ TimerNext /\ UNCHANGED <<part, vars, epollVars, pollVars>>
    \/ TimersEnd
    \/ part = "epoll" /\ EPoll!Next /\ UNCHANGED <<part, vars, timerVars, pollVars>>
    \/ part = "poll" /\ Poll!Next /\ UNCHANGED <<part, vars, timerVars, epollVars>>

(* The fairness of EventLoop's PromptSpec and of TimerQueue's FairTimerSpec. *)
Fairness ==
    /\ \A th \in Threads : WF_vars(part = "loop" /\ WakeupStep(th))
    /\ WF_vars(part = "loop" /\ LoopNext)
    /\ WF_vars(part = "loop" /\ wakeupFd_ > 0 /\ PollReady)
    /\ WF_timerVars(part = "timers" /\ Tick)
    /\ WF_timerVars(part = "timers" /\ Alarm)
    /\ WF_timerVars(part = "timers" /\ TimerfdReported)
    /\ WF_timerVars(part = "timers" /\ TimerLoopNext)

AllSpec == AllInit /\ [][AllNext]_all /\ Fairness

-----------------------------------------------------------------------------
(* A functor that is queued runs, and quit() ends loop(), although nothing  *)
(* but the eventfd wakes poll() (queueInLoop, quit, doPendingFunctors).     *)
LoopIsPrompt == PromptTask /\ QuitLeavesLoop
=============================================================================
