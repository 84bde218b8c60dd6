----------------------------- MODULE TimerQueue ----------------------------
(***************************************************************************)
(* muduo/net/TimerQueue.{h,cc} and Timer.{h,cc}: timers added and          *)
(* cancelled from any thread, kept by the loop thread in two indexes and   *)
(* fired by one timerfd.                                                   *)
(*                                                                         *)
(* A Timer lives at a heap address that is reused once it is deleted; a    *)
(* TimerId is the pair of the address and the sequence number.  The loop   *)
(* is the first-in first-out executor that EventLoop implements: requests  *)
(* of other threads wait in requests, those of the loop thread are called  *)
(* at once.  Time is counted in units of the 100 microseconds that         *)
(* howMuchTimeFromNow takes as its minimum.                                *)
(***************************************************************************)
EXTENDS Integers, Sequences, FiniteSets

CONSTANTS
    TimerThreads,  \* threads other than the loop thread
    Addrs,         \* heap addresses a Timer may be given
    Delays,        \* how far in the future a timer is set
    Intervals,     \* repetition intervals; 0 for a timer that does not repeat
    MaxTime,       \* bound: stands for this time and any later one
    MaxSeq,        \* bound: timers created
    MaxFunctors    \* bound: requests waiting in the loop

TimerAssumption ==
    /\ Delays \subseteq Nat /\ Intervals \subseteq Nat
    /\ MaxTime \in Nat /\ MaxSeq \in Nat /\ MaxFunctors \in Nat

VARIABLES
    now,                      \* Timestamp::now()
    heap,                     \* the Timer at each address
    s_numCreated_,
    timers_, activeTimers_,   \* entries <<expiration, address>>, <<address, sequence>>
    callingExpiredTimers_, cancelingTimers_,
    expired, toRun,           \* handleRead's batch, and what of it has not run
    batchNow,                 \* handleRead's local now
    armed,                    \* when the timerfd alarms; 0 when disarmed
    fired,                    \* the timerfd is readable
    reported,                 \* poll() has returned the timerfd, handleRead is due
    requests,                 \* requests other threads queued
    returning,                \* <<thread, address, sequence>>: addTimer calls not returned
    ids,                      \* TimerIds returned to users
    cancelled                 \* history: ids cancelled while the loop knew the timer

handleReadVars == <<callingExpiredTimers_, expired, toRun, batchNow, reported>>
timerVars == <<now, heap, s_numCreated_, timers_, activeTimers_, cancelingTimers_, armed,
               fired, requests, returning, ids, handleReadVars, cancelled>>

TimerIds == Addrs \X (1 .. MaxSeq)
Entries  == Nat \X Addrs
Freed    == [expiration |-> 0, interval |-> 0, sequence |-> 0]

Live(a) == heap[a].sequence # 0
Id(a)   == <<a, heap[a].sequence>>

TimerTypeOK ==
    /\ now \in 1 .. MaxTime
    /\ heap \in [Addrs -> [expiration : Nat, interval : Nat, sequence : 0 .. MaxSeq]]
    /\ s_numCreated_ \in 0 .. MaxSeq
    /\ timers_ \subseteq Entries /\ expired \subseteq Entries /\ toRun \subseteq expired
    /\ activeTimers_ \subseteq TimerIds /\ cancelingTimers_ \subseteq TimerIds
    /\ callingExpiredTimers_ \in BOOLEAN /\ (expired # {} => callingExpiredTimers_)
    /\ batchNow \in Nat /\ armed \in Nat
    /\ fired \in BOOLEAN /\ reported \in BOOLEAN
    /\ requests \in Seq([op : {"add"}, addr : Addrs] \cup [op : {"cancel"}, id : TimerIds])
    /\ returning \subseteq TimerThreads \X Addrs \X (1 .. MaxSeq)
    /\ ids \subseteq TimerIds /\ cancelled \subseteq TimerIds

TimerInit ==
    /\ now = 1
    /\ heap = [a \in Addrs |-> Freed]
    /\ s_numCreated_ = 0
    /\ timers_ = {} /\ activeTimers_ = {} /\ cancelingTimers_ = {}
    /\ callingExpiredTimers_ = FALSE /\ expired = {} /\ toRun = {} /\ batchNow = 0
    /\ armed = 0 /\ fired = FALSE /\ reported = FALSE
    /\ requests = <<>> /\ returning = {} /\ ids = {}
    /\ cancelled = {}

-----------------------------------------------------------------------------
(* Time passes; a timerfd that is due becomes readable.  At MaxTime any     *)
(* alarm may have come due.                                                 *)
Tick ==
    /\ now < MaxTime
    /\ now' = now + 1
    /\ UNCHANGED <<heap, s_numCreated_, timers_, activeTimers_, cancelingTimers_, armed,
                   fired, requests, returning, ids, handleReadVars, cancelled>>

Alarm ==
    /\ armed # 0
    /\ armed <= now \/ now = MaxTime
    /\ armed' = 0 /\ fired' = TRUE
    /\ UNCHANGED <<now, heap, s_numCreated_, timers_, activeTimers_, cancelingTimers_,
                   requests, returning, ids, handleReadVars, cancelled>>

(* timerfd_settime discards an alarm that has not been read.                *)
ResetTimerfd(expiration) ==
    /\ armed' = IF expiration > now THEN expiration ELSE now + 1
    /\ fired' = FALSE

-----------------------------------------------------------------------------
EarliestChanged(when) == \A e \in timers_ : when < e[1]

AddTimerInLoop(a, timer) ==
    /\ timers_' = timers_ \cup {<<timer.expiration, a>>}
    /\ activeTimers_' = activeTimers_ \cup {<<a, timer.sequence>>}
    /\ IF EarliestChanged(timer.expiration)
         THEN ResetTimerfd(timer.expiration)
         ELSE UNCHANGED <<armed, fired>>

(* The timer of id waits in the queue, or is in the batch that runs.        *)
Known(id) == id \in activeTimers_ \cup {Id(e[2]) : e \in expired}

(* A timer of the batch that runs is in neither index; it is deleted at     *)
(* once, although handleRead goes on using it.                              *)
CancelInLoop_DeleteAnyway(id) ==
    /\ timers_' = timers_ \ {<<heap[id[1]].expiration, id[1]>>}
    /\ activeTimers_' = activeTimers_ \ {id}
    /\ heap' = IF Id(id[1]) = id THEN [heap EXCEPT ![id[1]] = Freed] ELSE heap
    /\ UNCHANGED <<cancelingTimers_, cancelled>>

CancelInLoop(id) ==
    /\ IF id \in activeTimers_
         THEN /\ timers_' = timers_ \ {<<heap[id[1]].expiration, id[1]>>}
              /\ activeTimers_' = activeTimers_ \ {id}
              /\ heap' = [heap EXCEPT ![id[1]] = Freed]
              /\ UNCHANGED cancelingTimers_
         ELSE /\ cancelingTimers_' = IF callingExpiredTimers_
                                       THEN cancelingTimers_ \cup {id} ELSE cancelingTimers_
              /\ UNCHANGED <<timers_, activeTimers_, heap>>
    /\ cancelled' = IF Known(id) THEN cancelled \cup {id} ELSE cancelled

-----------------------------------------------------------------------------
(* addTimer: the constructor of Timer, in the caller's thread.              *)
NewTimer(a, timer) ==
    /\ ~Live(a)
    /\ s_numCreated_ < MaxSeq
    /\ timer.expiration <= MaxTime
    /\ timer.sequence = s_numCreated_ + 1
    /\ s_numCreated_' = s_numCreated_ + 1
    /\ heap' = [heap EXCEPT ![a] = timer]

Timers == {[expiration |-> now + d, interval |-> i, sequence |-> s_numCreated_ + 1] :
               d \in Delays, i \in Intervals}

Waiting(th) == \E r \in returning : r[1] = th

(* Another thread: the functor is queued, and only then does addTimer read  *)
(* timer->sequence() for the TimerId it returns.                            *)
AddTimer(th, a, timer) ==
    /\ ~Waiting(th)
    /\ Len(requests) < MaxFunctors
    /\ NewTimer(a, timer)
    /\ requests' = Append(requests, [op |-> "add", addr |-> a])
    /\ returning' = returning \cup {<<th, a, timer.sequence>>}
    /\ UNCHANGED <<now, timers_, activeTimers_, cancelingTimers_, armed, fired, ids,
                   handleReadVars, cancelled>>

(* What is read from a deleted Timer is anything.                           *)
AddTimerReturn(th, a, seq) ==
    /\ <<th, a, seq>> \in returning
    /\ \E read \in IF Live(a) THEN {heap[a].sequence} ELSE 1 .. MaxSeq :
           ids' = ids \cup {<<a, read>>}
    /\ returning' = returning \ {<<th, a, seq>>}
    /\ UNCHANGED <<now, heap, s_numCreated_, timers_, activeTimers_, cancelingTimers_, armed,
                   fired, requests, handleReadVars, cancelled>>

Cancel(th, id) ==
    /\ ~Waiting(th)
    /\ id \in ids
    /\ Len(requests) < MaxFunctors
    /\ requests' = Append(requests, [op |-> "cancel", id |-> id])
    /\ UNCHANGED <<now, heap, s_numCreated_, timers_, activeTimers_, cancelingTimers_, armed,
                   fired, returning, ids, handleReadVars, cancelled>>

-----------------------------------------------------------------------------
(* User code in the loop thread: the callback of another channel, a         *)
(* functor, or the callback of the timer that runs.                         *)
InUserCode == ~callingExpiredTimers_ \/ toRun # expired

LoopAddTimer(a, timer) ==
    /\ InUserCode
    /\ NewTimer(a, timer)
    /\ AddTimerInLoop(a, timer)
    /\ ids' = ids \cup {<<a, timer.sequence>>}
    /\ UNCHANGED <<now, cancelingTimers_, requests, returning, handleReadVars, cancelled>>

LoopCancel(id) ==
    /\ InUserCode
    /\ id \in ids
    /\ CancelInLoop(id)
    /\ UNCHANGED <<now, s_numCreated_, armed, fired, requests, returning, ids, handleReadVars>>

(* doPendingFunctors, after all the active channels have been handled.      *)
RunRequest ==
    /\ ~callingExpiredTimers_ /\ ~reported
    /\ requests # <<>>
    /\ requests' = Tail(requests)
    /\ LET f == Head(requests) IN
         \/ /\ f.op = "add"
            /\ AddTimerInLoop(f.addr, heap[f.addr])
            /\ UNCHANGED <<heap, cancelingTimers_, cancelled>>
         \/ /\ f.op = "cancel"
            /\ CancelInLoop(f.id)
            /\ UNCHANGED <<armed, fired>>
    /\ UNCHANGED <<now, s_numCreated_, returning, ids, handleReadVars>>

(* poll() returns the timerfd among the active channels.                    *)
TimerfdReported ==
    /\ ~callingExpiredTimers_ /\ ~reported
    /\ fired
    /\ reported' = TRUE
    /\ UNCHANGED <<now, heap, s_numCreated_, timers_, activeTimers_, cancelingTimers_, armed,
                   fired, requests, returning, ids, callingExpiredTimers_, expired, toRun,
                   batchNow, cancelled>>

Expired == {e \in timers_ : e[1] <= now}

(* handleRead up to the first callback.                                     *)
HandleRead ==
    /\ reported
    /\ reported' = FALSE
    /\ fired' = FALSE
    /\ batchNow' = now
    /\ expired' = Expired /\ toRun' = Expired
    /\ timers_' = timers_ \ Expired
    /\ activeTimers_' = activeTimers_ \ {Id(e[2]) : e \in Expired}
    /\ callingExpiredTimers_' = TRUE
    /\ cancelingTimers_' = {}
    /\ UNCHANGED <<now, heap, s_numCreated_, armed, requests, returning, ids, cancelled>>

RunTimer(e) ==
    /\ callingExpiredTimers_
    /\ e \in toRun
    /\ \A f \in toRun : e[1] <= f[1]
    /\ toRun' = toRun \ {e}
    /\ UNCHANGED <<now, heap, s_numCreated_, timers_, activeTimers_, cancelingTimers_, armed,
                   fired, requests, returning, ids, callingExpiredTimers_, expired, batchNow,
                   reported, cancelled>>

Restarted_IgnoreCancel == {e \in expired : heap[e[2]].interval > 0}
Restarted == {e \in expired : heap[e[2]].interval > 0 /\ Id(e[2]) \notin cancelingTimers_}

Rearm_IfExpired(timers) == IF expired # {} /\ timers # {}
    THEN \E e \in timers : (\A f \in timers : e[1] <= f[1]) /\ ResetTimerfd(e[1])
    ELSE UNCHANGED <<armed, fired>>
Rearm(timers) == IF timers # {}
    THEN \E e \in timers : (\A f \in timers : e[1] <= f[1]) /\ ResetTimerfd(e[1])
    ELSE UNCHANGED <<armed, fired>>

(* The end of handleRead: reset() restarts or deletes the batch and sets    *)
(* the timerfd for the earliest timer.                                      *)
Reset ==
    LET again == {e[2] : e \in Restarted}
        gone  == {e[2] : e \in expired} \ again
    IN
    /\ callingExpiredTimers_ /\ toRun = {}
    /\ callingExpiredTimers_' = FALSE
    /\ expired' = {}
    /\ heap' = [a \in Addrs |->
                  IF a \in again
                    THEN [heap[a] EXCEPT !.expiration = batchNow + heap[a].interval]
                    ELSE IF a \in gone THEN Freed ELSE heap[a]]
    /\ timers_' = timers_ \cup {<<batchNow + heap[a].interval, a>> : a \in again}
    /\ activeTimers_' = activeTimers_ \cup {Id(a) : a \in again}
    /\ Rearm(timers_')
    /\ UNCHANGED <<now, s_numCreated_, cancelingTimers_, requests, returning, ids, toRun,
                   batchNow, reported, cancelled>>

-----------------------------------------------------------------------------
TimerThreadNext ==
    \/ \E th \in TimerThreads, a \in Addrs, timer \in Timers : AddTimer(th, a, timer)
    \/ \E r \in returning : AddTimerReturn(r[1], r[2], r[3])
    \/ \E th \in TimerThreads, id \in ids : Cancel(th, id)

TimerUserNext ==
    \/ \E a \in Addrs, timer \in Timers : LoopAddTimer(a, timer)
    \/ \E id \in ids : LoopCancel(id)

TimerLoopNext ==
    \/ RunRequest
    \/ TimerfdReported
    \/ HandleRead
    \/ \E e \in toRun : RunTimer(e)
    \/ Reset

TimerNext == Tick \/ Alarm \/ TimerThreadNext \/ TimerUserNext \/ TimerLoopNext

TimerSpec == TimerInit /\ [][TimerNext]_timerVars

(* Time goes on, a due timerfd alarms, and the loop thread goes on.  It     *)
(* polls in every iteration, however many functors are queued meanwhile.    *)
FairTimerSpec ==
    /\ TimerSpec
    /\ WF_timerVars(Tick) /\ WF_timerVars(Alarm)
    /\ WF_timerVars(TimerfdReported) /\ WF_timerVars(TimerLoopNext)

-----------------------------------------------------------------------------
(* The two indexes describe the same timers, all of them alive and under    *)
(* the expiration they now have: the assertions of insert, getExpired and   *)
(* cancelInLoop (n == 1, result.second, equal sizes) cannot fail, and no    *)
(* entry dangles, although addresses are reused and callbacks add and       *)
(* cancel timers in the middle of handleRead.                               *)
IndexesAgree ==
    /\ \A e \in timers_ : Live(e[2]) /\ e[1] = heap[e[2]].expiration
    /\ activeTimers_ = {Id(e[2]) : e \in timers_}

(* Every live Timer has exactly one owner: a queued addTimerInLoop, the     *)
(* indexes, or the batch handleRead runs.  So none is run or deleted after  *)
(* it was deleted, none is deleted twice, and none is forgotten.            *)
OneOwner ==
    LET adds    == {i \in DOMAIN requests : requests[i].op = "add"}
        queuedA == {requests[i].addr : i \in adds}
        indexA  == {e[2] : e \in timers_}
        batchA  == {e[2] : e \in expired}
    IN  /\ {a \in Addrs : Live(a)} = queuedA \cup indexA \cup batchA
        /\ queuedA \cap indexA = {} /\ queuedA \cap batchA = {} /\ indexA \cap batchA = {}
        /\ \A i, j \in adds : requests[i].addr = requests[j].addr => i = j

(* While a timer waits and handleRead is not running, the timerfd is        *)
(* readable or armed no later than the earliest expiration (or one unit     *)
(* from now, if that has passed).                                           *)
AlarmIsSet ==
    timers_ # {} /\ ~callingExpiredTimers_ =>
        fired \/ (armed # 0 /\ \A e \in timers_ :
                      armed <= e[1] \/ (e[1] <= now /\ armed <= now + 1))

(* activeTimers_ and timers_ hold the same timers, every Timer is owned by  *)
(* exactly one of the queue, the batch and a queued request, and while      *)
(* timers wait the timerfd is set for the earliest of them or has fired,    *)
(* whatever addTimer, cancel and expiry do.                                 *)
TimersConsistent == IndexesAgree /\ OneOwner /\ AlarmIsSet

(* Once cancelInLoop has run for a timer the loop knows, in its own         *)
(* callback or not, the timer is never scheduled again.                     *)
CancelIsFinal == cancelled \cap activeTimers_ = {}

(* A waiting timer that does not repeat leaves the queue: it runs, or it is *)
(* cancelled.                                                               *)
TimersFire ==
    \A a \in Addrs, s \in 1 .. MaxSeq :
        (heap[a].interval = 0 /\ <<a, s>> \in activeTimers_) ~> (<<a, s>> \notin activeTimers_)

(* TimerQueue.h says of addTimer "Must be thread safe. Usually be called    *)
(* from other threads.": the TimerId it returns is that of the timer it     *)
(* made.                                                                    *)
AddTimerReturnsItsTimer ==
    \A r \in returning : heap[r[2]].sequence = r[3]
=============================================================================
