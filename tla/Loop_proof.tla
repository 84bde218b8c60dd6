----------------------------- MODULE Loop_proof -----------------------------
(***************************************************************************)
(* Proofs about EventLoop, EventLoopThread and TimerQueue, for any number  *)
(* of threads, functors, channels and timers.                              *)
(***************************************************************************)
EXTENDS EventLoopThread, TimerQueue, TLAPS

(***************************************************************************)
(* EventLoop and EventLoopThread: no wakeup, no quit() and no functor is   *)
(* lost, for any size of the eventfd counter.                              *)
(***************************************************************************)
(* Which flags go with which place of the loop thread.                      *)
PlaceInv ==
    /\ looping_ <=> at # "out"
    /\ callingPendingFunctors_ <=> at \in {"swap", "call"}
    /\ inCallback => at \in {"handle", "call"}
    /\ at # "call" => functors = <<>>

(* NoLostWakeup, strengthened to every place: while events are handled and  *)
(* until the swap, doPendingFunctors is still to come.                      *)
WakeupInv ==
    \/ Elements(pendingFunctors_) \subseteq early
    \/ wakeupFd_ > 0
    \/ owesWakeup # {}
    \/ at \in {"handle", "swap"}

IInv == TypeOK /\ PlaceInv /\ WakeupInv /\ NoLostQuit /\ Conservation

-----------------------------------------------------------------------------
(* Appending adds one element.                                              *)
LEMMA ElementsAppend ==
    ASSUME NEW S, NEW s \in Seq(S), NEW e \in S
    PROVE  Elements(Append(s, e)) = Elements(s) \cup {e}
<1>1. /\ Append(s, e) \in Seq(S)
      /\ DOMAIN Append(s, e) = DOMAIN s \cup {Len(s) + 1}
      /\ Append(s, e)[Len(s) + 1] = e
      /\ \A i \in DOMAIN s : Append(s, e)[i] = s[i]
  OBVIOUS
<1>2. ASSUME NEW x PROVE x \in Elements(Append(s, e)) <=> x \in Elements(s) \cup {e}
  BY <1>1, Zenon DEF Elements
<1>. QED  BY <1>2

(* A push to pendingFunctors_ is a push at the end of all the functors.     *)
LEMMA ConcatAppend ==
    ASSUME NEW S, NEW s \in Seq(S), NEW t \in Seq(S), NEW e \in S
    PROVE  s \o Append(t, e) = Append(s \o t, e)
  OBVIOUS

(* Running the head of the batch keeps the order of the functors.           *)
LEMMA AppendHeadTail ==
    ASSUME NEW S, NEW s \in Seq(S), NEW t \in Seq(S), t # <<>>
    PROVE  Append(s, Head(t)) \o Tail(t) = s \o t
  OBVIOUS

(* An empty batch or queue adds nothing.                                    *)
LEMMA ConcatEmpty ==
    ASSUME NEW S, NEW s \in Seq(S)
    PROVE  s \o <<>> = s /\ <<>> \o s = s
  OBVIOUS

-----------------------------------------------------------------------------
(* The loop starts in IInv: the constructor leaves nothing pending.         *)
LEMMA InitIInv == Init => IInv
<1>. SUFFICES ASSUME Init PROVE IInv
  BY Zenon
<1>0. <<>> \in Seq(Tasks)
  OBVIOUS
<1>1. TypeOK
  <2>1. wakeupFd_ \in 0 .. EventfdMax
    BY EventfdAssumption DEF Init
  <2>. QED  BY <1>0, <2>1, Zenon DEF Init, TypeOK, Places
<1>2. PlaceInv /\ NoLostQuit
  BY Zenon DEF Init, PlaceInv, NoLostQuit
<1>3. WakeupInv
  BY DEF Init, WakeupInv, Elements
<1>4. Conservation
  BY DEF Init, Conservation
<1>. QED  BY <1>1, <1>2, <1>3, <1>4 DEF IInv

(* TypeOK is preserved by every step: queueInLoop, quit, wakeup, the calls  *)
(* of user code in the loop thread and each step of loop().                 *)
LEMMA TypeOKStep == TypeOK /\ [Next]_vars => TypeOK'
<1>. SUFFICES ASSUME TypeOK, [Next]_vars PROVE TypeOK'
  BY Zenon
<1>. USE EventfdAssumption DEF TypeOK, Places, loopVars, history, AfterWakeup, AfterRead
<1>1. ASSUME NEW th \in Threads, NEW t \in Tasks, QueueInLoop(th, t) PROVE TypeOK'
  BY <1>1 DEF QueueInLoop, Push
<1>2. ASSUME NEW th \in Threads, Quit(th) PROVE TypeOK'
  BY <1>2, Zenon DEF Quit
<1>3. ASSUME NEW th \in Threads, WakeupStep(th) PROVE TypeOK'
  BY <1>3 DEF WakeupStep
<1>4. ASSUME NEW t \in Tasks, LoopQueueInLoop(t) PROVE TypeOK'
  BY <1>4 DEF LoopQueueInLoop, Push
<1>5. ASSUME NEW t \in Tasks, LoopRunInLoop(t) PROVE TypeOK'
  BY <1>5, Zenon DEF LoopRunInLoop
<1>6. CASE LoopQuit
  BY <1>6, Zenon DEF LoopQuit
<1>7. CASE LoopStart
  BY <1>7, Zenon DEF LoopStart
<1>8. CASE While
  BY <1>8, Zenon DEF While
<1>9. ASSUME NEW active \in SUBSET (Channels \cup {Wakeup}), PollReturn(active) PROVE TypeOK'
  BY <1>9, Zenon DEF PollReturn
<1>10. ASSUME NEW c \in Channels \cup {Wakeup}, HandleEvent(c) PROVE TypeOK'
  BY <1>10 DEF HandleEvent
<1>11. CASE EventsDone
  BY <1>11, Zenon DEF EventsDone
<1>12. CASE SwapFunctors
  BY <1>12 DEF SwapFunctors
<1>13. CASE RunFunctor
  BY <1>13 DEF RunFunctor
<1>14. CASE FunctorsDone
  BY <1>14, Zenon DEF FunctorsDone
<1>15. CASE UNCHANGED vars
  BY <1>15, Zenon DEF vars
<1>. QED
  BY <1>1, <1>2, <1>3, <1>4, <1>5, <1>6, <1>7, <1>8, <1>9, <1>10, <1>11, <1>12,
     <1>13, <1>14, <1>15, Zenon
  DEF Next, ThreadNext, UserNext, LoopNext, PollReady, PollTimeout

(* Every step of loop() sets the flags that go with its new place.          *)
LEMMA PlaceInvStep == TypeOK /\ PlaceInv /\ [Next]_vars => PlaceInv'
<1>. SUFFICES ASSUME TypeOK, PlaceInv, [Next]_vars PROVE PlaceInv'
  BY Zenon
<1>. USE DEF PlaceInv, loopVars
<1>1. CASE UNCHANGED loopVars
  BY <1>1, Zenon
<1>2. CASE ThreadNext \/ UserNext
  <2>1. UNCHANGED loopVars
    BY <1>2, Zenon DEF ThreadNext, UserNext, QueueInLoop, Quit, WakeupStep, LoopQueueInLoop,
                LoopRunInLoop, LoopQuit
  <2>. QED  BY <2>1
<1>3. CASE LoopStart
  BY <1>3, Zenon DEF LoopStart, TypeOK
<1>4. CASE While
  BY <1>4, Zenon DEF While, TypeOK
<1>5. ASSUME NEW active, PollReturn(active) PROVE PlaceInv'
  BY <1>5, Zenon DEF PollReturn
<1>6. ASSUME NEW c, HandleEvent(c) PROVE PlaceInv'
  BY <1>6, Zenon DEF HandleEvent
<1>7. CASE EventsDone
  BY <1>7, Zenon DEF EventsDone
<1>8. CASE SwapFunctors
  BY <1>8, Zenon DEF SwapFunctors
<1>9. CASE RunFunctor
  BY <1>9, Zenon DEF RunFunctor
<1>10. CASE FunctorsDone
  BY <1>10, Zenon DEF FunctorsDone
<1>. QED
  BY <1>1, <1>2, <1>3, <1>4, <1>5, <1>6, <1>7, <1>8, <1>9, <1>10, Zenon
  DEF Next, LoopNext, PollReady, PollTimeout, vars

(* No step leaves a pending functor without a wakeup: queueInLoop writes    *)
(* or will write the eventfd, and handleRead precedes the swap.             *)
LEMMA WakeupInvStep == TypeOK /\ PlaceInv /\ WakeupInv /\ [Next]_vars => WakeupInv'
<1>. SUFFICES ASSUME TypeOK, PlaceInv, WakeupInv, [Next]_vars PROVE WakeupInv'
  BY Zenon
<1>. USE EventfdAssumption DEF WakeupInv, loopVars, history
<1>0. AfterWakeup > 0
  BY DEF AfterWakeup, TypeOK
<1>1. ASSUME NEW th \in Threads, NEW t \in Tasks, QueueInLoop(th, t) PROVE WakeupInv'
  BY <1>1, Zenon DEF QueueInLoop
<1>2. ASSUME NEW th \in Threads, Quit(th) PROVE WakeupInv'
  BY <1>2, Zenon DEF Quit
<1>3. ASSUME NEW th \in Threads, WakeupStep(th) PROVE WakeupInv'
  BY <1>0, <1>3, Zenon DEF WakeupStep
<1>4. ASSUME NEW t \in Tasks, LoopQueueInLoop(t) PROVE WakeupInv'
  (* Queued outside loop(): t joins early, whatever else is pending is       *)
  (* covered as before.                                                      *)
  <2>1. Elements(pendingFunctors_') = Elements(pendingFunctors_) \cup {t}
    BY <1>4, ElementsAppend DEF LoopQueueInLoop, Push, TypeOK
  <2>2. CASE at = "out"
    BY <1>4, <2>1, <2>2, Zenon DEF LoopQueueInLoop, NeedsWakeup, PlaceInv
  (* Queued by a channel's callback: doPendingFunctors is still to come.     *)
  <2>3. CASE at = "handle"
    BY <1>4, <2>3, Zenon DEF LoopQueueInLoop
  (* Queued by a functor: callingPendingFunctors_ makes it write.            *)
  <2>4. CASE at = "call"
    BY <1>0, <1>4, <2>4, Zenon DEF LoopQueueInLoop, NeedsWakeup, PlaceInv
  <2>. QED  BY <1>4, <2>2, <2>3, <2>4 DEF LoopQueueInLoop, UserCode, PlaceInv
<1>5. ASSUME NEW t \in Tasks, LoopRunInLoop(t) PROVE WakeupInv'
  BY <1>5, Zenon DEF LoopRunInLoop
<1>6. CASE LoopQuit
  BY <1>6, Zenon DEF LoopQuit
<1>7. CASE LoopStart
  BY <1>7, Zenon DEF LoopStart
<1>8. CASE While
  BY <1>8, Zenon DEF While
<1>9. ASSUME NEW active, PollReturn(active) PROVE WakeupInv'
  BY <1>9, Zenon DEF PollReturn
<1>10. ASSUME NEW c, HandleEvent(c) PROVE WakeupInv'
  BY <1>10, Zenon DEF HandleEvent
<1>11. CASE EventsDone
  BY <1>11, Zenon DEF EventsDone
<1>12. CASE SwapFunctors
  BY <1>12 DEF SwapFunctors, Elements
<1>13. CASE RunFunctor
  BY <1>13, Zenon DEF RunFunctor
<1>14. CASE FunctorsDone
  BY <1>14, Zenon DEF FunctorsDone
<1>15. CASE UNCHANGED vars
  BY <1>15, Zenon DEF vars
<1>. QED
  BY <1>1, <1>2, <1>3, <1>4, <1>5, <1>6, <1>7, <1>8, <1>9, <1>10, <1>11, <1>12,
     <1>13, <1>14, <1>15, Zenon
  DEF Next, ThreadNext, UserNext, LoopNext, PollReady, PollTimeout

(* No step leaves the loop in poll() with quit_ set and no wakeup coming.   *)
LEMMA NoLostQuitStep == TypeOK /\ PlaceInv /\ NoLostQuit /\ [Next]_vars => NoLostQuit'
<1>. SUFFICES ASSUME TypeOK, PlaceInv, NoLostQuit, [Next]_vars PROVE NoLostQuit'
  BY Zenon
<1>. USE DEF NoLostQuit, loopVars
<1>0. AfterWakeup > 0
  BY EventfdAssumption DEF AfterWakeup, TypeOK
<1>1. CASE ThreadNext
  BY <1>0, <1>1, Zenon DEF ThreadNext, QueueInLoop, Quit, WakeupStep
<1>2. CASE UserNext
  <2>1. at # "poll"
    BY <1>2, Zenon DEF UserNext, LoopQueueInLoop, LoopRunInLoop, LoopQuit, UserCode, PlaceInv
  <2>2. at' = at
    BY <1>2, Zenon DEF UserNext, LoopQueueInLoop, LoopRunInLoop, LoopQuit
  <2>. QED  BY <2>1, <2>2
<1>3. CASE LoopStart \/ LoopNext \/ PollReady \/ PollTimeout
  BY <1>3, Zenon DEF LoopStart, LoopNext, While, HandleEvent, EventsDone, SwapFunctors,
              RunFunctor, FunctorsDone, PollReady, PollTimeout, PollReturn
<1>4. CASE UNCHANGED vars
  BY <1>4, Zenon DEF vars
<1>. QED  BY <1>1, <1>2, <1>3, <1>4 DEF Next

(* No step loses, doubles or reorders a functor: push, swap and run.        *)
LEMMA ConservationStep == TypeOK /\ PlaceInv /\ Conservation /\ [Next]_vars => Conservation'
<1>. SUFFICES ASSUME TypeOK, PlaceInv, Conservation, [Next]_vars PROVE Conservation'
  BY Zenon
<1>. USE DEF Conservation, loopVars, history
<1>0. /\ pendingFunctors_ \in Seq(Tasks) /\ functors \in Seq(Tasks)
      /\ executed \in Seq(Tasks) /\ executed \o functors \in Seq(Tasks)
  BY DEF TypeOK
<1>1. ASSUME NEW t \in Tasks, Push(t), UNCHANGED <<executed, functors>> PROVE Conservation'
  <2>1. (executed \o functors) \o Append(pendingFunctors_, t)
          = Append((executed \o functors) \o pendingFunctors_, t)
    BY <1>0, ConcatAppend, SMTT(30)
  <2>. QED  BY <1>1, <2>1 DEF Push
<1>2. CASE SwapFunctors
  <2>1. functors = <<>>
    BY <1>2, Zenon DEF SwapFunctors, PlaceInv
  <2>2. executed \o pendingFunctors_ = queued
    BY <1>0, <2>1, ConcatEmpty, Zenon
  <2>. QED  BY <1>0, <1>2, <2>2, ConcatEmpty DEF SwapFunctors
<1>3. CASE RunFunctor
  BY <1>0, <1>3, AppendHeadTail, Zenon DEF RunFunctor
<1>4. CASE UNCHANGED <<executed, functors, pendingFunctors_, queued>>
  BY <1>4, Zenon
<1>5. CASE ThreadNext \/ UserNext
  BY <1>1, <1>4, <1>5, Zenon
  DEF ThreadNext, UserNext, QueueInLoop, Quit, WakeupStep, LoopQueueInLoop,
      LoopRunInLoop, LoopQuit
<1>6. CASE LoopStart \/ While \/ EventsDone \/ FunctorsDone
  BY <1>4, <1>6, Zenon DEF LoopStart, While, EventsDone, FunctorsDone
<1>7. ASSUME NEW c, HandleEvent(c) \/ PollReturn(c) PROVE Conservation'
  BY <1>4, <1>7, Zenon DEF HandleEvent, PollReturn
<1>8. CASE UNCHANGED vars
  BY <1>4, <1>8, Zenon DEF vars
<1>. QED
  BY <1>2, <1>3, <1>5, <1>6, <1>7, <1>8, Zenon DEF Next, LoopNext, PollReady, PollTimeout

(* Everything above together: IInv is an inductive invariant of the loop.   *)
THEOREM Invariance == Spec => []IInv
<1>1. IInv /\ [Next]_vars => IInv'
  BY TypeOKStep, PlaceInvStep, WakeupInvStep, NoLostQuitStep, ConservationStep, Zenon DEF IInv
<1>. QED  BY InitIInv, <1>1, PTL DEF Spec

(* queueInLoop never loses a wakeup: poll() is not entered, or slept in,    *)
(* with a functor pending that no write to wakeupFd_ announces.             *)
THEOREM WakeupNotLost == Spec => []NoLostWakeup
<1>1. IInv => NoLostWakeup
  BY Zenon DEF IInv, WakeupInv, NoLostWakeup
<1>. QED  BY Invariance, <1>1, PTL

(* quit() from another thread never leaves the loop asleep in poll().       *)
THEOREM QuitNotLost == Spec => []NoLostQuit
<1>1. IInv => NoLostQuit
  BY Zenon DEF IInv
<1>. QED  BY Invariance, <1>1, PTL

(* Every functor pushed is run once and in order: none is lost, doubled or  *)
(* overtaken between queueInLoop and doPendingFunctors.                     *)
THEOREM FunctorsConserved == Spec => []Conservation
<1>1. IInv => Conservation
  BY Zenon DEF IInv
<1>. QED  BY Invariance, <1>1, PTL

-----------------------------------------------------------------------------
(* The head of the batch is the first functor that has not run.             *)
LEMMA HeadOfRest ==
    ASSUME NEW S, NEW s \in Seq(S), NEW t \in Seq(S), NEW u \in Seq(S), t # <<>>
    PROVE  /\ Len(s) < Len(s \o t \o u)
           /\ (s \o t \o u)[Len(s) + 1] = Head(t)
  OBVIOUS

(* With looping_ for running, each step of the EventLoop is a step of the   *)
(* first-in first-out executor TaskQueue, or leaves it unchanged.           *)
THEOREM Refinement == Spec => ImplementsTaskQueue
<1>1. Init => TQ!Init
  BY Zenon DEF Init, TQ!Init
<1>2. IInv /\ [Next]_vars => [TQ!Next]_TQ!tvars
  <2>. SUFFICES ASSUME IInv, [Next]_vars PROVE [TQ!Next]_TQ!tvars
    BY Zenon
  <2>. USE DEF loopVars, history, TQ!tvars
  <2>1. ASSUME NEW t \in Tasks, Push(t), UNCHANGED <<executed, looping_>>
        PROVE  TQ!Next
    BY <2>1, Zenon DEF Push, TQ!Next, TQ!Submit
  <2>2. CASE ThreadNext \/ UserNext
    BY <2>1, <2>2, Zenon
    DEF ThreadNext, UserNext, QueueInLoop, Quit, WakeupStep, LoopQueueInLoop,
        LoopRunInLoop, LoopQuit
  <2>3. CASE LoopStart \/ While
    BY <2>3, Zenon DEF LoopStart, While, IInv, PlaceInv, TypeOK, TQ!Next, TQ!StartOrStop
  <2>4. CASE RunFunctor
    <3>1. looping_
      BY <2>4, Zenon DEF RunFunctor, IInv, PlaceInv
    <3>2. Len(executed) < Len(queued) /\ queued[Len(executed) + 1] = Head(functors)
      BY <2>4, HeadOfRest, ZenonT(40) DEF RunFunctor, IInv, Conservation, TypeOK
    <3>. QED  BY <2>4, <3>1, <3>2 DEF RunFunctor, TQ!Next, TQ!Execute
  <2>5. CASE EventsDone \/ SwapFunctors \/ FunctorsDone
    BY <2>5, Zenon DEF EventsDone, SwapFunctors, FunctorsDone
  <2>6. ASSUME NEW c, HandleEvent(c) \/ PollReturn(c) PROVE UNCHANGED TQ!tvars
    BY <2>6, Zenon DEF HandleEvent, PollReturn
  <2>7. CASE UNCHANGED vars
    BY <2>7, Zenon DEF vars
  <2>. QED
    BY <2>2, <2>3, <2>4, <2>5, <2>6, <2>7, Zenon DEF Next, LoopNext, PollReady, PollTimeout
<1>. QED  BY <1>1, <1>2, Invariance, PTL DEF Spec, ImplementsTaskQueue, TQ!Spec

-----------------------------------------------------------------------------
(* EventLoopThread: the loop that startLoop() returns outlives the owner's  *)
(* use of it, and the EventLoopThread outlives its thread.                  *)

(* loop_ is set from its publication to the end of loop(), which is entered *)
(* after it.                                                                *)
PublishedInv ==
    /\ loop_ = TRUE <=> thread \in {"published", "loop"}
    /\ thread \in {"none", "callback", "published"} => at = "out"

(* The thread runs once the owner has called startLoop().                   *)
StartedInv ==
    /\ owner = "made" => thread = "none"
    /\ owner \in {"start", "using", "dtor", "join"} => thread # "none"

(* Before the destructor's quit(), if the loop thread did not quit either,  *)
(* nothing has ended the loop.                                              *)
RunningInv ==
    /\ ~otherQuit /\ owner \in {"made", "start", "using", "dtor"} =>
          /\ quit_ = FALSE
          /\ thread \in {"none", "callback", "published", "loop"}
          /\ thread = "loop" => looping_ = TRUE
    /\ ~otherQuit /\ owner \in {"using", "dtor"} => thread \in {"published", "loop"}
    /\ ~otherQuit /\ owner = "gone" => thread \in {"none", "finished"}
    /\ ~otherQuit /\ owner = "lost" => thread = "finished" /\ Owner \in owesWakeup

LifeInv == ThreadTypeOK /\ PlaceInv /\ PublishedInv /\ StartedInv /\ RunningInv

-----------------------------------------------------------------------------
(* A step of the two threads is a step of the loop or leaves it alone.      *)
LEMMA StepOfLoop == ASSUME [ThreadSystemNext]_allVars PROVE [Next]_vars
<1>1. Owner \in Threads
  BY OwnerAssumption, Zenon
<1>2. CASE UseLoop
  BY <1>1, <1>2, Zenon DEF UseLoop, CallLost, Next, ThreadNext
<1>3. CASE DestroyQuit \/ DestroyWakeup
  BY <1>1, <1>3, Zenon DEF DestroyQuit, DestroyWakeup, CallLost, Next, ThreadNext
<1>4. CASE EnterLoop \/ RunLoop \/ Poll \/ UserCall
  BY <1>4, Zenon DEF EnterLoop, RunLoop, Poll, UserCall, Next
<1>5. CASE StartThread \/ SpuriousWakeup \/ Destroy \/ WaitForLoop \/ Join \/ Publish
           \/ ClearLoop \/ Unlock \/ DestroyLoop
  BY <1>5, Zenon DEF StartThread, SpuriousWakeup, Destroy, WaitForLoop, Join, Publish,
     ClearLoop,
              Unlock, DestroyLoop
<1>6. CASE Over \/ UNCHANGED allVars
  BY <1>6, Zenon DEF Over, allVars
<1> QED
  BY <1>2, <1>3, <1>4, <1>5, <1>6, Zenon DEF ThreadSystemNext, OwnerNext, ThreadFunc

(* What a step of loop() does to the flags of LifeInv.                      *)
LEMMA LoopFlags ==
    ASSUME TypeOK, LoopNext \/ PollReady \/ PollTimeout
    PROVE  quit_' = quit_ /\ (quit_ = FALSE /\ looping_ = TRUE => looping_' = TRUE)
<1>1. CASE While
  BY <1>1, Zenon DEF While, TypeOK
<1>2. CASE PollReady \/ PollTimeout
  BY <1>2, Zenon DEF PollReady, PollTimeout, PollReturn
<1>3. CASE LoopNext /\ ~While
  BY <1>3, Zenon DEF LoopNext, HandleEvent, EventsDone, SwapFunctors, RunFunctor, FunctorsDone
<1> QED
  BY <1>1, <1>2, <1>3, Zenon

(* A call from the loop thread leaves the state of loop() as it is.         *)
LEMMA UserFlags == ASSUME UserNext PROVE looping_' = looping_ /\ at' = at
  BY Zenon DEF UserNext, LoopQueueInLoop, LoopRunInLoop, LoopQuit, loopVars

-----------------------------------------------------------------------------
(* Every step of the owner and of the thread keeps LifeInv.                 *)
LEMMA LifeStep == LifeInv /\ [ThreadSystemNext]_allVars => LifeInv'
<1> SUFFICES ASSUME LifeInv, [ThreadSystemNext]_allVars PROVE LifeInv'
  BY Zenon
<1>0. TypeOK' /\ PlaceInv'
  BY StepOfLoop, TypeOKStep, PlaceInvStep, Zenon DEF LifeInv, ThreadTypeOK
<1> USE DEF LifeInv, ThreadPlaces, OwnerPlaces
<1>t. TypeOK /\ loop_ \in BOOLEAN /\ otherQuit \in BOOLEAN /\ quit_ \in BOOLEAN /\ looping_ \in BOOLEAN
  BY Zenon DEF ThreadTypeOK, TypeOK
<1>1. ThreadTypeOK'
  <2>1. CASE StartThread \/ SpuriousWakeup \/ Destroy \/ WaitForLoop \/ Join \/ Publish
             \/ ClearLoop \/ Unlock \/ DestroyLoop
    BY <1>0, <2>1, Zenon DEF ThreadTypeOK, StartThread, SpuriousWakeup, Destroy, WaitForLoop,
       Join,
                      Publish, ClearLoop, Unlock, DestroyLoop
  <2>2. CASE UseLoop \/ DestroyQuit \/ DestroyWakeup \/ EnterLoop \/ RunLoop \/ Poll
    BY <1>0, <2>2, Zenon DEF ThreadTypeOK, UseLoop, DestroyQuit, DestroyWakeup, CallLost,
       EnterLoop, RunLoop, Poll, tvars
  <2>3. CASE UserCall
    BY <1>0, <2>3, Zenon DEF ThreadTypeOK, UserCall
  <2>4. CASE Over \/ UNCHANGED allVars
    BY <1>0, <2>4, ZenonT(40) DEF ThreadTypeOK, Over, allVars, tvars
  <2> QED
    BY <2>1, <2>2, <2>3, <2>4, Zenon DEF ThreadSystemNext, OwnerNext, ThreadFunc
<1>2. (PublishedInv /\ StartedInv /\ RunningInv)'
  <2> USE <1>t DEF PublishedInv, StartedInv, RunningInv
  <2>1. CASE StartThread
    BY <2>1, Zenon DEF StartThread, vars
  <2>2. CASE WaitForLoop
    BY <2>2, Zenon DEF WaitForLoop, vars
  <2>3. CASE SpuriousWakeup
    BY <2>3, Zenon DEF SpuriousWakeup, vars
  <2>4. CASE UseLoop
    BY <2>4, Zenon DEF UseLoop, CallLost, LoopAlive, tvars, QueueInLoop, WakeupStep, loopVars, vars
  <2>5. CASE Destroy
    BY <2>5, Zenon DEF Destroy, vars
  <2>6. CASE DestroyQuit
    BY <2>6, Zenon DEF DestroyQuit, CallLost, LoopAlive, Quit, loopVars, vars
  <2>7. CASE DestroyWakeup
    <3>1. CASE WakeupStep(Owner) /\ UNCHANGED tvars
      BY <2>7, <3>1, Zenon DEF DestroyWakeup, WakeupStep, tvars, loopVars
    <3>2. CASE ~LoopAlive /\ CallLost
      BY <2>7, <3>2, Zenon DEF DestroyWakeup, ThreadTypeOK, CallLost, LoopAlive, vars
    <3> QED
      BY <2>7, <3>1, <3>2, Zenon DEF DestroyWakeup
  <2>8. CASE Join
    BY <2>8, Zenon DEF Join, vars
  <2>9. CASE Publish
    BY <2>9, Zenon DEF Publish, vars
  <2>10. CASE EnterLoop
    BY <2>10, Zenon DEF EnterLoop, LoopStart
  <2>11. CASE RunLoop \/ Poll
    <3>1. thread = "loop" /\ UNCHANGED tvars
      BY <2>11, Zenon DEF RunLoop, Poll
    <3>2. quit_' = quit_ /\ (quit_ = FALSE /\ looping_ = TRUE => looping_' = TRUE)
      BY <2>11, LoopFlags, Zenon DEF RunLoop, Poll
    <3> QED
      BY <3>1, <3>2, Zenon DEF tvars
  <2>12. CASE UserCall
    <3>1. looping_' = looping_ /\ at' = at
      BY <2>12, UserFlags, Zenon DEF UserCall
    <3>2. ~otherQuit' => ~otherQuit /\ quit_' = quit_
      BY <2>12, Zenon DEF UserCall
    <3> QED
      BY <2>12, <3>1, <3>2, Zenon DEF UserCall
  <2>13. CASE ClearLoop
    <3>1. otherQuit \/ owner \notin {"made", "start", "using", "dtor", "gone"}
      BY <2>13, Zenon DEF ClearLoop
    <3> QED
      BY <2>13, <3>1, Zenon DEF ClearLoop, vars
  <2>14. CASE Unlock
    BY <2>14, Zenon DEF Unlock, vars
  <2>15. CASE DestroyLoop
    BY <2>15, Zenon DEF DestroyLoop, vars
  <2>16. CASE Over \/ UNCHANGED allVars
    BY <2>16, Zenon DEF Over, allVars, vars, tvars
  <2> QED
    BY <2>1, <2>2, <2>3, <2>4, <2>5, <2>6, <2>7, <2>8, <2>9, <2>10, <2>11, <2>12, <2>13,
       <2>14, <2>15, <2>16, Zenon DEF ThreadSystemNext, OwnerNext, ThreadFunc
<1> QED
  BY <1>0, <1>1, <1>2, Zenon

(* The owner of an EventLoopThread holds a live loop from startLoop()'s     *)
(* return to the destructor's quit(), and destroys the object after the     *)
(* thread ended, unless code in the loop thread calls quit() itself.        *)
THEOREM LiveLoop == ThreadSpec => []OwnerSeesLiveLoop
<1>1. ThreadInit => LifeInv
  <2> SUFFICES ASSUME ThreadInit PROVE LifeInv
    BY Zenon
  <2>1. TypeOK /\ PlaceInv
    BY InitIInv, Zenon DEF ThreadInit, IInv
  <2>2. quit_ = FALSE /\ at = "out"
    BY Zenon DEF ThreadInit, Init
  <2>3. ThreadTypeOK
    BY <2>1, Zenon DEF ThreadInit, ThreadTypeOK, ThreadPlaces, OwnerPlaces
  <2>4. PublishedInv /\ StartedInv /\ RunningInv
    BY <2>2, Zenon DEF ThreadInit, PublishedInv, StartedInv, RunningInv
  <2> QED
    BY <2>1, <2>3, <2>4, Zenon DEF LifeInv
<1>2. LifeInv => OwnerSeesLiveLoop
  BY Zenon DEF LifeInv, RunningInv, OwnerSeesLiveLoop, LoopAlive, ThreadPlaces
<1> QED
  BY <1>1, <1>2, LifeStep, PTL DEF ThreadSpec

(***************************************************************************)
(* TimerQueue: the indexes agree, every Timer has one owner, the alarm is  *)
(* set and a cancelled timer never comes back, for any threads, addresses, *)
(* delays and intervals.                                                   *)
(***************************************************************************)
TimerType == [expiration : Nat, interval : Nat, sequence : Nat]
Request   == [op : {"add"}, addr : Addrs] \cup [op : {"cancel"}, id : Addrs \X (Nat \ {0})]

TypeInv ==
    /\ now \in Nat \ {0}
    /\ heap \in [Addrs -> TimerType]
    /\ s_numCreated_ \in Nat
    /\ timers_ \subseteq Entries /\ expired \subseteq Entries
    /\ callingExpiredTimers_ \in BOOLEAN /\ reported \in BOOLEAN /\ fired \in BOOLEAN
    /\ batchNow \in Nat /\ armed \in Nat
    /\ requests \in Seq(Request)
    /\ returning \subseteq TimerThreads \X Addrs \X (Nat \ {0})
    /\ ids \subseteq Addrs \X (Nat \ {0}) /\ cancelled \subseteq Addrs \X (Nat \ {0})

(* handleRead() is not entered while it runs, and has no batch outside.     *)
BatchInv ==
    /\ expired # {} => callingExpiredTimers_ = TRUE
    /\ reported = TRUE => callingExpiredTimers_ = FALSE

IndexA == {e[2] : e \in timers_}
BatchA == {e[2] : e \in expired}
IsAdd(i) == i \in DOMAIN requests /\ requests[i].op = "add"

(* OneOwner, conjunct by conjunct.                                          *)
OwnInv ==
    /\ \A a \in IndexA \cup BatchA : Live(a)
    /\ IndexA \cap BatchA = {}
    /\ \A i \in DOMAIN requests : IsAdd(i) =>
          Live(requests[i].addr) /\ requests[i].addr \notin IndexA \cup BatchA
    /\ \A i, j \in DOMAIN requests :
          IsAdd(i) /\ IsAdd(j) /\ requests[i].addr = requests[j].addr => i = j
    /\ \A a \in Addrs : Live(a) =>
          a \in IndexA \cup BatchA \/ \E i \in DOMAIN requests : IsAdd(i) /\ requests[i].addr = a

(* Sequence numbers are not reused.  A cancelled timer is gone, or in the   *)
(* batch and marked in cancelingTimers_.                                    *)
CancelInv ==
    /\ \A a \in Addrs : heap[a].sequence <= s_numCreated_
    /\ \A id \in cancelled :
          /\ id[2] <= s_numCreated_
          /\ Id(id[1]) # id \/ (id[1] \in BatchA /\ id \in cancelingTimers_)

TimerIInv == TypeInv /\ BatchInv /\ IndexesAgree /\ OwnInv /\ AlarmIsSet /\ CancelInv

-----------------------------------------------------------------------------
(* addTimerInLoop(): the timer has just left its functor or its maker.      *)
LEMMA AddInLoop ==
    ASSUME TimerIInv, NEW a \in Addrs, NEW timer \in TimerType, timer.sequence # 0,
           a \notin IndexA \cup BatchA,
           AddTimerInLoop(a, timer), heap' = [heap EXCEPT ![a] = timer],
           now' = now, callingExpiredTimers_' = callingExpiredTimers_
    PROVE  /\ timers_' \subseteq Entries /\ armed' \in Nat /\ fired' \in BOOLEAN
           /\ IndexA' = IndexA \cup {a}
           /\ IndexesAgree'
           /\ AlarmIsSet'
<1>0. timer.expiration \in Nat /\ <<timer.expiration, a>> \in Entries
  BY Zenon DEF TimerType, Entries
<1>1. timers_' = timers_ \cup {<<timer.expiration, a>>}
      /\ activeTimers_' = activeTimers_ \cup {<<a, timer.sequence>>}
  BY Zenon DEF AddTimerInLoop
<1>2. timers_' \subseteq Entries
  BY <1>0, <1>1, Zenon DEF TimerIInv, TypeInv
<1>3. armed' \in Nat /\ fired' \in BOOLEAN
  <2>1. CASE EarliestChanged(timer.expiration)
    <3>1. armed' \in Nat
      BY <1>0, <2>1 DEF TimerIInv, TypeInv, AddTimerInLoop, ResetTimerfd
    <3>2. fired' = FALSE
      BY <2>1, Zenon DEF AddTimerInLoop, ResetTimerfd
    <3> QED
      BY <3>1, <3>2, Zenon
  <2>2. CASE ~EarliestChanged(timer.expiration)
    BY <2>2, Zenon DEF TimerIInv, TypeInv, AddTimerInLoop
  <2> QED
    BY <2>1, <2>2, Zenon
<1>4. IndexA' = IndexA \cup {a}
  <2>1. IndexA' = {e[2] : e \in timers_'}
    BY Zenon DEF IndexA
  <2> DEFINE x == <<timer.expiration, a>>
  <2>2. timers_' = timers_ \cup {x} /\ x[2] = a
    BY <1>1, Zenon
  <2> HIDE DEF x
  <2> QED
    BY <2>1, <2>2, Zenon DEF IndexA
<1>5. IndexesAgree'
  <2>1. \A e \in timers_ : e[2] \in Addrs /\ e[2] # a /\ heap'[e[2]] = heap[e[2]]
    BY Zenon DEF TimerIInv, TypeInv, IndexA, Entries
  <2>2. heap'[a] = timer
    BY Zenon DEF TimerIInv, TypeInv
  <2>3. \A e \in timers_' : Live(e[2])' /\ e[1] = heap'[e[2]].expiration
    BY <1>1, <2>1, <2>2 DEF TimerIInv, IndexesAgree, Live
  <2>4. activeTimers_' = {<<e[2], heap'[e[2]].sequence>> : e \in timers_'}
    <3>1. activeTimers_ = {<<e[2], heap'[e[2]].sequence>> : e \in timers_}
      BY <2>1, Zenon DEF TimerIInv, IndexesAgree, Id
    <3> DEFINE x == <<timer.expiration, a>>
    <3>2. timers_' = timers_ \cup {x} /\ x[2] = a
      BY <1>1, Zenon
    <3> HIDE DEF x
    <3>3. <<x[2], heap'[x[2]].sequence>> = <<a, timer.sequence>>
      BY <2>2, <3>2, Zenon
    <3> QED
      BY <1>1, <3>1, <3>2, <3>3, Zenon
  <2> QED
    BY <2>3, <2>4, Zenon DEF IndexesAgree, Id
<1>6. AlarmIsSet'
  <2> SUFFICES ASSUME ~callingExpiredTimers_
               PROVE  fired' \/ (armed' # 0 /\ \A e \in timers_' :
                         armed' <= e[1] \/ (e[1] <= now /\ armed' <= now + 1))
    BY Zenon DEF AlarmIsSet
  <2>0. \A e \in timers_' : e[1] \in Nat
    BY <1>2, Zenon DEF Entries
  <2>1. CASE EarliestChanged(timer.expiration)
    <3>1. armed' = IF timer.expiration > now THEN timer.expiration ELSE now + 1
      BY <2>1, Zenon DEF AddTimerInLoop, ResetTimerfd
    <3>2. \A e \in timers_' : timer.expiration <= e[1]
      BY <1>0, <1>1, <2>0, <2>1 DEF EarliestChanged
    <3> QED
      BY <1>0, <2>0, <3>1, <3>2 DEF TimerIInv, TypeInv
  <2>2. CASE ~EarliestChanged(timer.expiration)
    <3>1. armed' = armed /\ fired' = fired
      BY <2>2, Zenon DEF AddTimerInLoop
    <3>2. PICK e \in timers_ : e[1] <= timer.expiration
      BY <1>0, <1>1, <2>0, <2>2 DEF EarliestChanged
    <3>3. fired \/ (armed # 0 /\ \A f \in timers_ :
             armed <= f[1] \/ (f[1] <= now /\ armed <= now + 1))
      BY <3>2, Zenon DEF TimerIInv, AlarmIsSet
    <3>4. armed \in Nat /\ now \in Nat /\ e[1] \in Nat
      BY <1>1, <2>0, Zenon DEF TimerIInv, TypeInv
    <3>5. fired \/ armed <= timer.expiration \/ (timer.expiration <= now /\ armed <= now + 1)
      BY <1>0, <3>2, <3>3, <3>4
    <3> QED
      BY <1>1, <3>1, <3>3, <3>5
  <2> QED
    BY <2>1, <2>2, Zenon
<1> QED
  BY <1>2, <1>3, <1>4, <1>5, <1>6, Zenon

(* cancelInLoop().                                                          *)
LEMMA Cancels ==
    ASSUME TimerIInv, NEW id \in Addrs \X (Nat \ {0}), CancelInLoop(id),
           UNCHANGED <<now, s_numCreated_, armed, fired, handleReadVars>>
    PROVE  /\ timers_' \subseteq Entries /\ heap' \in [Addrs -> TimerType]
           /\ cancelled' \subseteq Addrs \X (Nat \ {0})
           /\ IndexesAgree' /\ AlarmIsSet' /\ CancelInv'
           /\ IndexA' = IndexA \ {a \in IndexA : id \in activeTimers_ /\ a = id[1]}
           /\ \A a \in Addrs : Live(a)' <=> Live(a) /\ ~(id \in activeTimers_ /\ a = id[1])
           /\ id \in activeTimers_ => id[1] \in IndexA
<1> DEFINE c == id[1]
<1>0. c \in Addrs /\ id[2] \in Nat \ {0} /\ id = <<c, id[2]>>
  OBVIOUS
<1>u. now' = now /\ s_numCreated_' = s_numCreated_ /\ armed' = armed /\ fired' = fired
      /\ callingExpiredTimers_' = callingExpiredTimers_ /\ expired' = expired
  BY Zenon DEF handleReadVars
<1>k. Known(id) => Id(c) = id /\ c \in IndexA \cup BatchA
  BY DEF Known, TimerIInv, IndexesAgree, Id, IndexA, BatchA
<1>1. CASE id \in activeTimers_
  <2>1. PICK e \in timers_ : id = Id(e[2])
    BY <1>1, Zenon DEF TimerIInv, IndexesAgree
  <2>2. e[2] = c /\ e = <<heap[c].expiration, c>> /\ heap[c].sequence = id[2] /\ c \in IndexA
    BY <2>1 DEF TimerIInv, TypeInv, Entries, IndexesAgree, Id, IndexA
  <2>3. /\ timers_' = timers_ \ {e}
        /\ activeTimers_' = activeTimers_ \ {id}
        /\ heap' = [heap EXCEPT ![c] = Freed]
        /\ cancelingTimers_' = cancelingTimers_
        /\ cancelled' = cancelled \cup {id}
    BY <1>1, <2>2, Zenon DEF CancelInLoop, Known
  <2>4. \A f \in timers_ : f # e => f[2] # c /\ f[2] \in Addrs /\ heap'[f[2]] = heap[f[2]]
    <3>1. \A f \in timers_ : f = <<f[1], f[2]>> /\ f[2] \in Addrs /\ f[1] = heap[f[2]].expiration
      BY DEF TimerIInv, TypeInv, Entries, IndexesAgree
    <3> QED
      BY <2>2, <2>3, <3>1 DEF TimerIInv, TypeInv
  <2>5. timers_' \subseteq Entries /\ heap' \in [Addrs -> TimerType]
        /\ cancelled' \subseteq Addrs \X (Nat \ {0})
    BY <2>3, Zenon DEF TimerIInv, TypeInv, TimerType, Freed
  <2>6. IndexA' = IndexA \ {c}
    BY <2>2, <2>3, <2>4, Zenon DEF IndexA
  <2>7. heap'[c].sequence = 0
    BY <1>0, <2>3, Zenon DEF TimerIInv, TypeInv, Freed
  <2>8. \A a \in Addrs : Live(a)' <=> Live(a) /\ a # c
    BY <2>3, <2>7, Zenon DEF TimerIInv, TypeInv, Live
  <2>9. IndexesAgree'
    <3>1. \A f \in timers_' : Live(f[2])' /\ f[1] = heap'[f[2]].expiration
      BY <2>3, <2>4, Zenon DEF TimerIInv, IndexesAgree, Live
    <3>2. activeTimers_' = {<<f[2], heap'[f[2]].sequence>> : f \in timers_'}
      <4>1. activeTimers_ = {<<f[2], heap[f[2]].sequence>> : f \in timers_}
        BY Zenon DEF TimerIInv, IndexesAgree, Id
      <4>2. \A f \in timers_' : <<f[2], heap[f[2]].sequence>> # id
        BY <2>3, <2>4
      <4>3. id = <<e[2], heap[e[2]].sequence>>
        BY <2>1, Zenon DEF Id
      <4>4. activeTimers_' = {<<f[2], heap[f[2]].sequence>> : f \in timers_'}
        BY <2>3, <4>1, <4>2, <4>3, Zenon
      <4> QED
        BY <2>3, <2>4, <4>4, Zenon
    <3> QED
      BY <3>1, <3>2, Zenon DEF IndexesAgree, Id
  <2>10. AlarmIsSet'
    BY <1>u, <2>3 DEF TimerIInv, AlarmIsSet
  <2>11. CancelInv'
    <3>1. \A a \in Addrs : a # c => heap'[a] = heap[a]
      BY <2>3, Zenon DEF TimerIInv, TypeInv
    <3>2. \A a \in Addrs : heap'[a].sequence <= s_numCreated_
      BY <2>7, <3>1 DEF TimerIInv, TypeInv, CancelInv
    <3>3. ASSUME NEW x \in cancelled'
          PROVE  x[2] <= s_numCreated_ /\ (<<x[1], heap'[x[1]].sequence>> # x
                     \/ (x[1] \in BatchA /\ x \in cancelingTimers_))
      <4>0. x \in Addrs \X (Nat \ {0})
        BY <2>5, Zenon
      <4>1. x[2] <= s_numCreated_
        BY <2>2, <2>3, <1>0, Zenon DEF TimerIInv, CancelInv
      <4>2. CASE x[1] = c
        BY <4>0, <4>1, <4>2, <2>7
      <4>3. CASE x[1] # c
        BY <4>0, <4>1, <4>3, <3>1, <2>3, Zenon DEF TimerIInv, CancelInv, Id
      <4> QED
        BY <4>2, <4>3, Zenon
    <3> QED
      BY <1>u, <2>3, <3>2, <3>3, Zenon DEF CancelInv, Id, BatchA
  <2> QED
    BY <1>1, <2>2, <2>5, <2>6, <2>8, <2>9, <2>10, <2>11, Zenon
<1>2. CASE id \notin activeTimers_
  <2>1. /\ timers_' = timers_ /\ activeTimers_' = activeTimers_ /\ heap' = heap
        /\ cancelingTimers_' = IF callingExpiredTimers_
                                 THEN cancelingTimers_ \cup {id} ELSE cancelingTimers_
        /\ cancelled' = IF Known(id) THEN cancelled \cup {id} ELSE cancelled
    BY <1>2, Zenon DEF CancelInLoop
  <2>2. CancelInv'
    <3>1. Known(id) => c \in BatchA /\ callingExpiredTimers_ = TRUE
      BY <1>2 DEF Known, TimerIInv, BatchInv, Id, BatchA
    <3>2. Known(id) => id[2] <= s_numCreated_
      BY <1>0, <1>k DEF TimerIInv, CancelInv, Id
    <3> QED
      BY <1>u, <2>1, <3>1, <3>2, Zenon DEF TimerIInv, CancelInv, Id, BatchA
  <2>3. IndexesAgree' /\ AlarmIsSet' /\ IndexA' = IndexA
    BY <1>u, <2>1 DEF TimerIInv, IndexesAgree, AlarmIsSet, Live, Id, IndexA
  <2> QED
    BY <1>0, <1>2, <2>1, <2>2, <2>3, Zenon DEF TimerIInv, TypeInv, Live
<1> QED
  BY <1>1, <1>2, Zenon

-----------------------------------------------------------------------------
(* Positions after a push to the functors of the loop.                      *)
LEMMA AppendFacts ==
    ASSUME NEW S, NEW s \in Seq(S), NEW x \in S
    PROVE  /\ Append(s, x) \in Seq(S)
           /\ DOMAIN Append(s, x) = DOMAIN s \cup {Len(s) + 1}
           /\ Len(s) + 1 \notin DOMAIN s
           /\ Append(s, x)[Len(s) + 1] = x
           /\ \A i \in DOMAIN s : Append(s, x)[i] = s[i]
  OBVIOUS

(* Positions after a pop from the functors of the loop.                     *)
LEMMA TailFacts ==
    ASSUME NEW S, NEW s \in Seq(S), s # <<>>
    PROVE  /\ Head(s) \in S /\ Head(s) = s[1] /\ 1 \in DOMAIN s
           /\ Tail(s) \in Seq(S)
           /\ \A i \in DOMAIN Tail(s) : i + 1 \in DOMAIN s /\ i + 1 # 1 /\ Tail(s)[i] = s[i + 1]
           /\ \A j \in DOMAIN s : j # 1 => j - 1 \in DOMAIN Tail(s) /\ Tail(s)[j - 1] = s[j]
           /\ DOMAIN s \subseteq Nat /\ DOMAIN Tail(s) \subseteq Nat
  OBVIOUS

(* A new timer has a sequence number that was never used.                   *)
LEMMA NewTimerFacts ==
    ASSUME TimerAssumption, TimerIInv, NEW a \in Addrs, NEW timer \in Timers, NewTimer(a, timer)
    PROVE  /\ timer \in TimerType /\ timer.sequence = s_numCreated_ + 1
           /\ s_numCreated_' = s_numCreated_ + 1 /\ s_numCreated_' \in Nat
           /\ ~Live(a)
           /\ heap' = [heap EXCEPT ![a] = timer] /\ heap' \in [Addrs -> TimerType]
           /\ a \notin IndexA \cup BatchA
           /\ \A i \in DOMAIN requests : IsAdd(i) => requests[i].addr # a
           /\ \A b \in Addrs : Live(b)' <=> Live(b) \/ b = a
           /\ \A e \in timers_ \cup expired : heap'[e[2]] = heap[e[2]]
<1>1. timer \in TimerType
  BY DEF Timers, TimerAssumption, TimerIInv, TypeInv, TimerType
<1>2. timer.sequence = s_numCreated_ + 1 /\ s_numCreated_' = s_numCreated_ + 1 /\ ~Live(a)
      /\ heap' = [heap EXCEPT ![a] = timer]
  BY Zenon DEF NewTimer
<1>3. s_numCreated_' \in Nat /\ timer.sequence # 0
  BY <1>2 DEF TimerIInv, TypeInv
<1>4. heap' \in [Addrs -> TimerType]
  BY <1>1, <1>2, Zenon DEF TimerIInv, TypeInv
<1>5. a \notin IndexA \cup BatchA /\ \A i \in DOMAIN requests : IsAdd(i) => requests[i].addr # a
  BY <1>2 DEF TimerIInv, OwnInv
<1>6. \A b \in Addrs : Live(b)' <=> Live(b) \/ b = a
  BY <1>2, <1>3, Zenon DEF TimerIInv, TypeInv, Live
<1>7. \A e \in timers_ \cup expired : heap'[e[2]] = heap[e[2]]
  BY <1>2, <1>5, Zenon DEF TimerIInv, TypeInv, Entries, IndexA, BatchA
<1> QED
  BY <1>1, <1>2, <1>3, <1>4, <1>5, <1>6, <1>7, Zenon

(* The numbers in cancelled stay those of timers that are gone or marked.   *)
LEMMA NewTimerCancelled ==
    ASSUME TimerAssumption, TimerIInv, NEW a \in Addrs, NEW timer \in Timers, NewTimer(a, timer),
           UNCHANGED <<cancelled, expired, cancelingTimers_>>
    PROVE  CancelInv'
<1>1. /\ timer.sequence = s_numCreated_ + 1 /\ s_numCreated_' = s_numCreated_ + 1
      /\ heap' = [heap EXCEPT ![a] = timer] /\ s_numCreated_ \in Nat
  BY NewTimerFacts, Zenon DEF TimerIInv, TypeInv
<1>2. heap'[a] = timer /\ \A b \in Addrs : b # a => heap'[b] = heap[b]
  BY <1>1, Zenon DEF TimerIInv, TypeInv
<1>3. \A b \in Addrs : heap'[b].sequence <= s_numCreated_'
  <2>1. \A b \in Addrs : heap[b].sequence \in Nat /\ heap[b].sequence <= s_numCreated_
    BY Zenon DEF TimerIInv, TypeInv, TimerType, CancelInv
  <2> QED
    BY <1>1, <1>2, <2>1
<1>4. ASSUME NEW x \in cancelled
      PROVE  x[2] <= s_numCreated_' /\ (<<x[1], heap'[x[1]].sequence>> # x
                 \/ (x[1] \in BatchA /\ x \in cancelingTimers_))
  <2>1. x \in Addrs \X (Nat \ {0}) /\ x[2] <= s_numCreated_
    BY Zenon DEF TimerIInv, TypeInv, CancelInv
  <2>2. CASE x[1] = a
    <3>1. heap'[x[1]].sequence = s_numCreated_ + 1 /\ x[2] \in Nat
      BY <1>1, <1>2, <2>1, <2>2, Zenon
    <3> QED
      BY <1>1, <2>1, <3>1
  <2>3. CASE x[1] # a
    <3>1. heap'[x[1]] = heap[x[1]] /\ x[2] \in Nat
      BY <1>2, <2>1, <2>3, Zenon
    <3>2. Id(x[1]) # x \/ (x[1] \in BatchA /\ x \in cancelingTimers_)
      BY Zenon DEF TimerIInv, CancelInv
    <3> QED
      BY <1>1, <2>1, <3>1, <3>2 DEF Id
  <2> QED
    BY <2>2, <2>3, Zenon
<1> QED
  BY <1>3, <1>4, Zenon DEF CancelInv, Id, BatchA

-----------------------------------------------------------------------------
(* addTimer() in another thread.                                            *)
LEMMA AddTimerInv ==
    ASSUME TimerAssumption, TimerIInv, NEW th \in TimerThreads, NEW a \in Addrs, NEW timer \in Timers,
           AddTimer(th, a, timer)
    PROVE  TimerIInv'
<1> DEFINE r == [op |-> "add", addr |-> a]
<1>1. /\ NewTimer(a, timer)
      /\ requests' = Append(requests, r)
      /\ returning' = returning \cup {<<th, a, timer.sequence>>}
      /\ UNCHANGED <<now, timers_, activeTimers_, cancelingTimers_, armed, fired, ids,
                     callingExpiredTimers_, expired, toRun, batchNow, reported, cancelled>>
  BY Zenon DEF AddTimer, handleReadVars
<1>2. /\ timer \in TimerType /\ timer.sequence = s_numCreated_ + 1
      /\ s_numCreated_' \in Nat /\ ~Live(a) /\ heap' \in [Addrs -> TimerType]
      /\ a \notin IndexA \cup BatchA
      /\ \A i \in DOMAIN requests : IsAdd(i) => requests[i].addr # a
      /\ \A b \in Addrs : Live(b)' <=> Live(b) \/ b = a
      /\ \A e \in timers_ \cup expired : heap'[e[2]] = heap[e[2]]
  BY <1>1, NewTimerFacts, Zenon
<1>3. r \in Request /\ requests \in Seq(Request) /\ r.op = "add" /\ r.addr = a
  BY Zenon DEF Request, TimerIInv, TypeInv
<1>4. /\ requests' \in Seq(Request)
      /\ DOMAIN requests' = DOMAIN requests \cup {Len(requests) + 1}
      /\ Len(requests) + 1 \notin DOMAIN requests
      /\ requests'[Len(requests) + 1] = r
      /\ \A i \in DOMAIN requests : requests'[i] = requests[i]
  BY <1>1, <1>3, AppendFacts
<1>5. TypeInv'
  <2>1. timer.sequence \in Nat \ {0}
    BY <1>2 DEF TimerIInv, TypeInv
  <2>2. returning' \subseteq TimerThreads \X Addrs \X (Nat \ {0})
    BY <1>1, <2>1 DEF TimerIInv, TypeInv
  <2> QED
    BY <1>1, <1>2, <1>4, <2>2, Zenon DEF TimerIInv, TypeInv
<1>6. BatchInv'
  BY <1>1, Zenon DEF TimerIInv, BatchInv
<1>7. IndexesAgree'
  BY <1>1, <1>2 DEF TimerIInv, IndexesAgree, Live, Id
<1>8. AlarmIsSet'
  BY <1>1, Zenon DEF TimerIInv, AlarmIsSet
<1>9. CancelInv'
  BY <1>1, NewTimerCancelled, Zenon
<1>10. OwnInv'
  <2>1. IndexA' = IndexA /\ BatchA' = BatchA /\ IndexA \cup BatchA \subseteq Addrs
    BY <1>1, Zenon DEF IndexA, BatchA, TimerIInv, TypeInv, Entries
  <2>2. \A i : IsAdd(i)' <=> IsAdd(i) \/ i = Len(requests) + 1
    BY <1>3, <1>4, Zenon DEF IsAdd
  <2>3. \A i \in DOMAIN requests : IsAdd(i) => requests[i].addr \in Addrs
    BY <1>3 DEF IsAdd, Request
  <2> HIDE DEF r
  <2>4. \A b \in IndexA' \cup BatchA' : Live(b)'
    BY <1>2, <2>1, Zenon DEF TimerIInv, OwnInv
  <2>5. ASSUME NEW i \in DOMAIN requests', IsAdd(i)'
        PROVE  Live(requests[i].addr)' /\ requests'[i].addr \notin IndexA' \cup BatchA'
    <3>1. CASE i = Len(requests) + 1
      <4>1. requests'[i].addr = a
        BY <1>3, <1>4, <3>1, Zenon
      <4>2. heap'[a].sequence # 0
        BY <1>2, Zenon DEF Live
      <4> QED
        BY <1>2, <2>1, <4>1, <4>2, Zenon DEF Live
    <3>2. CASE i \in DOMAIN requests
      <4>1. IsAdd(i) /\ requests'[i] = requests[i] /\ requests[i].addr \in Addrs
        BY <1>4, <2>2, <2>3, <2>5, <3>2, Zenon
      <4>2. Live(requests[i].addr) /\ requests[i].addr \notin IndexA \cup BatchA
        BY <3>2, <4>1, Zenon DEF TimerIInv, OwnInv
      <4>3. heap'[requests[i].addr].sequence # 0
        BY <1>2, <4>1, <4>2, Zenon DEF Live
      <4> QED
        BY <2>1, <4>1, <4>2, <4>3, Zenon DEF Live
    <3> QED
      BY <1>4, <3>1, <3>2, Zenon
  <2>6. \A i, j \in DOMAIN requests' :
           IsAdd(i)' /\ IsAdd(j)' /\ requests'[i].addr = requests'[j].addr => i = j
    BY <1>2, <1>3, <1>4, <2>2 DEF TimerIInv, OwnInv, IsAdd
  <2>7. ASSUME NEW b \in Addrs, Live(b)'
        PROVE  b \in IndexA' \cup BatchA'
               \/ \E i \in DOMAIN requests' : IsAdd(i)' /\ requests'[i].addr = b
    <3>1. CASE b = a
      BY <1>3, <1>4, <2>2, <3>1, Zenon
    <3>2. CASE Live(b)
      BY <1>4, <2>1, <2>2, <3>2, Zenon DEF TimerIInv, OwnInv
    <3> QED
      BY <1>2, <2>7, <3>1, <3>2, Zenon
  <2>8. IndexA' \cap BatchA' = {}
    BY <2>1, Zenon DEF TimerIInv, OwnInv
  <2> QED
    BY <2>4, <2>5, <2>6, <2>7, <2>8, Zenon DEF OwnInv
<1> QED
  BY <1>5, <1>6, <1>7, <1>8, <1>9, <1>10, Zenon DEF TimerIInv

(* addTimer() in the loop thread.                                           *)
LEMMA LoopAddTimerInv ==
    ASSUME TimerAssumption, TimerIInv, NEW a \in Addrs, NEW timer \in Timers, LoopAddTimer(a, timer)
    PROVE  TimerIInv'
<1>1. /\ NewTimer(a, timer) /\ AddTimerInLoop(a, timer)
      /\ ids' = ids \cup {<<a, timer.sequence>>}
      /\ UNCHANGED <<now, cancelingTimers_, requests, returning,
                     callingExpiredTimers_, expired, toRun, batchNow, reported, cancelled>>
  BY Zenon DEF LoopAddTimer, handleReadVars
<1>2. /\ timer \in TimerType /\ timer.sequence = s_numCreated_ + 1
      /\ s_numCreated_' \in Nat /\ ~Live(a)
      /\ heap' = [heap EXCEPT ![a] = timer] /\ heap' \in [Addrs -> TimerType]
      /\ a \notin IndexA \cup BatchA
      /\ \A i \in DOMAIN requests : IsAdd(i) => requests[i].addr # a
      /\ \A b \in Addrs : Live(b)' <=> Live(b) \/ b = a
  BY <1>1, NewTimerFacts, Zenon
<1>3. timer.sequence \in Nat \ {0} /\ timer.sequence # 0
  BY <1>2 DEF TimerIInv, TypeInv
<1>4. /\ timers_' \subseteq Entries /\ armed' \in Nat /\ fired' \in BOOLEAN
      /\ IndexA' = IndexA \cup {a} /\ IndexesAgree' /\ AlarmIsSet'
  BY <1>1, <1>2, <1>3, AddInLoop, Zenon
<1>5. TypeInv'
  <2>1. ids' \subseteq Addrs \X (Nat \ {0})
    BY <1>1, <1>3 DEF TimerIInv, TypeInv
  <2> QED
    BY <1>1, <1>2, <1>4, <2>1, Zenon DEF TimerIInv, TypeInv
<1>6. BatchInv'
  BY <1>1, Zenon DEF TimerIInv, BatchInv
<1>7. CancelInv'
  BY <1>1, NewTimerCancelled, Zenon
<1>8. OwnInv'
  <2>1. BatchA' = BatchA /\ IndexA \cup BatchA \subseteq Addrs
    BY <1>1, Zenon DEF IndexA, BatchA, TimerIInv, TypeInv, Entries
  <2>2. \A i : IsAdd(i)' <=> IsAdd(i)
    BY <1>1, Zenon DEF IsAdd
  <2>3. \A i \in DOMAIN requests : IsAdd(i) => requests[i].addr \in Addrs
    BY DEF IsAdd, Request, TimerIInv, TypeInv
  <2> QED
    BY <1>1, <1>2, <1>4, <2>1, <2>2, <2>3 DEF TimerIInv, OwnInv
<1> QED
  BY <1>4, <1>5, <1>6, <1>7, <1>8, Zenon DEF TimerIInv

-----------------------------------------------------------------------------
(* A pop from the functors, of a request that no longer owns a timer.       *)
LEMMA PopOwn ==
    ASSUME TimerIInv, requests # <<>>, requests' = Tail(requests), BatchA' = BatchA,
           NEW gone, NEW added,
           IndexA' = (IndexA \ gone) \cup added, gone \subseteq IndexA,
           \A a \in Addrs : Live(a)' <=> Live(a) /\ a \notin gone,
           added = IF IsAdd(1) THEN {requests[1].addr} ELSE {},
           added # {} => gone = {}
    PROVE  OwnInv'
<1>0. requests \in Seq(Request)
  BY Zenon DEF TimerIInv, TypeInv
<1>1. /\ 1 \in DOMAIN requests
      /\ \A i \in DOMAIN requests' : i + 1 \in DOMAIN requests /\ i + 1 # 1
             /\ requests'[i] = requests[i + 1]
      /\ \A j \in DOMAIN requests : j # 1 => j - 1 \in DOMAIN requests' /\ requests'[j - 1] = requests[j]
      /\ DOMAIN requests \subseteq Nat /\ DOMAIN requests' \subseteq Nat
  BY <1>0, TailFacts, ZenonT(40)
<1>2. \A i \in DOMAIN requests' : IsAdd(i)' => IsAdd(i + 1)
  BY <1>1, Zenon DEF IsAdd
<1>3. \A j \in DOMAIN requests : j # 1 /\ IsAdd(j) => IsAdd(j - 1)'
  BY <1>1, Zenon DEF IsAdd
<1>4. \A i \in DOMAIN requests : IsAdd(i) => requests[i].addr \in Addrs
  BY <1>0 DEF IsAdd, Request
<1>5. IndexA \cup BatchA \subseteq Addrs /\ added \subseteq Addrs
  BY <1>1, <1>4 DEF IndexA, BatchA, TimerIInv, TypeInv, Entries
<1>6. added \cap (IndexA \cup BatchA) = {} /\ \A a \in added : Live(a)
  BY <1>1 DEF TimerIInv, OwnInv
<1>7. \A a \in IndexA' \cup BatchA' : Live(a)'
  <2>1. gone \cap BatchA = {} /\ gone \cap added = {}
    BY <1>6, Zenon DEF TimerIInv, OwnInv
  <2> QED
    BY <1>5, <1>6, <2>1, Zenon DEF TimerIInv, OwnInv
<1>8. IndexA' \cap BatchA' = {}
  BY <1>6, Zenon DEF TimerIInv, OwnInv
<1>9. ASSUME NEW i \in DOMAIN requests', IsAdd(i)'
      PROVE  Live(requests[i].addr)' /\ requests'[i].addr \notin IndexA' \cup BatchA'
  <2>1. i + 1 \in DOMAIN requests /\ i + 1 # 1 /\ IsAdd(i + 1) /\ requests'[i] = requests[i + 1]
    BY <1>1, <1>2, <1>9, Zenon
  <2> DEFINE b == requests[i + 1].addr
  <2>2. b \in Addrs /\ Live(b) /\ b \notin IndexA \cup BatchA
    BY <1>4, <2>1, Zenon DEF TimerIInv, OwnInv
  <2>3. b \notin added
    BY <1>1, <2>1, Zenon DEF TimerIInv, OwnInv
  <2>4. heap'[b].sequence # 0
    BY <2>2, Zenon DEF Live
  <2> QED
    BY <2>1, <2>2, <2>3, <2>4, Zenon DEF Live
<1>10. ASSUME NEW i \in DOMAIN requests', NEW j \in DOMAIN requests',
              IsAdd(i)', IsAdd(j)', requests'[i].addr = requests'[j].addr
       PROVE  i = j
  <2>1. i + 1 = j + 1
    BY <1>1, <1>2, <1>10 DEF TimerIInv, OwnInv
  <2> QED
    BY <1>1, <2>1
<1>11. ASSUME NEW b \in Addrs, Live(b)'
       PROVE  b \in IndexA' \cup BatchA'
              \/ \E i \in DOMAIN requests' : IsAdd(i)' /\ requests'[i].addr = b
  <2>1. Live(b) /\ b \notin gone
    BY <1>11, Zenon
  <2>2. CASE b \in IndexA \cup BatchA
    BY <2>1, <2>2, Zenon
  <2>3. CASE \E i \in DOMAIN requests : IsAdd(i) /\ requests[i].addr = b
    <3>1. PICK i \in DOMAIN requests : IsAdd(i) /\ requests[i].addr = b
      BY <2>3, Zenon
    <3>2. CASE i = 1
      BY <3>1, <3>2, Zenon
    <3>3. CASE i # 1
      BY <1>1, <1>3, <3>1, <3>3, Zenon
    <3> QED
      BY <3>2, <3>3, Zenon
  <2> QED
    BY <2>1, <2>2, <2>3, Zenon DEF TimerIInv, OwnInv
<1> QED
  BY <1>7, <1>8, <1>9, <1>10, <1>11, Zenon DEF OwnInv

(* doPendingFunctors() runs an addTimerInLoop or a cancelInLoop.            *)
LEMMA RunFunctorInv == ASSUME TimerIInv, RunRequest PROVE TimerIInv'
<1> DEFINE f == requests[1]
<1>1. /\ requests # <<>> /\ requests' = Tail(requests)
      /\ UNCHANGED <<now, s_numCreated_, returning, ids, callingExpiredTimers_, expired, toRun,
                     batchNow, reported>>
  BY Zenon DEF RunRequest, handleReadVars
<1>2. /\ f \in Request /\ Head(requests) = f /\ 1 \in DOMAIN requests
      /\ requests' \in Seq(Request)
  BY <1>1, TailFacts DEF TimerIInv, TypeInv
<1>3. BatchA' = BatchA /\ BatchInv'
  BY <1>1, Zenon DEF BatchA, TimerIInv, BatchInv
<1>4. CASE f.op = "add"
  <2>1. AddTimerInLoop(f.addr, heap[f.addr]) /\ UNCHANGED <<heap, cancelingTimers_, cancelled>>
    BY <1>2, <1>4, Zenon DEF RunRequest
  <2> DEFINE a == f.addr
  <2>2. IsAdd(1) /\ a \in Addrs
    BY <1>2, <1>4, Zenon DEF IsAdd, Request
  <2>3. Live(a) /\ a \notin IndexA \cup BatchA
    BY <1>2, <2>2, Zenon DEF TimerIInv, OwnInv
  <2>4. heap[a] \in TimerType /\ heap[a].sequence # 0 /\ heap' = [heap EXCEPT ![a] = heap[a]]
    BY <2>1, <2>2, <2>3, Zenon DEF TimerIInv, TypeInv, Live
  <2>5. /\ timers_' \subseteq Entries /\ armed' \in Nat /\ fired' \in BOOLEAN
        /\ IndexA' = IndexA \cup {a} /\ IndexesAgree' /\ AlarmIsSet'
    BY <1>1, <2>1, <2>2, <2>3, <2>4, AddInLoop, Zenon
  <2>6. TypeInv'
    BY <1>1, <1>2, <2>1, <2>5, Zenon DEF TimerIInv, TypeInv
  <2>7. CancelInv'
    BY <1>1, <2>1, Zenon DEF TimerIInv, CancelInv, Id, BatchA
  <2>8. OwnInv'
    <3>1. \A b \in Addrs : Live(b)' <=> Live(b)
      BY <2>1, Zenon DEF Live
    <3> DEFINE gone == {}
               added == {a}
    <3>2. IndexA' = (IndexA \ gone) \cup added /\ gone \subseteq IndexA
      BY <2>5, Zenon
    <3>3. \A b \in Addrs : Live(b)' <=> Live(b) /\ b \notin gone
      BY <3>1, Zenon
    <3>4. added = (IF IsAdd(1) THEN {requests[1].addr} ELSE {}) /\ (added # {} => gone = {})
      BY <2>2, Zenon
    <3> HIDE DEF gone, added
    <3> QED
      BY <1>1, <1>3, <3>2, <3>3, <3>4, PopOwn, Zenon
  <2> QED
    BY <1>3, <2>5, <2>6, <2>7, <2>8, Zenon DEF TimerIInv
<1>5. CASE f.op = "cancel"
  <2>1. CancelInLoop(f.id) /\ armed' = armed /\ fired' = fired
    BY <1>2, <1>5, Zenon DEF RunRequest
  <2>2. f.id \in Addrs \X (Nat \ {0}) /\ ~IsAdd(1)
    BY <1>2, <1>5, Zenon DEF Request, IsAdd
  <2> DEFINE gone == {a \in IndexA : f.id \in activeTimers_ /\ a = f.id[1]}
  <2>3. /\ timers_' \subseteq Entries /\ heap' \in [Addrs -> TimerType]
        /\ cancelled' \subseteq Addrs \X (Nat \ {0})
        /\ IndexesAgree' /\ AlarmIsSet' /\ CancelInv'
        /\ IndexA' = IndexA \ gone
        /\ \A a \in Addrs : Live(a)' <=> Live(a) /\ ~(f.id \in activeTimers_ /\ a = f.id[1])
        /\ f.id \in activeTimers_ => f.id[1] \in IndexA
    BY <1>1, <2>1, <2>2, Cancels, Zenon DEF handleReadVars
  <2>4. TypeInv'
    BY <1>1, <1>2, <2>1, <2>3, Zenon DEF TimerIInv, TypeInv
  <2>5. OwnInv'
    <3>1. \A a \in Addrs : Live(a)' <=> Live(a) /\ a \notin gone
      BY <2>3, Zenon
    <3>2. gone \subseteq IndexA /\ IndexA' = (IndexA \ gone) \cup {}
      BY <2>3, Zenon
    <3> HIDE DEF gone
    <3> QED
      BY <1>1, <1>3, <2>2, <3>1, <3>2, PopOwn, Zenon
  <2> QED
    BY <1>3, <2>3, <2>4, <2>5, Zenon DEF TimerIInv
<1> QED
  BY <1>2, <1>4, <1>5, Zenon DEF Request

(* cancel() in the loop thread.                                             *)
LEMMA LoopCancelInv == ASSUME TimerIInv, NEW id \in ids, LoopCancel(id) PROVE TimerIInv'
<1>1. /\ CancelInLoop(id)
      /\ UNCHANGED <<now, s_numCreated_, armed, fired, requests, returning, ids,
                     callingExpiredTimers_, expired, toRun, batchNow, reported>>
  BY Zenon DEF LoopCancel, handleReadVars
<1>2. id \in Addrs \X (Nat \ {0})
  BY Zenon DEF TimerIInv, TypeInv
<1>3. /\ timers_' \subseteq Entries /\ heap' \in [Addrs -> TimerType]
      /\ cancelled' \subseteq Addrs \X (Nat \ {0})
      /\ IndexesAgree' /\ AlarmIsSet' /\ CancelInv'
      /\ IndexA' = IndexA \ {a \in IndexA : id \in activeTimers_ /\ a = id[1]}
      /\ \A a \in Addrs : Live(a)' <=> Live(a) /\ ~(id \in activeTimers_ /\ a = id[1])
      /\ id \in activeTimers_ => id[1] \in IndexA
  BY <1>1, <1>2, Cancels, Zenon DEF handleReadVars
<1>4. TypeInv' /\ BatchInv'
  BY <1>1, <1>3, Zenon DEF TimerIInv, TypeInv, BatchInv
<1>5. OwnInv'
  <2>1. BatchA' = BatchA /\ IndexA \cup BatchA \subseteq Addrs
    BY <1>1, Zenon DEF IndexA, BatchA, TimerIInv, TypeInv, Entries
  <2>2. \A i : IsAdd(i)' <=> IsAdd(i)
    BY <1>1, Zenon DEF IsAdd
  <2>3. \A i \in DOMAIN requests : IsAdd(i) => requests[i].addr \in Addrs
    BY DEF IsAdd, Request, TimerIInv, TypeInv
  <2>4. \A a \in IndexA' \cup BatchA' : Live(a)'
    BY <1>3, <2>1 DEF TimerIInv, OwnInv
  <2>5. ASSUME NEW i \in DOMAIN requests, IsAdd(i)
        PROVE  heap'[requests[i].addr].sequence # 0 /\ requests[i].addr \notin IndexA' \cup BatchA'
    BY <1>3, <2>1, <2>3, <2>5, Zenon DEF TimerIInv, OwnInv, Live
  <2>6. ASSUME NEW a \in Addrs, Live(a)'
        PROVE  a \in IndexA' \cup BatchA'
               \/ \E i \in DOMAIN requests : IsAdd(i) /\ requests[i].addr = a
    BY <1>3, <2>1, <2>6, Zenon DEF TimerIInv, OwnInv
  <2>7. IndexA' \cap BatchA' = {}
    BY <1>3, <2>1, Zenon DEF TimerIInv, OwnInv
  <2>8. \A i, j \in DOMAIN requests :
           IsAdd(i) /\ IsAdd(j) /\ requests[i].addr = requests[j].addr => i = j
    BY Zenon DEF TimerIInv, OwnInv
  <2> QED
    BY <1>1, <2>2, <2>4, <2>5, <2>6, <2>7, <2>8, Zenon DEF OwnInv, Live
<1> QED
  BY <1>3, <1>4, <1>5, Zenon DEF TimerIInv

-----------------------------------------------------------------------------
(* The start of handleRead(): the expired timers move to the batch.         *)
LEMMA HandleReadInv == ASSUME TimerIInv, HandleRead PROVE TimerIInv'
<1>1. /\ reported = TRUE /\ reported' = FALSE /\ fired' = FALSE /\ batchNow' = now
      /\ expired' = Expired /\ timers_' = timers_ \ Expired
      /\ activeTimers_' = activeTimers_ \ {Id(e[2]) : e \in Expired}
      /\ callingExpiredTimers_' = TRUE /\ cancelingTimers_' = {}
      /\ UNCHANGED <<now, heap, s_numCreated_, armed, requests, returning, ids, cancelled>>
  BY Zenon DEF HandleRead, TimerIInv, TypeInv
<1>2. expired = {} /\ Expired \subseteq timers_
  BY <1>1, Zenon DEF TimerIInv, BatchInv, Expired
<1>3. \A e, f \in timers_ : e[2] = f[2] => e = f
  BY DEF TimerIInv, IndexesAgree, TypeInv, Entries
<1>4. IndexA' \cup BatchA' = IndexA \cup BatchA /\ IndexA' \cap BatchA' = {}
  <2>1. IndexA' = {e[2] : e \in timers_ \ Expired} /\ BatchA' = {e[2] : e \in Expired} /\ BatchA = {}
    BY <1>1, <1>2, Zenon DEF IndexA, BatchA
  <2> QED
    BY <1>2, <1>3, <2>1, Zenon DEF IndexA
<1>5. TypeInv' /\ BatchInv'
  BY <1>1, <1>2, Zenon DEF TimerIInv, TypeInv, BatchInv
<1>6. IndexesAgree'
  <2>1. activeTimers_ = {<<e[2], heap[e[2]].sequence>> : e \in timers_}
    BY Zenon DEF TimerIInv, IndexesAgree, Id
  <2>2. activeTimers_' = activeTimers_ \ {<<e[2], heap[e[2]].sequence>> : e \in Expired}
    BY <1>1, Zenon DEF Id
  <2>3. activeTimers_' = {<<e[2], heap[e[2]].sequence>> : e \in timers_ \ Expired}
    BY <1>2, <1>3, <2>1, <2>2
  <2> QED
    BY <1>1, <2>3, Zenon DEF TimerIInv, IndexesAgree, Live, Id
<1>7. AlarmIsSet'
  BY <1>1, Zenon DEF AlarmIsSet
<1>8. CancelInv'
  BY <1>1, <1>2, Zenon DEF TimerIInv, CancelInv, Id, BatchA
<1>9. OwnInv'
  <2>1. \A i : IsAdd(i)' <=> IsAdd(i)
    BY <1>1, Zenon DEF IsAdd
  <2> QED
    BY <1>1, <1>4, <2>1, Zenon DEF TimerIInv, OwnInv, Live
<1> QED
  BY <1>5, <1>6, <1>7, <1>8, <1>9, Zenon DEF TimerIInv

(* The end of handleRead(): the batch is restarted or deleted.              *)
LEMMA ResetInv == ASSUME TimerIInv, Reset PROVE TimerIInv'
<1> DEFINE again == {e[2] : e \in Restarted}
           gone  == {e[2] : e \in expired} \ again
<1>1. /\ callingExpiredTimers_' = FALSE /\ expired' = {}
      /\ heap' = [a \in Addrs |->
                    IF a \in again
                      THEN [heap[a] EXCEPT !.expiration = batchNow + heap[a].interval]
                      ELSE IF a \in gone THEN Freed ELSE heap[a]]
      /\ timers_' = timers_ \cup {<<batchNow + heap[a].interval, a>> : a \in again}
      /\ activeTimers_' = activeTimers_ \cup {Id(a) : a \in again}
      /\ Rearm(timers_')
      /\ callingExpiredTimers_ = TRUE
      /\ UNCHANGED <<now, s_numCreated_, cancelingTimers_, requests, returning, ids, batchNow,
                     reported, cancelled>>
  BY Zenon DEF Reset, TimerIInv, TypeInv
<1>2. /\ again \subseteq BatchA /\ gone = BatchA \ again /\ BatchA \subseteq Addrs
      /\ IndexA \subseteq Addrs /\ BatchA \cap IndexA = {} /\ \A a \in BatchA : Live(a)
  <2>1. Restarted \subseteq expired /\ BatchA = {e[2] : e \in expired}
    BY Zenon DEF Restarted, BatchA
  <2>2. again \subseteq BatchA /\ gone = BatchA \ again
    BY <2>1, Zenon
  <2>3. BatchA \subseteq Addrs /\ IndexA \subseteq Addrs
    BY Zenon DEF BatchA, IndexA, TimerIInv, TypeInv, Entries
  <2>4. BatchA \cap IndexA = {} /\ \A a \in BatchA : Live(a)
    BY Zenon DEF TimerIInv, OwnInv
  <2> QED
    BY <2>2, <2>3, <2>4, Zenon
<1>3. \A a \in again : Id(a) \notin cancelingTimers_
  BY Zenon DEF Restarted
<1> HIDE DEF again, gone
<1>4. \A a \in again : /\ heap'[a] \in TimerType
                       /\ heap'[a].expiration = batchNow + heap[a].interval
                       /\ heap'[a].sequence = heap[a].sequence
                       /\ batchNow + heap[a].interval \in Nat
  <2> SUFFICES ASSUME NEW a \in again
               PROVE  /\ heap'[a] \in TimerType
                      /\ heap'[a].expiration = batchNow + heap[a].interval
                      /\ heap'[a].sequence = heap[a].sequence
                      /\ batchNow + heap[a].interval \in Nat
    BY Zenon
  <2>1. a \in Addrs
    BY <1>2, Zenon
  <2>2. heap[a] \in TimerType /\ batchNow + heap[a].interval \in Nat
    BY <2>1 DEF TimerIInv, TypeInv, TimerType
  <2>3. heap'[a] = [heap[a] EXCEPT !.expiration = batchNow + heap[a].interval]
    BY <1>1, <2>1, Zenon
  <2> QED
    BY <2>2, <2>3, Zenon DEF TimerType
<1>5. \A a \in gone : heap'[a] = Freed
  BY <1>1, <1>2, Zenon
<1>6. \A a \in Addrs : a \notin BatchA => heap'[a] = heap[a]
  BY <1>1, <1>2, Zenon
<1>7. heap' \in [Addrs -> TimerType]
  <2>1. \A a \in Addrs : heap'[a] \in TimerType
    <3>1. Freed \in TimerType
      BY Zenon DEF Freed, TimerType
    <3>2. \A a \in Addrs : heap[a] \in TimerType
      BY Zenon DEF TimerIInv, TypeInv
    <3> QED
      BY <1>2, <1>4, <1>5, <1>6, <3>1, <3>2, Zenon
  <2> QED
    BY <1>1, <2>1, Zenon
<1>8. timers_' \subseteq Entries /\ (\A e \in timers_' : e[1] \in Nat)
  <2>1. \A a \in again : <<batchNow + heap[a].interval, a>> \in Entries
    BY <1>2, <1>4, Zenon DEF Entries
  <2>2. timers_' \subseteq Entries
    BY <1>1, <2>1, Zenon DEF TimerIInv, TypeInv
  <2> QED
    BY <2>2, Zenon DEF Entries
<1>9. IndexA' = IndexA \cup again /\ BatchA' = {}
  <2>1. IndexA' = {e[2] : e \in timers_'}
    BY Zenon DEF IndexA
  <2> DEFINE F(a) == <<batchNow + heap[a].interval, a>>
  <2>2. timers_' = timers_ \cup {F(a) : a \in again} /\ \A a \in again : F(a)[2] = a
    BY <1>1, Zenon
  <2>3. BatchA' = {}
    BY <1>1, Zenon DEF BatchA
  <2> HIDE DEF F
  <2> QED
    BY <2>1, <2>2, <2>3 DEF IndexA
<1>10. \A a \in Addrs : Live(a)' <=> Live(a) /\ a \notin gone
  BY <1>2, <1>4, <1>5, <1>6 DEF Live, Freed
<1>11. /\ armed' \in Nat /\ fired' \in BOOLEAN
       /\ timers_' # {} => armed' # 0 /\ \A e \in timers_' :
                              armed' <= e[1] \/ (e[1] <= now /\ armed' <= now + 1)
  <2>1. CASE timers_' = {}
    BY <1>1, <2>1, Zenon DEF Rearm, TimerIInv, TypeInv
  <2>2. CASE timers_' # {}
    <3>1. PICK e \in timers_' : (\A f \in timers_' : e[1] <= f[1]) /\ ResetTimerfd(e[1])
      BY <1>1, <2>2, Zenon DEF Rearm
    <3>2. fired' = FALSE /\ armed' = (IF e[1] > now THEN e[1] ELSE now + 1)
      BY <3>1, Zenon DEF ResetTimerfd
    <3>3. now \in Nat /\ e[1] \in Nat
      BY <1>8, Zenon DEF TimerIInv, TypeInv
    <3>4. armed' \in Nat /\ armed' # 0
      BY <3>2, <3>3
    <3>5. \A f \in timers_' : armed' <= f[1] \/ (f[1] <= now /\ armed' <= now + 1)
      BY <1>8, <3>1, <3>2, <3>3
    <3> QED
      BY <3>2, <3>4, <3>5, Zenon
  <2> QED
    BY <2>1, <2>2, Zenon
<1>12. TypeInv'
  BY <1>1, <1>7, <1>8, <1>11, Zenon DEF TimerIInv, TypeInv
<1>13. BatchInv'
  BY <1>1, Zenon DEF BatchInv
<1>14. AlarmIsSet'
  BY <1>1, <1>11, Zenon DEF AlarmIsSet
<1>15. IndexesAgree'
  <2>1. \A e \in timers_ : e[2] \in IndexA /\ heap'[e[2]] = heap[e[2]]
    BY <1>2, <1>6, Zenon DEF IndexA
  <2>2. ASSUME NEW e \in timers_' PROVE Live(e[2])' /\ e[1] = heap'[e[2]].expiration
    <3>1. CASE e \in timers_
      BY <2>1, <3>1, Zenon DEF TimerIInv, IndexesAgree, Live
    <3>2. CASE e \notin timers_
      <4>1. PICK a \in again : e = <<batchNow + heap[a].interval, a>>
        BY <1>1, <3>2, Zenon
      <4> QED
        BY <1>2, <1>4, <4>1, Zenon DEF Live
    <3> QED
      BY <3>1, <3>2, Zenon
  <2>3. activeTimers_' = {<<e[2], heap'[e[2]].sequence>> : e \in timers_'}
    <3>1. activeTimers_ = {<<e[2], heap'[e[2]].sequence>> : e \in timers_}
      BY <2>1, Zenon DEF TimerIInv, IndexesAgree, Id
    <3>2. {Id(a) : a \in again} = {<<a, heap'[a].sequence>> : a \in again}
      BY <1>4, Zenon DEF Id
    <3>3. activeTimers_' = {<<e[2], heap'[e[2]].sequence>> : e \in timers_}
                           \cup {<<a, heap'[a].sequence>> : a \in again}
      BY <1>1, <3>1, <3>2, Zenon
    <3> DEFINE F(a) == <<batchNow + heap[a].interval, a>>
    <3>4. timers_' = timers_ \cup {F(a) : a \in again} /\ \A a \in again : F(a)[2] = a
      BY <1>1, Zenon
    <3> HIDE DEF F
    <3> QED
      BY <3>3, <3>4
  <2> QED
    BY <2>2, <2>3, Zenon DEF IndexesAgree, Id
<1>16. CancelInv'
  <2>1. \A a \in Addrs : heap'[a].sequence <= s_numCreated_
    BY <1>2, <1>4, <1>5, <1>6 DEF TimerIInv, TypeInv, CancelInv, Freed
  <2>2. ASSUME NEW x \in cancelled
        PROVE  x[2] <= s_numCreated_ /\ <<x[1], heap'[x[1]].sequence>> # x
    <3>1. x \in Addrs \X (Nat \ {0}) /\ x[2] <= s_numCreated_
      BY Zenon DEF TimerIInv, TypeInv, CancelInv
    <3>2. <<x[1], heap[x[1]].sequence>> # x \/ (x[1] \in BatchA /\ x \in cancelingTimers_)
      BY Zenon DEF TimerIInv, CancelInv, Id
    <3>3. CASE x[1] \in gone
      BY <1>5, <3>1, <3>3 DEF Freed
    <3>4. CASE x[1] \in again
      BY <1>3, <1>4, <3>1, <3>2, <3>4, Zenon DEF Id
    <3>5. CASE x[1] \notin BatchA
      BY <1>6, <3>1, <3>2, <3>5, Zenon
    <3> QED
      BY <1>2, <3>3, <3>4, <3>5, Zenon
  <2> QED
    BY <1>1, <2>1, <2>2, Zenon DEF CancelInv, Id
<1>17. OwnInv'
  <2>1. \A i : IsAdd(i)' <=> IsAdd(i)
    BY <1>1, Zenon DEF IsAdd
  <2>2. \A i \in DOMAIN requests : IsAdd(i) => requests[i].addr \in Addrs
    BY DEF IsAdd, Request, TimerIInv, TypeInv
  <2>3. \A a \in IndexA' \cup BatchA' : Live(a)'
    BY <1>2, <1>9, <1>10, Zenon DEF TimerIInv, OwnInv
  <2>4. ASSUME NEW i \in DOMAIN requests, IsAdd(i)
        PROVE  heap'[requests[i].addr].sequence # 0 /\ requests[i].addr \notin IndexA' \cup BatchA'
    BY <1>2, <1>9, <1>10, <2>2, <2>4, Zenon DEF TimerIInv, OwnInv, Live
  <2>5. ASSUME NEW a \in Addrs, Live(a)'
        PROVE  a \in IndexA' \cup BatchA'
               \/ \E i \in DOMAIN requests : IsAdd(i) /\ requests[i].addr = a
    BY <1>2, <1>9, <1>10, <2>5, Zenon DEF TimerIInv, OwnInv
  <2>6. \A i, j \in DOMAIN requests :
           IsAdd(i) /\ IsAdd(j) /\ requests[i].addr = requests[j].addr => i = j
    BY Zenon DEF TimerIInv, OwnInv
  <2> QED
    BY <1>1, <1>9, <2>1, <2>3, <2>4, <2>5, <2>6, Zenon DEF OwnInv, Live
<1> QED
  BY <1>12, <1>13, <1>14, <1>15, <1>16, <1>17, Zenon DEF TimerIInv

-----------------------------------------------------------------------------
(* Steps that change no timer and no index.                                 *)
LEMMA OtherSteps ==
    ASSUME TimerIInv, TypeInv', BatchInv', AlarmIsSet',
           UNCHANGED <<heap, s_numCreated_, timers_, activeTimers_, cancelingTimers_, expired,
                       requests, cancelled>>
    PROVE  TimerIInv'
<1>1. IndexA' = IndexA /\ BatchA' = BatchA
  BY Zenon DEF IndexA, BatchA
<1>2. IndexesAgree'
  BY Zenon DEF TimerIInv, IndexesAgree, Live, Id
<1>3. OwnInv'
  BY <1>1, Zenon DEF TimerIInv, OwnInv, IsAdd, Live
<1>4. CancelInv'
  BY <1>1, Zenon DEF TimerIInv, CancelInv, Id
<1> QED
  BY <1>2, <1>3, <1>4, Zenon DEF TimerIInv

(* cancel() in another thread.                                              *)
LEMMA CancelStep == ASSUME TimerIInv, NEW th \in TimerThreads, NEW id \in ids, Cancel(th, id) PROVE TimerIInv'
<1> DEFINE r == [op |-> "cancel", id |-> id]
<1>1. /\ requests' = Append(requests, r)
      /\ UNCHANGED <<now, heap, s_numCreated_, timers_, activeTimers_, cancelingTimers_, armed,
                     fired, returning, ids, callingExpiredTimers_, expired, batchNow, reported,
                     cancelled>>
  BY Zenon DEF Cancel, handleReadVars
<1>2. r \in Request /\ requests \in Seq(Request) /\ r.op = "cancel"
  BY Zenon DEF TimerIInv, TypeInv, Request
<1>3. /\ requests' \in Seq(Request)
      /\ DOMAIN requests' = DOMAIN requests \cup {Len(requests) + 1}
      /\ Len(requests) + 1 \notin DOMAIN requests
      /\ requests'[Len(requests) + 1] = r
      /\ \A i \in DOMAIN requests : requests'[i] = requests[i]
  BY <1>1, <1>2, AppendFacts
<1>4. TypeInv' /\ BatchInv'
  BY <1>1, <1>3, Zenon DEF TimerIInv, TypeInv, BatchInv
<1>5. IndexesAgree' /\ AlarmIsSet' /\ CancelInv'
  BY <1>1, ZenonT(40) DEF TimerIInv, IndexesAgree, AlarmIsSet, CancelInv, Live, Id, BatchA
<1>6. OwnInv'
  <2>1. IndexA' = IndexA /\ BatchA' = BatchA
    BY <1>1, Zenon DEF IndexA, BatchA
  <2>2. \A i : IsAdd(i)' <=> IsAdd(i)
    BY <1>2, <1>3, Zenon DEF IsAdd
  <2>3. \A i : IsAdd(i) => i \in DOMAIN requests /\ requests'[i] = requests[i]
    BY <1>3, Zenon DEF IsAdd
  <2>4. \A a : Live(a)' <=> Live(a)
    BY <1>1, Zenon DEF Live
  <2>5. \A i \in DOMAIN requests : i \in DOMAIN requests'
    BY <1>3, Zenon
  <2>6. \A i, j \in DOMAIN requests' :
          IsAdd(i)' /\ IsAdd(j)' /\ requests'[i].addr = requests'[j].addr => i = j
    BY <2>2, <2>3, Zenon DEF TimerIInv, OwnInv
  <2>7. \A i \in DOMAIN requests' : IsAdd(i)' =>
          Live(requests[i].addr)' /\ requests'[i].addr \notin IndexA' \cup BatchA'
    BY <1>1, <2>1, <2>2, <2>3, Zenon DEF TimerIInv, OwnInv, Live
  <2>8. \A a \in Addrs : Live(a)' =>
          a \in IndexA' \cup BatchA' \/ \E i \in DOMAIN requests' : IsAdd(i)' /\ requests'[i].addr = a
    BY <2>1, <2>2, <2>3, <2>4, <2>5, Zenon DEF TimerIInv, OwnInv
  <2> QED
    BY <2>1, <2>4, <2>6, <2>7, <2>8, Zenon DEF TimerIInv, OwnInv
<1> QED
  BY <1>4, <1>5, <1>6, Zenon DEF TimerIInv

(* Every step keeps TimerIInv.                                                   *)
LEMMA NextInv == ASSUME TimerAssumption, TimerIInv, [TimerNext]_timerVars PROVE TimerIInv'
<1>1. CASE Tick
  <2>1. /\ now' = now + 1
        /\ UNCHANGED <<heap, s_numCreated_, timers_, activeTimers_, cancelingTimers_, armed,
                       fired, requests, returning, ids, callingExpiredTimers_, expired,
                       batchNow, reported, cancelled>>
    BY <1>1, Zenon DEF Tick, handleReadVars
  <2>2. TypeInv' /\ BatchInv'
    BY <2>1 DEF TimerIInv, TypeInv, BatchInv
  <2>3. AlarmIsSet'
    <3>1. now \in Nat /\ armed \in Nat /\ \A e \in timers_ : e[1] \in Nat
      BY Zenon DEF TimerIInv, TypeInv, Entries
    <3> QED
      BY <2>1, <3>1 DEF TimerIInv, AlarmIsSet
  <2> QED
    BY <2>1, <2>2, <2>3, OtherSteps, Zenon
<1>2. CASE Alarm
  <2>1. /\ armed' = 0 /\ fired' = TRUE
        /\ UNCHANGED <<now, heap, s_numCreated_, timers_, activeTimers_, cancelingTimers_,
                       requests, returning, ids, callingExpiredTimers_, expired,
                       batchNow, reported, cancelled>>
    BY <1>2, Zenon DEF Alarm, handleReadVars
  <2>2. TypeInv' /\ BatchInv' /\ AlarmIsSet'
    BY <2>1, Zenon DEF TimerIInv, TypeInv, BatchInv, AlarmIsSet
  <2> QED
    BY <2>1, <2>2, OtherSteps, Zenon
<1>3. ASSUME NEW th \in TimerThreads, NEW a \in Addrs, NEW timer \in Timers, AddTimer(th, a, timer)
      PROVE  TimerIInv'
  BY <1>3, AddTimerInv, Zenon
<1>4. ASSUME NEW r \in returning, AddTimerReturn(r[1], r[2], r[3]) PROVE TimerIInv'
  <2>1. /\ returning' \subseteq returning
        /\ UNCHANGED <<now, heap, s_numCreated_, timers_, activeTimers_, cancelingTimers_, armed,
                       fired, requests, callingExpiredTimers_, expired, batchNow, reported,
                       cancelled>>
    BY <1>4, Zenon DEF AddTimerReturn, handleReadVars
  <2>2. r[2] \in Addrs
    BY Zenon DEF TimerIInv, TypeInv
  <2>3. PICK read \in (IF Live(r[2]) THEN {heap[r[2]].sequence} ELSE 1 .. MaxSeq) :
           ids' = ids \cup {<<r[2], read>>}
    BY <1>4, Zenon DEF AddTimerReturn
  <2>4. read \in Nat \ {0}
    BY <2>2, <2>3 DEF TimerIInv, TypeInv, TimerType, Live, TimerAssumption
  <2>5. ids' \subseteq Addrs \X (Nat \ {0})
    BY <2>2, <2>3, <2>4 DEF TimerIInv, TypeInv
  <2>6. TypeInv' /\ BatchInv' /\ AlarmIsSet'
    BY <2>1, <2>5, Zenon DEF TimerIInv, TypeInv, BatchInv, AlarmIsSet
  <2> QED
    BY <2>1, <2>6, OtherSteps, Zenon
<1>5. ASSUME NEW th \in TimerThreads, NEW id \in ids, Cancel(th, id) PROVE TimerIInv'
  BY <1>5, CancelStep, Zenon
<1>6. ASSUME NEW a \in Addrs, NEW timer \in Timers, LoopAddTimer(a, timer) PROVE TimerIInv'
  BY <1>6, LoopAddTimerInv, Zenon
<1>7. ASSUME NEW id \in ids, LoopCancel(id) PROVE TimerIInv'
  BY <1>7, LoopCancelInv, Zenon
<1>8. CASE TimerfdReported
  <2>1. /\ ~callingExpiredTimers_ /\ reported' = TRUE
        /\ UNCHANGED <<now, heap, s_numCreated_, timers_, activeTimers_, cancelingTimers_, armed,
                       fired, requests, returning, ids, callingExpiredTimers_, expired,
                       batchNow, cancelled>>
    BY <1>8, Zenon DEF TimerfdReported
  <2>2. TypeInv' /\ AlarmIsSet'
    BY <2>1, Zenon DEF TimerIInv, TypeInv, AlarmIsSet
  <2>3. BatchInv'
    BY <2>1, Zenon DEF TimerIInv, TypeInv, BatchInv
  <2> QED
    BY <2>1, <2>2, <2>3, OtherSteps, Zenon
<1>9. ASSUME NEW e \in toRun, RunTimer(e) PROVE TimerIInv'
  <2>1. UNCHANGED <<now, heap, s_numCreated_, timers_, activeTimers_, cancelingTimers_, armed,
                    fired, requests, returning, ids, callingExpiredTimers_, expired,
                    batchNow, reported, cancelled>>
    BY <1>9, Zenon DEF RunTimer
  <2>2. TypeInv' /\ BatchInv' /\ AlarmIsSet'
    BY <2>1, Zenon DEF TimerIInv, TypeInv, BatchInv, AlarmIsSet
  <2> QED
    BY <2>1, <2>2, OtherSteps, Zenon
<1>10. CASE UNCHANGED timerVars
  <2>1. UNCHANGED <<now, heap, s_numCreated_, timers_, activeTimers_, cancelingTimers_, armed,
                    fired, requests, returning, ids, callingExpiredTimers_, expired,
                    batchNow, reported, cancelled>>
    BY <1>10, Zenon DEF timerVars, handleReadVars
  <2>2. TypeInv' /\ BatchInv' /\ AlarmIsSet'
    BY <2>1, Zenon DEF TimerIInv, TypeInv, BatchInv, AlarmIsSet
  <2> QED
    BY <2>1, <2>2, OtherSteps, Zenon
<1> QED
  BY <1>1, <1>2, <1>3, <1>4, <1>5, <1>6, <1>7, <1>8, <1>9, <1>10, RunFunctorInv,
     HandleReadInv, ResetInv, Zenon DEF TimerNext, TimerThreadNext, TimerUserNext, TimerLoopNext

(* TimerIInv holds of every reachable state.                                     *)
LEMMA Invariant == ASSUME TimerAssumption PROVE TimerSpec => []TimerIInv
<1>1. TimerInit => TimerIInv
  <2> SUFFICES ASSUME TimerInit PROVE TimerIInv
    BY Zenon
  <2> USE DEF TimerInit
  <2>1. TypeInv
    <3>1. Freed \in TimerType /\ <<>> \in Seq(Request)
      BY DEF Freed, TimerType
    <3>2. heap \in [Addrs -> TimerType] /\ requests \in Seq(Request)
      BY <3>1, Zenon
    <3>3. now \in Nat \ {0} /\ s_numCreated_ \in Nat /\ batchNow \in Nat /\ armed \in Nat
      OBVIOUS
    <3>4. callingExpiredTimers_ \in BOOLEAN /\ reported \in BOOLEAN /\ fired \in BOOLEAN
      BY Zenon
    <3> QED
      BY <3>2, <3>3, <3>4, Zenon DEF TypeInv
  <2>2. BatchInv /\ IndexesAgree /\ AlarmIsSet
    BY Zenon DEF BatchInv, IndexesAgree, AlarmIsSet
  <2>3. \A a \in Addrs : heap[a].sequence = 0
    BY Zenon DEF Freed
  <2>4. OwnInv
    BY <2>3 DEF OwnInv, IndexA, BatchA, IsAdd, Live
  <2>5. CancelInv
    BY <2>3 DEF CancelInv
  <2> QED
    BY <2>1, <2>2, <2>4, <2>5, Zenon DEF TimerIInv
<1>2. TimerIInv /\ [TimerNext]_timerVars => TimerIInv'
  BY NextInv, Zenon
<1> QED
  BY <1>1, <1>2, PTL DEF TimerSpec

(* timers_ and activeTimers_ hold the same live timers, each Timer is owned *)
(* by one of the indexes, the batch and a queued addTimerInLoop, and the    *)
(* timerfd is set for the earliest timer whenever handleRead() is not       *)
(* running, whatever threads and callbacks add and cancel.                  *)
THEOREM Consistent ==
    ASSUME TimerAssumption PROVE TimerSpec => []TimersConsistent
<1>1. TimerIInv => OneOwner
  <2> SUFFICES ASSUME TimerIInv PROVE OneOwner
    BY Zenon
  <2> DEFINE adds == {i \in DOMAIN requests : requests[i].op = "add"}
             queuedA == {requests[i].addr : i \in adds}
  <2>1. \A i : i \in adds <=> IsAdd(i)
    BY Zenon DEF IsAdd
  <2>2. \A i \in adds : requests[i].addr \in Addrs /\ i \in DOMAIN requests
    BY DEF TimerIInv, TypeInv, Request
  <2> HIDE DEF adds
  <2>3. IndexA \cup BatchA \subseteq Addrs
    BY Zenon DEF IndexA, BatchA, TimerIInv, TypeInv, Entries
  <2>4. queuedA \cap IndexA = {} /\ queuedA \cap BatchA = {} /\ IndexA \cap BatchA = {}
    BY <2>1, <2>2 DEF TimerIInv, OwnInv
  <2>5. {a \in Addrs : Live(a)} = queuedA \cup IndexA \cup BatchA
    <3>1. \A a \in queuedA \cup IndexA \cup BatchA : a \in Addrs /\ Live(a)
      BY <2>1, <2>2, <2>3 DEF TimerIInv, OwnInv
    <3>2. \A a \in Addrs : Live(a) => a \in queuedA \cup IndexA \cup BatchA
      BY <2>1, Zenon DEF TimerIInv, OwnInv
    <3> QED
      BY <3>1, <3>2, Zenon
  <2>6. \A i, j \in adds : requests[i].addr = requests[j].addr => i = j
    BY <2>1, <2>2, Zenon DEF TimerIInv, OwnInv
  <2> QED
    BY <2>4, <2>5, <2>6, Zenon DEF OneOwner, adds, IndexA, BatchA
<1>2. TimerIInv => IndexesAgree /\ AlarmIsSet
  BY Zenon DEF TimerIInv
<1> QED
  BY <1>1, <1>2, Invariant, PTL DEF TimersConsistent

(* A timer that was cancelled, in its own callback or not, is never         *)
(* scheduled again, although addresses are reused.                          *)
THEOREM CancelFinal == ASSUME TimerAssumption PROVE TimerSpec => []CancelIsFinal
<1>1. TimerIInv => CancelIsFinal
  <2> SUFFICES ASSUME TimerIInv, NEW id \in cancelled, id \in activeTimers_ PROVE FALSE
    BY Zenon DEF CancelIsFinal
  <2>1. PICK e \in timers_ : id = Id(e[2])
    BY Zenon DEF TimerIInv, IndexesAgree
  <2>2. id[1] = e[2] /\ Id(id[1]) = id /\ id[1] \in IndexA
    BY <2>1, Zenon DEF Id, IndexA
  <2>3. id[1] \in BatchA
    BY <2>2, Zenon DEF TimerIInv, CancelInv
  <2> QED
    BY <2>2, <2>3, Zenon DEF TimerIInv, OwnInv
<1> QED
  BY <1>1, Invariant, PTL
=============================================================================
