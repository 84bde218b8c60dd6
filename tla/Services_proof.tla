--------------------------- MODULE Services_proof --------------------------
(***************************************************************************)
(* Acceptor closes only descriptors of its own, for a descriptor table of  *)
(* any size and any number of peers.  In ThreadPool no worker sleeps       *)
(* beside a task and no caller beside room, and no task is begun twice,    *)
(* for any threads, tasks and size of the queue.                           *)
(***************************************************************************)
EXTENDS Services, FiniteSetTheorems, WellFoundedInduction, TLAPS

-----------------------------------------------------------------------------
(* Acceptor.                                                                *)

HandlePlaces ==
    {"silent", "poll", "accept", "closeIdle", "acceptIdle", "closeAccepted", "openIdle", "gone"}

AcceptTypeOK ==
    /\ table \in [Accept!Fds -> {"free", "idle", "other"}]
    /\ idleFd_ \in Accept!Fds \cup {Accept!NoFd}
    /\ handling \in HandlePlaces
    /\ stolen \in BOOLEAN

(* idleFd_ is the spare descriptor except between close(2) and the next     *)
(* assignment, when its number may be another thread's.                     *)
SpareFdInv ==
    IF handling \in {"acceptIdle", "openIdle", "gone"}
    THEN \A fd \in Accept!Fds : table[fd] # "idle"
    ELSE \A fd \in Accept!Fds : table[fd] = "idle" <=> fd = idleFd_

(* Unless one was stolen there is a spare descriptor or a free one.         *)
SpareInv ==
    \/ stolen \/ handling = "gone"
    \/ /\ handling \in {"silent", "poll", "accept", "closeIdle", "closeAccepted"}
       /\ idleFd_ # Accept!NoFd
    \/ /\ handling \in {"acceptIdle", "closeAccepted", "openIdle"}
       /\ Accept!Free # {}

AcceptIInv == AcceptTypeOK /\ SpareFdInv /\ SpareInv

-----------------------------------------------------------------------------
(* A set of descriptors that is not empty has a lowest one.                 *)
LEMMA LowestIsFree == ASSUME Accept!Free # {} PROVE Accept!Lowest \in Accept!Free
<1> DEFINE Less == OpToRel(<, Nat)
<1>1. Accept!Free \subseteq Nat
  BY DEF Accept!Free, Accept!Fds
<1>2. PICK x \in Accept!Free : \A y \in Accept!Free : ~(<<y, x>> \in Less)
  BY <1>1, NatLessThanWellFounded, WFMin, Zenon
<1>3. \A y \in Accept!Free : x <= y
  <2> SUFFICES ASSUME NEW y \in Accept!Free PROVE x <= y
    BY Zenon
  <2>1. x \in Nat /\ y \in Nat
    BY <1>1, Zenon
  <2>2. ~(y < x)
    BY <1>2, <2>1, Zenon DEF OpToRel
  <2> QED
    BY <2>1, <2>2
<1> QED
  BY <1>2, <1>3, Zenon DEF Accept!Lowest

(* The constructor opens the spare descriptor.                              *)
LEMMA AcceptInitInv == ASSUME MaxFd \in Nat PROVE Accept!Init => AcceptIInv
<1> SUFFICES ASSUME Accept!Init PROVE AcceptIInv
  BY Zenon
<1>1. 0 \in Accept!Fds /\ Accept!NoFd # 0
  BY DEF Accept!Fds, Accept!NoFd
<1>2. AcceptTypeOK
  BY <1>1, Zenon DEF Accept!Init, AcceptTypeOK, HandlePlaces
<1>3. SpareFdInv
  BY <1>1, Zenon DEF Accept!Init, SpareFdInv
<1>4. SpareInv
  BY <1>1, Zenon DEF Accept!Init, SpareInv
<1> QED
  BY <1>2, <1>3, <1>4, Zenon DEF AcceptIInv

(* Every step of handleRead() and of the other threads keeps IInv.          *)
LEMMA AcceptNextInv == ASSUME MaxFd \in Nat, AcceptIInv, [Accept!Next]_Accept!vars PROVE AcceptIInv'
<1> USE DEF AcceptIInv, AcceptTypeOK, SpareFdInv, SpareInv, HandlePlaces, Accept!Free
<1>0. Accept!NoFd \notin Accept!Fds
  BY DEF Accept!NoFd, Accept!Fds
<1>1. Accept!Free # {} => Accept!Lowest \in Accept!Fds /\ table[Accept!Lowest] = "free"
  BY LowestIsFree, Zenon
<1>2. Accept!Free = {} => Accept!Lowest = Accept!NoFd
  BY Zenon DEF Accept!Lowest
<1>3. CASE Accept!Arrives
  BY <1>3, Zenon DEF Accept!Arrives
<1>4. CASE Accept!Withdraws
  BY <1>4, Zenon DEF Accept!Withdraws
<1>5. CASE Accept!OthersOpen
  BY <1>0, <1>1, <1>5, Zenon DEF Accept!OthersOpen, Accept!Exposed
<1>6. ASSUME NEW fd \in Accept!Fds, Accept!OthersClose(fd) PROVE AcceptIInv'
  BY <1>0, <1>6, Zenon DEF Accept!OthersClose, Accept!Close
<1>7. CASE Accept!listen
  BY <1>7, Zenon DEF Accept!listen
<1>8. CASE Accept!Poll
  BY <1>8, Zenon DEF Accept!Poll
<1>9. CASE Accept!Accept
  BY <1>0, <1>1, <1>9, Zenon DEF Accept!Accept
<1>10. CASE Accept!CloseIdle
  BY <1>0, <1>10, Zenon DEF Accept!CloseIdle, Accept!Close
<1>11. CASE Accept!AcceptIdle
  BY <1>0, <1>1, <1>11, Zenon DEF Accept!AcceptIdle
<1>12. CASE Accept!CloseAccepted
  BY <1>0, <1>12, Zenon DEF Accept!CloseAccepted, Accept!Close
<1>13. CASE Accept!OpenIdle
  BY <1>0, <1>1, <1>2, <1>13, Zenon DEF Accept!OpenIdle
<1>14. CASE Accept!Destroy
  BY <1>0, <1>14, Zenon DEF Accept!Destroy, Accept!Close
<1>15. CASE UNCHANGED Accept!vars
  BY <1>15, Zenon DEF Accept!vars
<1> QED
  BY <1>3, <1>4, <1>5, <1>6, <1>7, <1>8, <1>9, <1>10, <1>11, <1>12, <1>13, <1>14, <1>15, Zenon
     DEF Accept!Next, Accept!HandleRead

(* IInv says more than SpareIsOwned: also where the spare descriptor is     *)
(* while handleRead() has given it up.                                      *)
LEMMA AcceptInvImplies == AcceptIInv => Accept!SpareIsOwned
BY DEF AcceptIInv, AcceptTypeOK, SpareFdInv, SpareInv, Accept!SpareIsOwned, Accept!NoFd,
   Accept!Fds

(* Whatever other threads open and close between the system calls of        *)
(* Acceptor::handleRead(), it closes only its own descriptors, leaks none,  *)
(* and keeps a spare one unless another thread takes it.                    *)
THEOREM SpareOwned == Accept!Spec => []SpareIsOwned
<1>0. MaxFd \in Nat
  BY FdAssumption, Zenon
<1>1. Accept!Init => AcceptIInv
  BY <1>0, AcceptInitInv, Zenon
<1>2. AcceptIInv /\ [Accept!Next]_Accept!vars => AcceptIInv'
  BY <1>0, AcceptNextInv, Zenon
<1>3. AcceptIInv => SpareIsOwned
  BY AcceptInvImplies, Zenon DEF SpareIsOwned
<1> QED
  BY <1>1, <1>2, <1>3, PTL DEF Accept!Spec

-----------------------------------------------------------------------------
(* ThreadPool.                                                              *)

PoolPlaces == {"none", "free", "created", "loop", "take", "run", "wait", "body", "ended"}

PoolTypeOK ==
    /\ numThreads \in Nat /\ maxQueueSize_ \in Nat
    /\ poolRunning \in BOOLEAN /\ queue_ \in Seq(PoolTasks)
    /\ notEmpty_ \subseteq Pool!PoolThreads /\ notFull_ \subseteq Pool!PoolThreads
    /\ threads_ \subseteq Workers
    /\ poolAt \in [Pool!PoolThreads -> PoolPlaces]
    /\ doing \in [Pool!PoolThreads -> PoolTasks \cup {NoTask}]
    /\ given \subseteq PoolTasks /\ begun \in Seq(PoolTasks)

(* A thread passes a task to run(), also while it waits for room.           *)
Passing(th) == poolAt[th] = "run" \/ (poolAt[th] = "wait" /\ doing[th] # NoTask)

(* What the wait sets and the places of the threads say of each other.      *)
WaitInv ==
    /\ \A th \in notEmpty_ : poolAt[th] = "wait" /\ doing[th] = NoTask
    /\ \A th \in notFull_ : poolAt[th] = "wait" /\ doing[th] # NoTask
    /\ poolRunning = FALSE => notEmpty_ = {} /\ notFull_ = {}
    /\ \A th \in Pool!PoolThreads :
          /\ poolAt[th] \in {"run", "body"} => doing[th] # NoTask
          /\ poolAt[th] \notin {"run", "wait", "body"} => doing[th] = NoTask
    /\ \A w \in Workers : w \notin threads_ => poolAt[w] = "none"

(* Without threads the queue is not used.                                   *)
InlineInv == threads_ = {} => queue_ = <<>> /\ notFull_ = {}

(* The tasks begun and queued, in that order.                               *)
Accepted == begun \o queue_

(* A task is in one place: being passed to run(), or accepted, once.        *)
TaskInv ==
    /\ \A i \in DOMAIN Accepted : Accepted[i] \in given
    /\ \A i, j \in DOMAIN Accepted : Accepted[i] = Accepted[j] => i = j
    /\ \A th \in Pool!PoolThreads : Passing(th) =>
          doing[th] \in given /\ \A i \in DOMAIN Accepted : Accepted[i] # doing[th]
    /\ \A th, u \in Pool!PoolThreads :
          Passing(th) /\ Passing(u) /\ doing[th] = doing[u] => th = u

QueueInv == maxQueueSize_ > 0 => Len(queue_) <= maxQueueSize_

(* Who will look at the queue for a task, or for room, before it sleeps.    *)
SeekWork ==
    {th \in Pool!PoolThreads :
        \/ poolAt[th] \in {"loop", "take"}
        \/ poolAt[th] = "wait" /\ doing[th] = NoTask /\ th \notin notEmpty_}
SeekRoom ==
    {th \in Pool!PoolThreads :
        \/ poolAt[th] = "run"
        \/ poolAt[th] = "wait" /\ doing[th] # NoTask /\ th \notin notFull_}

SleepInv ==
    /\ notEmpty_ # {} => Len(queue_) <= Cardinality(SeekWork)
    /\ notFull_ # {} => maxQueueSize_ <= Len(queue_) + Cardinality(SeekRoom)

PoolIInv == PoolTypeOK /\ WaitInv /\ InlineInv /\ TaskInv /\ QueueInv /\ SleepInv

-----------------------------------------------------------------------------
(* How many threads seek something before and after a step.                 *)
LEMMA SeekersFinite ==
    /\ IsFiniteSet(SeekWork) /\ IsFiniteSet(SeekRoom)
    /\ IsFiniteSet(SeekWork') /\ IsFiniteSet(SeekRoom')
<1>1. IsFiniteSet(Pool!PoolThreads)
  BY PoolAssumption, Zenon DEF Pool!PoolThreads
<1> QED
  BY <1>1, FS_Subset, Zenon DEF SeekWork, SeekRoom

(* A seeker that stops seeking lowers the number by one, at most.           *)
LEMMA OneLess ==
    ASSUME NEW A, NEW B, NEW x, IsFiniteSet(A), IsFiniteSet(B), A \ {x} \subseteq B
    PROVE  Cardinality(A) \in Nat /\ Cardinality(B) \in Nat /\ Cardinality(A) - 1 <= Cardinality(B)
<1>1. Cardinality(A) \in Nat /\ Cardinality(B) \in Nat
  BY FS_CardinalityType, Zenon
<1>2. IsFiniteSet(A \ {x}) /\ Cardinality(A \ {x}) <= Cardinality(B)
  BY FS_Subset, Zenon
<1>3. Cardinality(A \ {x}) \in {Cardinality(A), Cardinality(A) - 1}
  BY FS_RemoveElement, Zenon
<1> QED
  BY <1>1, <1>2, <1>3

(* Seekers that go on seeking.                                              *)
LEMMA NoneLess ==
    ASSUME NEW A, NEW B, IsFiniteSet(A), IsFiniteSet(B), A \subseteq B
    PROVE  Cardinality(A) \in Nat /\ Cardinality(B) \in Nat /\ Cardinality(A) <= Cardinality(B)
  BY FS_CardinalityType, FS_Subset, Zenon

(* A thread that begins to seek raises the number.                          *)
LEMMA OneMore ==
    ASSUME NEW A, NEW B, NEW x, IsFiniteSet(A), IsFiniteSet(B), A \cup {x} \subseteq B, x \notin A
    PROVE  Cardinality(A) \in Nat /\ Cardinality(B) \in Nat /\ Cardinality(A) + 1 <= Cardinality(B)
<1>1. IsFiniteSet(A \cup {x}) /\ Cardinality(A \cup {x}) = Cardinality(A) + 1
  BY FS_AddElement, Zenon
<1> QED
  BY <1>1, FS_CardinalityType, FS_Subset, Zenon

(* One more task at the end keeps a sequence free of repetitions.           *)
LEMMA AppendDistinct ==
    ASSUME NEW S, NEW s \in Seq(S), NEW x \in S,
           \A i, j \in DOMAIN s : s[i] = s[j] => i = j,
           \A i \in DOMAIN s : s[i] # x
    PROVE  /\ \A i, j \in DOMAIN Append(s, x) : Append(s, x)[i] = Append(s, x)[j] => i = j
           /\ \A i \in DOMAIN Append(s, x) : Append(s, x)[i] \in {s[j] : j \in DOMAIN s} \cup {x}
  OBVIOUS

(* run() appends to what is accepted; take() moves its first task.          *)
LEMMA Moves ==
    ASSUME NEW S, NEW s \in Seq(S), NEW q \in Seq(S), NEW x \in S
    PROVE  /\ s \o q \in Seq(S)
           /\ s \o Append(q, x) = Append(s \o q, x)
           /\ q = <<>> => Append(s, x) \o q = Append(s \o q, x)
           /\ q # <<>> => Append(s, Head(q)) \o Tail(q) = s \o q
           /\ q # <<>> => Tail(q) \in Seq(S) /\ Len(Tail(q)) = Len(q) - 1 /\ Head(q) \in S
<1>1. s \o q \in Seq(S) /\ s \o Append(q, x) = Append(s \o q, x)
  OBVIOUS
<1>2. ASSUME q = <<>> PROVE Append(s, x) \o q = Append(s \o q, x)
  <2>1. s \o q = s /\ Append(s, x) \o q = Append(s, x)
    BY <1>2
  <2> QED
    BY <2>1, Zenon
<1>3. ASSUME q # <<>>
      PROVE  Tail(q) \in Seq(S) /\ Len(Tail(q)) = Len(q) - 1 /\ Head(q) \in S
  BY <1>3
<1>4. ASSUME q # <<>> PROVE Append(s, Head(q)) \o Tail(q) = s \o q
  BY <1>3, <1>4, SMTT(30)
<1> QED
  BY <1>1, <1>2, <1>3, <1>4, Zenon

-----------------------------------------------------------------------------
(* A step after which the same tasks are accepted and nobody new passes one *)
(* to run().                                                                *)
LEMMA SameTasks ==
    ASSUME TaskInv, Accepted' = Accepted, given' = given,
           \A th \in Pool!PoolThreads : Passing(th)' => Passing(th) /\ doing'[th] = doing[th]
    PROVE  TaskInv'
  BY Zenon DEF TaskInv

(* A step that leaves the queue alone, puts nobody to sleep and lets no     *)
(* seeker give up.                                                          *)
LEMMA SameSeekers ==
    ASSUME PoolTypeOK, SleepInv, queue_' = queue_, maxQueueSize_' = maxQueueSize_,
           notEmpty_' \subseteq notEmpty_, notFull_' \subseteq notFull_,
           notEmpty_' # {} => SeekWork \subseteq SeekWork',
           notFull_' # {} => SeekRoom \subseteq SeekRoom'
    PROVE  SleepInv'
<1>1. Len(queue_) \in Nat /\ maxQueueSize_ \in Nat
  BY DEF PoolTypeOK
<1>2. ASSUME notEmpty_' # {} PROVE Len(queue_') <= Cardinality(SeekWork')
  <2>1. Len(queue_) <= Cardinality(SeekWork)
    BY <1>2, Zenon DEF SleepInv
  <2> QED
    BY <1>1, <1>2, <2>1, SeekersFinite, NoneLess
<1>3. ASSUME notFull_' # {} PROVE maxQueueSize_' <= Len(queue_') + Cardinality(SeekRoom')
  <2>1. maxQueueSize_ <= Len(queue_) + Cardinality(SeekRoom)
    BY <1>3, Zenon DEF SleepInv
  <2>2. Cardinality(SeekRoom) \in Nat /\ Cardinality(SeekRoom') \in Nat
        /\ Cardinality(SeekRoom) <= Cardinality(SeekRoom')
    BY <1>3, SeekersFinite, NoneLess, Zenon
  <2> QED
    BY <1>1, <2>1, <2>2
<1> QED
  BY <1>2, <1>3, Zenon DEF SleepInv

-----------------------------------------------------------------------------
(* start(), stop() and the owner's waits.                                   *)
LEMMA OwnerKeeps ==
    ASSUME PoolIInv, \/ Pool!Start \/ Pool!Stop \/ Pool!Started \/ Pool!Joined
    PROVE  PoolIInv'
<1> USE DEF PoolIInv, Pool!Start, Pool!Stop, Pool!Started, Pool!Joined,
           Pool!setup, Pool!queue, Pool!conds, Pool!history
<1>1. /\ notEmpty_' \subseteq notEmpty_ /\ notFull_' \subseteq notFull_
      /\ UNCHANGED <<numThreads, maxQueueSize_, queue_, threads_, poolAt, doing, given, begun>>
      /\ poolRunning' \in BOOLEAN
      /\ poolRunning' = FALSE => notEmpty_' = {} /\ notFull_' = {}
  BY Zenon DEF PoolTypeOK, WaitInv
<1> HIDE DEF Pool!Start, Pool!Stop, Pool!Started, Pool!Joined
<1>2. PoolTypeOK'
  BY <1>1, Zenon DEF PoolTypeOK, Pool!PoolThreads
<1>3. WaitInv'
  BY <1>1, Zenon DEF WaitInv
<1>4. InlineInv' /\ QueueInv'
  BY <1>1, Zenon DEF InlineInv, QueueInv
<1>5. TaskInv'
  BY <1>1, SameTasks, Zenon DEF Accepted, Passing
<1>6. SleepInv'
  <2>1. SeekWork \subseteq SeekWork' /\ SeekRoom \subseteq SeekRoom'
    BY <1>1, Zenon DEF SeekWork, SeekRoom
  <2> QED
    BY <1>1, <2>1, SameSeekers, Zenon
<1> QED
  BY <1>2, <1>3, <1>4, <1>5, <1>6, Zenon

(* A thread changes its place, and perhaps drops its task, without touching *)
(* the queue, the wait sets or the history.                                 *)
LEMMA MoveKeeps ==
    ASSUME PoolIInv, NEW th \in Pool!PoolThreads, NEW place \in PoolPlaces, NEW t,
           poolAt' = [poolAt EXCEPT ![th] = place], doing' = [doing EXCEPT ![th] = t],
           t \in {doing[th], NoTask}, poolAt[th] # "wait", place # "wait",
           place \in {"run", "body"} => poolAt[th] = place /\ t # NoTask,
           place \notin {"run", "body"} => t = NoTask,
           poolAt[th] = "run" => place = "run" /\ t = doing[th],
           poolAt[th] \in {"loop", "take"} => place \in {"loop", "take"} \/ poolRunning = FALSE,
           threads_ \subseteq threads_', threads_' \subseteq Workers,
           th \in Workers => th \in threads_',
           \A w \in threads_' : w \in threads_ \/ w = th,
           UNCHANGED <<numThreads, maxQueueSize_, poolRunning, queue_, notEmpty_, notFull_,
                       given, begun>>
    PROVE  PoolIInv'
<1> USE DEF PoolIInv
<1>1. PoolTypeOK'
  BY Zenon DEF PoolTypeOK
<1>2. WaitInv'
  BY DEF WaitInv, PoolTypeOK
<1>3. InlineInv' /\ QueueInv'
  BY Zenon DEF InlineInv, QueueInv
<1>4. TaskInv'
  <2>1. \A u \in Pool!PoolThreads : Passing(u)' => Passing(u) /\ doing'[u] = doing[u]
    BY Zenon DEF Passing, PoolTypeOK
  <2> QED
    BY <2>1, SameTasks, Zenon DEF Accepted
<1>5. SleepInv'
  <2>1. notEmpty_' # {} => SeekWork \subseteq SeekWork'
    BY Zenon DEF SeekWork, PoolTypeOK, WaitInv
  <2>2. SeekRoom \subseteq SeekRoom'
    BY Zenon DEF SeekRoom, PoolTypeOK
  <2> QED
    BY <2>1, <2>2, SameSeekers, Zenon
<1> QED
  BY <1>1, <1>2, <1>3, <1>4, <1>5, Zenon

(* Thread::start() for each worker, its latch, and the test of running_.    *)
LEMMA WorkerKeeps ==
    ASSUME PoolIInv, NEW th \in Pool!PoolThreads,
           \/ th \in Workers /\ (Pool!StartThread(th) \/ Pool!CountDown(th))
           \/ Pool!TestRunning(th)
    PROVE  PoolIInv'
<1> USE DEF Pool!setup, Pool!queue, Pool!conds, Pool!owning, Pool!history, Pool!Goes
<1>1. \A u \in Pool!PoolThreads : poolAt[u] \notin {"run", "wait", "body"} => doing[u] = NoTask
  BY Zenon DEF PoolIInv, WaitInv
<1>2. doing \in [Pool!PoolThreads -> PoolTasks \cup {NoTask}] /\ threads_ \subseteq Workers
  BY Zenon DEF PoolIInv, PoolTypeOK
<1>3. \A w \in Workers : w \notin threads_ => poolAt[w] = "none"
  BY Zenon DEF PoolIInv, WaitInv
<1>4. CASE th \in Workers /\ Pool!StartThread(th)
  <2>1. poolAt[th] = "none" /\ threads_' = threads_ \cup {th}
    BY <1>3, <1>4, Zenon DEF Pool!StartThread
  <2>2. doing' = [doing EXCEPT ![th] = NoTask]
    BY <1>1, <1>2, <1>4, <2>1, Zenon DEF Pool!StartThread
  <2> QED
    BY <1>2, <1>4, <2>1, <2>2, MoveKeeps, Zenon DEF Pool!StartThread, PoolPlaces
<1>5. CASE th \in Workers /\ Pool!CountDown(th)
  <2>1. th \in threads_ /\ doing' = [doing EXCEPT ![th] = NoTask]
    BY <1>1, <1>2, <1>3, <1>5, Zenon DEF Pool!CountDown
  <2> QED
    BY <1>2, <1>5, <2>1, MoveKeeps, Zenon DEF Pool!CountDown, PoolPlaces
<1>6. CASE Pool!TestRunning(th)
  <2>1. /\ th \in Workers => th \in threads_
        /\ doing' = [doing EXCEPT ![th] = NoTask]
    BY <1>1, <1>2, <1>3, <1>6, Zenon DEF Pool!TestRunning
  <2>2. poolRunning \in BOOLEAN
    BY Zenon DEF PoolIInv, PoolTypeOK
  <2>3. CASE poolRunning = TRUE
    BY <1>2, <1>6, <2>1, <2>3, MoveKeeps, Zenon DEF Pool!TestRunning, PoolPlaces
  <2>4. CASE poolRunning = FALSE
    BY <1>2, <1>6, <2>1, <2>4, MoveKeeps, Zenon DEF Pool!TestRunning, PoolPlaces
  <2> QED
    BY <2>2, <2>3, <2>4, Zenon
<1> QED
  BY <1>4, <1>5, <1>6, Zenon

(* The body of a task, or a call of run(), passes a task on.                *)
LEMMA CallKeeps ==
    ASSUME PoolIInv, NEW th \in Pool!PoolThreads, NEW t \in PoolTasks, Pool!CallRun(th, t),
           poolAt[th] \in {"free", "body"}
    PROVE  PoolIInv'
<1> USE DEF PoolIInv
<1>1. /\ t \notin given /\ given' = given \cup {t}
      /\ doing' = [doing EXCEPT ![th] = t] /\ poolAt' = [poolAt EXCEPT ![th] = "run"]
      /\ UNCHANGED <<numThreads, maxQueueSize_, poolRunning, queue_, notEmpty_, notFull_,
                     threads_, begun>>
  BY Zenon DEF Pool!CallRun, Pool!Does, Pool!Goes, Pool!setup, Pool!queue, Pool!conds,
     Pool!owning
<1>2. t # NoTask
  BY PoolAssumption, Zenon DEF Pool!TasksAssumption
<1>3. PoolTypeOK'
  BY <1>1, Zenon DEF PoolTypeOK, PoolPlaces
<1>4. WaitInv'
  BY <1>1, <1>2 DEF WaitInv, PoolTypeOK
<1>5. InlineInv' /\ QueueInv'
  BY <1>1, Zenon DEF InlineInv, QueueInv
<1>6. TaskInv'
  <2>1. Accepted' = Accepted
    BY <1>1, Zenon DEF Accepted
  <2>2. \A i \in DOMAIN Accepted : Accepted[i] # t
    BY <1>1, Zenon DEF TaskInv
  <2>3. \A u \in Pool!PoolThreads : u # th => (Passing(u)' <=> Passing(u)) /\ doing'[u] = doing[u]
    BY <1>1, Zenon DEF Passing, PoolTypeOK
  <2>4. \A u \in Pool!PoolThreads : Passing(u) => doing[u] # t
    BY <1>1, Zenon DEF TaskInv
  <2>5. doing'[th] = t
    BY <1>1, Zenon DEF PoolTypeOK
  <2> QED
    BY <1>1, <2>1, <2>2, <2>3, <2>4, <2>5 DEF TaskInv
<1>7. SleepInv'
  <2>1. SeekWork \subseteq SeekWork' /\ SeekRoom \subseteq SeekRoom'
    BY <1>1, Zenon DEF SeekWork, SeekRoom, PoolTypeOK
  <2> QED
    BY <1>1, <2>1, SameSeekers, Zenon
<1> QED
  BY <1>3, <1>4, <1>5, <1>6, <1>7, Zenon

(* The body of a task ends or calls run().                                  *)
LEMMA BodyKeeps == ASSUME PoolIInv, NEW th \in Pool!PoolThreads, Pool!Body(th) PROVE PoolIInv'
<1> DEFINE child == Child[doing[th]]
<1>1. poolAt[th] = "body" /\ doing[th] \in PoolTasks /\ child \in PoolTasks \cup {NoTask}
  BY PoolAssumption, Zenon DEF Pool!Body, PoolIInv, WaitInv, PoolTypeOK, Pool!TasksAssumption
<1>2. CASE child # NoTask /\ Pool!CallRun(th, child)
  BY <1>1, <1>2, CallKeeps, Zenon
<1>3. CASE Pool!Returns(th) /\ UNCHANGED <<Pool!setup, Pool!queue, Pool!conds, Pool!owning, Pool!history>>
  <2>1. th \in Workers => th \in threads_
    BY <1>1, Zenon DEF PoolIInv, WaitInv
  <2>2. threads_ \subseteq Workers
    BY Zenon DEF PoolIInv, PoolTypeOK
  <2> QED
    BY <1>1, <1>3, <2>1, <2>2, MoveKeeps, Zenon
       DEF Pool!Returns, Pool!Does, Pool!Goes, Pool!setup, Pool!queue, Pool!conds, Pool!owning,
           Pool!history, PoolPlaces
<1> QED
  BY <1>2, <1>3, Zenon DEF Pool!Body

-----------------------------------------------------------------------------
(* A waiter that goes back to its condition still seeks what it waited for. *)
LEMMA WakeKeeps == ASSUME PoolIInv, NEW th \in Pool!PoolThreads, Pool!Wake(th) PROVE PoolIInv'
<1> USE DEF PoolIInv
<1>1. /\ poolAt[th] = "wait"
      /\ poolAt' = [poolAt EXCEPT ![th] = IF doing[th] = NoTask THEN "take" ELSE "run"]
      /\ notEmpty_' = notEmpty_ \ {th} /\ notFull_' = notFull_ \ {th}
      /\ UNCHANGED <<numThreads, maxQueueSize_, poolRunning, queue_, threads_, doing, given, begun>>
  BY Zenon DEF Pool!Wake, Pool!Goes, Pool!setup, Pool!queue, Pool!owning, Pool!history
<1>2. PoolTypeOK'
  BY <1>1, Zenon DEF PoolTypeOK, PoolPlaces
<1>3. WaitInv'
  BY <1>1 DEF WaitInv, PoolTypeOK
<1>4. InlineInv' /\ QueueInv'
  BY <1>1, Zenon DEF InlineInv, QueueInv
<1>5. TaskInv'
  <2>1. \A u \in Pool!PoolThreads : Passing(u)' => Passing(u) /\ doing'[u] = doing[u]
    BY <1>1, Zenon DEF Passing, PoolTypeOK
  <2> QED
    BY <1>1, <2>1, SameTasks, Zenon DEF Accepted
<1>6. SleepInv'
  <2>1. SeekWork \subseteq SeekWork' /\ SeekRoom \subseteq SeekRoom'
    BY <1>1, Zenon DEF SeekWork, SeekRoom, PoolTypeOK
  <2> QED
    BY <1>1, <2>1, SameSeekers, Zenon
<1> QED
  BY <1>2, <1>3, <1>4, <1>5, <1>6, Zenon

(* A pool without threads: run() begins the task itself.                    *)
LEMMA InlineKeeps ==
    ASSUME PoolIInv, NEW th \in Pool!PoolThreads, Pool!RunInline(th) PROVE PoolIInv'
<1> USE DEF PoolIInv
<1>1. /\ poolAt[th] = "run" /\ threads_ = {}
      /\ begun' = Append(begun, doing[th])
      /\ poolAt' = [poolAt EXCEPT ![th] = "body"]
      /\ UNCHANGED <<numThreads, maxQueueSize_, poolRunning, queue_, notEmpty_, notFull_,
                     threads_, doing, given>>
  BY Zenon DEF Pool!RunInline, Pool!Goes, Pool!setup, Pool!queue, Pool!conds, Pool!owning
<1>2. doing[th] \in PoolTasks /\ queue_ = <<>> /\ notFull_ = {}
  BY <1>1, Zenon DEF WaitInv, PoolTypeOK, InlineInv
<1>3. PoolTypeOK'
  BY <1>1, <1>2 DEF PoolTypeOK, PoolPlaces
<1>4. WaitInv'
  BY <1>1 DEF WaitInv, PoolTypeOK
<1>5. InlineInv' /\ QueueInv'
  BY <1>1, Zenon DEF InlineInv, QueueInv
<1>6. TaskInv'
  <2>1. Accepted \in Seq(PoolTasks) /\ Accepted' = Append(Accepted, doing[th])
    BY <1>1, <1>2, Moves DEF Accepted, PoolTypeOK
  <2>2. Passing(th) /\ doing[th] \in given /\ \A i \in DOMAIN Accepted : Accepted[i] # doing[th]
    BY <1>1, Zenon DEF TaskInv, Passing
  <2>3. \A u \in Pool!PoolThreads : Passing(u)' => u # th /\ Passing(u)
    BY <1>1, Zenon DEF Passing, PoolTypeOK
  <2>4. /\ \A i, j \in DOMAIN Accepted' : Accepted'[i] = Accepted'[j] => i = j
        /\ \A i \in DOMAIN Accepted' : Accepted'[i] \in {Accepted[j] : j \in DOMAIN Accepted} \cup {doing[th]}
    BY <1>2, <2>1, <2>2, AppendDistinct DEF TaskInv
  <2>5. \A i \in DOMAIN Accepted' : Accepted'[i] \in given
    BY <2>2, <2>4, Zenon DEF TaskInv
  <2>6. ASSUME NEW u \in Pool!PoolThreads, Passing(u)'
        PROVE  doing[u] \in given /\ \A i \in DOMAIN Accepted' : Accepted'[i] # doing[u]
    <3>1. u # th /\ Passing(u)
      BY <2>3, <2>6, Zenon
    <3>2. doing[u] # doing[th] /\ doing[u] \in given /\ \A i \in DOMAIN Accepted : Accepted[i] # doing[u]
      BY <2>2, <3>1, Zenon DEF TaskInv
    <3> QED
      BY <2>4, <3>2, Zenon
  <2> QED
    BY <1>1, <2>3, <2>4, <2>5, <2>6, Zenon DEF TaskInv
<1>7. SleepInv'
  <2>1. SeekWork \subseteq SeekWork'
    BY <1>1, Zenon DEF SeekWork, PoolTypeOK
  <2> QED
    BY <1>1, <1>2, <2>1, SameSeekers, Zenon
<1> QED
  BY <1>3, <1>4, <1>5, <1>6, <1>7, Zenon

(* run() waits for room.                                                    *)
LEMMA RunWaitsKeeps ==
    ASSUME PoolIInv, NEW th \in Pool!PoolThreads, Pool!RunWaits(th) PROVE PoolIInv'
<1> USE DEF PoolIInv
<1>1. /\ poolAt[th] = "run" /\ threads_ # {} /\ poolRunning
      /\ maxQueueSize_ > 0 /\ Len(queue_) >= maxQueueSize_
      /\ notFull_' = notFull_ \cup {th} /\ poolAt' = [poolAt EXCEPT ![th] = "wait"]
      /\ UNCHANGED <<numThreads, maxQueueSize_, poolRunning, queue_, notEmpty_, threads_,
                     doing, given, begun>>
  BY Zenon DEF Pool!RunWaits, Pool!isFull, Pool!Goes, Pool!setup, Pool!queue, Pool!owning,
     Pool!history
<1>2. PoolTypeOK'
  BY <1>1, Zenon DEF PoolTypeOK, PoolPlaces
<1>3. WaitInv'
  BY <1>1 DEF WaitInv, PoolTypeOK
<1>4. InlineInv' /\ QueueInv'
  BY <1>1, Zenon DEF InlineInv, QueueInv
<1>5. TaskInv'
  <2>1. \A u \in Pool!PoolThreads : Passing(u)' => Passing(u) /\ doing'[u] = doing[u]
    BY <1>1, Zenon DEF Passing, PoolTypeOK
  <2> QED
    BY <1>1, <2>1, SameTasks, Zenon DEF Accepted
<1>6. SleepInv'
  <2>1. SeekWork \subseteq SeekWork'
    BY <1>1, Zenon DEF SeekWork, PoolTypeOK
  <2>2. Len(queue_) \in Nat /\ maxQueueSize_ \in Nat
    BY DEF PoolTypeOK
  <2>3. Cardinality(SeekWork) <= Cardinality(SeekWork') /\ Cardinality(SeekWork) \in Nat
        /\ Cardinality(SeekWork') \in Nat /\ Cardinality(SeekRoom') \in Nat
    BY <2>1, SeekersFinite, NoneLess, Zenon
  <2> QED
    BY <1>1, <2>2, <2>3 DEF SleepInv
<1> QED
  BY <1>2, <1>3, <1>4, <1>5, <1>6, Zenon

(* take() waits for a task.                                                 *)
LEMMA TakeWaitsKeeps ==
    ASSUME PoolIInv, NEW th \in Pool!PoolThreads, Pool!TakeWaits(th) PROVE PoolIInv'
<1> USE DEF PoolIInv
<1>1. /\ poolAt[th] = "take" /\ queue_ = <<>> /\ poolRunning
      /\ notEmpty_' = notEmpty_ \cup {th} /\ poolAt' = [poolAt EXCEPT ![th] = "wait"]
      /\ UNCHANGED <<numThreads, maxQueueSize_, poolRunning, queue_, notFull_, threads_,
                     doing, given, begun>>
  BY Zenon DEF Pool!TakeWaits, Pool!Goes, Pool!setup, Pool!queue, Pool!owning, Pool!history
<1>2. PoolTypeOK'
  BY <1>1, Zenon DEF PoolTypeOK, PoolPlaces
<1>3. WaitInv'
  BY <1>1 DEF WaitInv, PoolTypeOK
<1>4. InlineInv' /\ QueueInv'
  BY <1>1, Zenon DEF InlineInv, QueueInv
<1>5. TaskInv'
  <2>1. \A u \in Pool!PoolThreads : Passing(u)' => Passing(u) /\ doing'[u] = doing[u]
    BY <1>1, Zenon DEF Passing, PoolTypeOK, WaitInv
  <2> QED
    BY <1>1, <2>1, SameTasks, Zenon DEF Accepted
<1>6. SleepInv'
  <2>1. SeekRoom \subseteq SeekRoom'
    BY <1>1, Zenon DEF SeekRoom, PoolTypeOK
  <2>2. Len(queue_) = 0 /\ maxQueueSize_ \in Nat
    BY <1>1, Zenon DEF PoolTypeOK
  <2>3. Cardinality(SeekRoom) <= Cardinality(SeekRoom') /\ Cardinality(SeekRoom) \in Nat
        /\ Cardinality(SeekWork') \in Nat /\ Cardinality(SeekRoom') \in Nat
    BY <2>1, SeekersFinite, NoneLess, Zenon
  <2> QED
    BY <1>1, <2>2, <2>3 DEF SleepInv
<1> QED
  BY <1>2, <1>3, <1>4, <1>5, <1>6, Zenon

(* Condition::notify() leaves all waiters but one, if there is one.         *)
LEMMA NotifyOne ==
    ASSUME NEW waiters, NEW left \in Pool!Notify(waiters)
    PROVE  /\ left \subseteq waiters
           /\ left # {} => \E x \in waiters : left = waiters \ {x}
  BY Zenon DEF Pool!Notify

(* run() queues its task and wakes one worker, or finds the pool stopped.   *)
LEMMA PushKeeps ==
    ASSUME PoolIInv, NEW th \in Pool!PoolThreads, Pool!RunPushes(th) PROVE PoolIInv'
<1> USE DEF PoolIInv
<1>1. /\ poolAt[th] = "run" /\ threads_ # {}
      /\ doing' = [doing EXCEPT ![th] = NoTask]
      /\ poolAt' = [poolAt EXCEPT ![th] = IF th \in Workers THEN "loop" ELSE "free"]
      /\ UNCHANGED <<numThreads, maxQueueSize_, poolRunning, notFull_, threads_, given, begun>>
  BY Zenon DEF Pool!RunPushes, Pool!Returns, Pool!Does, Pool!Goes, Pool!setup, Pool!owning,
     Pool!history
<1>2. doing[th] \in PoolTasks /\ doing[th] # NoTask /\ Passing(th)
  BY <1>1, Zenon DEF WaitInv, PoolTypeOK, Passing
<1>3. poolRunning \in BOOLEAN /\ Len(queue_) \in Nat /\ maxQueueSize_ \in Nat
  BY DEF PoolTypeOK
<1>4. CASE poolRunning = TRUE
  <2>1. /\ ~Pool!isFull
        /\ queue_' = Append(queue_, doing[th]) /\ notEmpty_' \in Pool!Notify(notEmpty_)
    BY <1>4, Zenon DEF Pool!RunPushes
  <2>2. notEmpty_' \subseteq notEmpty_
        /\ (notEmpty_' # {} => \E x \in notEmpty_ : notEmpty_' = notEmpty_ \ {x})
    BY <2>1, NotifyOne
  <2>3. Len(queue_') = Len(queue_) + 1 /\ queue_' \in Seq(PoolTasks)
    BY <1>2, <2>1 DEF PoolTypeOK
  <2>4. PoolTypeOK'
    BY <1>1, <2>2, <2>3, Zenon DEF PoolTypeOK, PoolPlaces
  <2>5. WaitInv'
    BY <1>1, <1>4, <2>2 DEF WaitInv, PoolTypeOK
  <2>6. InlineInv' /\ QueueInv'
    BY <1>1, <1>3, <2>1, <2>3 DEF InlineInv, QueueInv, Pool!isFull
  <2>7. TaskInv'
    <3>1. Accepted \in Seq(PoolTasks) /\ Accepted' = Append(Accepted, doing[th])
      BY <1>1, <1>2, <2>1, Moves DEF Accepted, PoolTypeOK
    <3>2. doing[th] \in given /\ \A i \in DOMAIN Accepted : Accepted[i] # doing[th]
      BY <1>2, Zenon DEF TaskInv
    <3>3. \A u \in Pool!PoolThreads : Passing(u)' => u # th /\ Passing(u) /\ doing'[u] = doing[u]
      BY <1>1, Zenon DEF Passing, PoolTypeOK
    <3>4. /\ \A i, j \in DOMAIN Accepted' : Accepted'[i] = Accepted'[j] => i = j
          /\ \A i \in DOMAIN Accepted' :
                Accepted'[i] \in {Accepted[j] : j \in DOMAIN Accepted} \cup {doing[th]}
      BY <1>2, <3>1, <3>2, AppendDistinct DEF TaskInv
    <3>5. \A i \in DOMAIN Accepted' : Accepted'[i] \in given
      BY <3>2, <3>4, Zenon DEF TaskInv
    <3>6. ASSUME NEW u \in Pool!PoolThreads, Passing(u)'
          PROVE  doing'[u] \in given /\ \A i \in DOMAIN Accepted' : Accepted'[i] # doing'[u]
      <4>1. u # th /\ Passing(u) /\ doing'[u] = doing[u]
        BY <3>3, <3>6, Zenon
      <4>2. /\ doing[u] # doing[th] /\ doing[u] \in given
            /\ \A i \in DOMAIN Accepted : Accepted[i] # doing[u]
        BY <1>2, <4>1, Zenon DEF TaskInv
      <4> QED
        BY <3>4, <4>1, <4>2, Zenon
    <3> QED
      BY <1>1, <3>3, <3>4, <3>5, <3>6, Zenon DEF TaskInv
  <2>8. SleepInv'
    <3>1. ASSUME notEmpty_' # {} PROVE Len(queue_') <= Cardinality(SeekWork')
      <4>1. PICK x \in notEmpty_ : notEmpty_' = notEmpty_ \ {x}
        BY <2>2, <3>1, Zenon
      <4>2. x \notin SeekWork /\ x \in Pool!PoolThreads /\ x # th
        BY <1>1, <4>1, Zenon DEF SeekWork, WaitInv, PoolTypeOK
      <4>3. SeekWork \cup {x} \subseteq SeekWork'
        BY <1>1, <4>1, <4>2 DEF SeekWork, WaitInv, PoolTypeOK
      <4>4. Len(queue_) <= Cardinality(SeekWork)
        BY <4>1, Zenon DEF SleepInv
      <4>5. Cardinality(SeekWork) \in Nat /\ Cardinality(SeekWork') \in Nat
            /\ Cardinality(SeekWork) + 1 <= Cardinality(SeekWork')
        BY <4>2, <4>3, SeekersFinite, OneMore, Zenon
      <4> QED
        BY <1>3, <2>3, <4>4, <4>5
    <3>2. ASSUME notFull_' # {} PROVE maxQueueSize_' <= Len(queue_') + Cardinality(SeekRoom')
      <4>1. SeekRoom \ {th} \subseteq SeekRoom'
        BY <1>1, Zenon DEF SeekRoom, PoolTypeOK
      <4>2. maxQueueSize_ <= Len(queue_) + Cardinality(SeekRoom)
        BY <1>1, <3>2, Zenon DEF SleepInv
      <4>3. Cardinality(SeekRoom) \in Nat /\ Cardinality(SeekRoom') \in Nat
            /\ Cardinality(SeekRoom) - 1 <= Cardinality(SeekRoom')
        BY <4>1, SeekersFinite, OneLess, Zenon
      <4> QED
        BY <1>1, <1>3, <2>3, <4>2, <4>3
    <3> QED
      BY <3>1, <3>2, Zenon DEF SleepInv
  <2> QED
    BY <2>4, <2>5, <2>6, <2>7, <2>8, Zenon
<1>5. CASE poolRunning = FALSE
  <2>1. UNCHANGED <<queue_, notEmpty_>> /\ notEmpty_ = {} /\ notFull_ = {}
    BY <1>5, Zenon DEF Pool!RunPushes, WaitInv
  <2>2. PoolTypeOK'
    BY <1>1, <2>1, Zenon DEF PoolTypeOK, PoolPlaces
  <2>3. WaitInv'
    BY <1>1, <2>1 DEF WaitInv, PoolTypeOK
  <2>4. InlineInv' /\ QueueInv' /\ SleepInv'
    BY <1>1, <2>1, Zenon DEF InlineInv, QueueInv, SleepInv
  <2>5. TaskInv'
    <3>1. \A u \in Pool!PoolThreads : Passing(u)' => Passing(u) /\ doing'[u] = doing[u]
      BY <1>1, Zenon DEF Passing, PoolTypeOK
    <3> QED
      BY <1>1, <2>1, <3>1, SameTasks, Zenon DEF Accepted
  <2> QED
    BY <2>2, <2>3, <2>4, <2>5, Zenon
<1> QED
  BY <1>3, <1>4, <1>5, Zenon

(* take() hands out the first task and wakes one thread that waits for room. *)
LEMMA TakeKeeps ==
    ASSUME PoolIInv, NEW th \in Pool!PoolThreads, Pool!TakeReturns(th) PROVE PoolIInv'
<1>1. poolAt[th] = "take" /\ ~(queue_ = <<>> /\ poolRunning)
  BY Zenon DEF Pool!TakeReturns
<1>2. CASE queue_ = <<>>
  <2>1. /\ poolAt' = [poolAt EXCEPT ![th] = "loop"] /\ doing' = doing
        /\ UNCHANGED <<numThreads, maxQueueSize_, poolRunning, queue_, notEmpty_, notFull_, threads_,
                       given, begun>>
    BY <1>2, Zenon DEF Pool!TakeReturns, Pool!Goes, Pool!setup, Pool!owning
  <2>2. /\ doing' = [doing EXCEPT ![th] = NoTask] /\ threads_ \subseteq Workers
        /\ th \in Workers => th \in threads_
    BY <1>1, <2>1, Zenon DEF PoolIInv, WaitInv, PoolTypeOK
  <2> QED
    BY <1>1, <2>1, <2>2, MoveKeeps, Zenon DEF PoolPlaces
<1>3. CASE queue_ # <<>>
  <2> USE DEF PoolIInv
  <2>1. /\ queue_' = Tail(queue_) /\ begun' = Append(begun, Head(queue_))
        /\ doing' = [doing EXCEPT ![th] = Head(queue_)]
        /\ poolAt' = [poolAt EXCEPT ![th] = "body"]
        /\ IF maxQueueSize_ > 0 THEN notFull_' \in Pool!Notify(notFull_) ELSE UNCHANGED notFull_
        /\ UNCHANGED <<numThreads, maxQueueSize_, poolRunning, notEmpty_, threads_, given>>
    BY <1>3, Zenon DEF Pool!TakeReturns, Pool!Does, Pool!Goes, Pool!setup, Pool!owning
  <2>2. /\ Len(queue_) \in Nat /\ maxQueueSize_ \in Nat /\ Head(queue_) \in PoolTasks
        /\ Tail(queue_) \in Seq(PoolTasks) /\ Len(Tail(queue_)) = Len(queue_) - 1
    BY <1>3, Moves DEF PoolTypeOK
  <2>3. notFull_' \subseteq notFull_
        /\ (maxQueueSize_ > 0 /\ notFull_' # {} => \E x \in notFull_ : notFull_' = notFull_ \ {x})
    BY <2>1, NotifyOne
  <2>4. Head(queue_) # NoTask
    BY <2>2, PoolAssumption, Zenon DEF Pool!TasksAssumption
  <2>5. PoolTypeOK'
    BY <2>1, <2>2, <2>3 DEF PoolTypeOK, PoolPlaces
  <2>6. WaitInv'
    BY <1>1, <2>1, <2>3, <2>4 DEF WaitInv, PoolTypeOK
  <2>7. InlineInv' /\ QueueInv'
    BY <1>3, <2>1, <2>2, <2>3 DEF InlineInv, QueueInv
  <2>8. TaskInv'
    <3>1. Accepted' = Accepted
      BY <1>3, <2>1, <2>2, Moves DEF Accepted, PoolTypeOK
    <3>2. \A u \in Pool!PoolThreads : Passing(u)' => Passing(u) /\ doing'[u] = doing[u]
      BY <2>1, Zenon DEF Passing, PoolTypeOK
    <3> QED
      BY <2>1, <3>1, <3>2, SameTasks, Zenon
  <2>9. SleepInv'
    <3>1. ASSUME notEmpty_' # {} PROVE Len(queue_') <= Cardinality(SeekWork')
      <4>1. SeekWork \ {th} \subseteq SeekWork'
        BY <2>1, Zenon DEF SeekWork, PoolTypeOK
      <4>2. Len(queue_) <= Cardinality(SeekWork)
        BY <2>1, <3>1, Zenon DEF SleepInv
      <4>3. Cardinality(SeekWork) \in Nat /\ Cardinality(SeekWork') \in Nat
            /\ Cardinality(SeekWork) - 1 <= Cardinality(SeekWork')
        BY <4>1, SeekersFinite, OneLess, Zenon
      <4> QED
        BY <2>1, <2>2, <4>2, <4>3
    <3>2. ASSUME notFull_' # {} PROVE maxQueueSize_' <= Len(queue_') + Cardinality(SeekRoom')
      <4>1. CASE maxQueueSize_ = 0
        BY <2>1, <2>2, <4>1, SeekersFinite, FS_CardinalityType, SMTT(30)
      <4>2. CASE maxQueueSize_ > 0
        <5>1. PICK x \in notFull_ : notFull_' = notFull_ \ {x}
          BY <2>3, <3>2, <4>2, Zenon
        <5>2. x \notin SeekRoom /\ x \in Pool!PoolThreads /\ x # th
          BY <1>1, <5>1, Zenon DEF SeekRoom, WaitInv, PoolTypeOK
        <5>3. SeekRoom \cup {x} \subseteq SeekRoom'
          BY <1>1, <2>1, <5>1, <5>2 DEF SeekRoom, WaitInv, PoolTypeOK
        <5>4. maxQueueSize_ <= Len(queue_) + Cardinality(SeekRoom)
          BY <5>1, Zenon DEF SleepInv
        <5>5. Cardinality(SeekRoom) \in Nat /\ Cardinality(SeekRoom') \in Nat
              /\ Cardinality(SeekRoom) + 1 <= Cardinality(SeekRoom')
          BY <5>2, <5>3, SeekersFinite, OneMore, Zenon
        <5> QED
          BY <2>1, <2>2, <5>4, <5>5
      <4> QED
        BY <2>2, <4>1, <4>2
    <3> QED
      BY <3>1, <3>2, Zenon DEF SleepInv
  <2> QED
    BY <2>5, <2>6, <2>7, <2>8, <2>9, Zenon
<1> QED
  BY <1>2, <1>3, Zenon

-----------------------------------------------------------------------------
(* Every step of the pool keeps PoolIInv.                                   *)
LEMMA PoolNextInv == ASSUME PoolIInv, [Pool!Next]_Pool!vars PROVE PoolIInv'
<1>1. \A w \in Workers : w \in Pool!PoolThreads
  BY Zenon DEF Pool!PoolThreads
<1>2. ASSUME NEW th \in Callers, NEW t \in PoolTasks, Pool!CallerCalls(th, t) PROVE PoolIInv'
  BY <1>2, CallKeeps, Zenon DEF Pool!CallerCalls, Pool!PoolThreads
<1>3. ASSUME NEW th \in Pool!PoolThreads, Pool!Proceed(th) PROVE PoolIInv'
  BY <1>3, InlineKeeps, RunWaitsKeeps, PushKeeps, WorkerKeeps, TakeWaitsKeeps, TakeKeeps,
     BodyKeeps, WakeKeeps, ZenonT(40) DEF Pool!Proceed
<1>4. CASE UNCHANGED Pool!vars
  <2>1. UNCHANGED <<numThreads, maxQueueSize_, poolRunning, queue_, notEmpty_, notFull_,
                    threads_, poolAt, doing, given, begun>>
    BY <1>4, Zenon DEF Pool!vars, Pool!setup, Pool!queue, Pool!conds, Pool!owning, Pool!history
  <2> QED
    BY <2>1, ZenonT(40) DEF PoolIInv, PoolTypeOK, WaitInv, InlineInv, TaskInv, QueueInv,
       SleepInv,
                Accepted, Passing, SeekWork, SeekRoom
<1> QED
  BY <1>1, <1>2, <1>3, <1>4, OwnerKeeps, WorkerKeeps, WakeKeeps, Zenon DEF Pool!Next,
     Pool!OwnerProceeds

(* A pool that has just been made satisfies PoolIInv.                       *)
LEMMA PoolInitInv == Pool!Init => PoolIInv
<1> SUFFICES ASSUME Pool!Init PROVE PoolIInv
  BY Zenon
<1> USE DEF Pool!Init
<1>1. numThreads \in Nat /\ maxQueueSize_ \in Nat
  <2>1. IsFiniteSet(Workers)
    BY PoolAssumption, FS_Subset
  <2>2. Cardinality(Workers) \in Nat
    BY <2>1, FS_CardinalityType, Zenon
  <2>3. Pool!Cardinality(Workers) = Cardinality(Workers)
    BY Zenon DEF Pool!Cardinality, Cardinality
  <2>4. ThreadCounts \subseteq Nat /\ QueueSizes \subseteq Nat
    BY <2>2, <2>3, PoolAssumption DEF Pool!SizesAssumption
  <2> QED
    BY <2>4, Zenon
<1>2. PoolTypeOK
  <2>1. poolAt \in [Pool!PoolThreads -> PoolPlaces]
    BY Zenon DEF PoolPlaces
  <2>2. doing \in [Pool!PoolThreads -> PoolTasks \cup {NoTask}]
    BY Zenon
  <2>3. queue_ = <<>> /\ begun = <<>>
    BY Zenon
  <2>4. poolRunning \in BOOLEAN
    BY Zenon
  <2>5. <<>> \in Seq(PoolTasks)
    OBVIOUS
  <2> QED
    BY <1>1, <2>1, <2>2, <2>3, <2>4, <2>5, Zenon DEF PoolTypeOK
<1>3. WaitInv
  BY PoolAssumption, Zenon DEF WaitInv, Pool!PoolThreads
<1>4. InlineInv /\ QueueInv /\ SleepInv
  BY <1>1 DEF InlineInv, QueueInv, SleepInv
<1>5. TaskInv
  <2>1. Accepted = <<>> /\ \A th \in Pool!PoolThreads : ~Passing(th)
    BY DEF Accepted, Passing
  <2> QED
    BY <2>1 DEF TaskInv
<1> QED
  BY <1>2, <1>3, <1>4, <1>5, Zenon DEF PoolIInv

(* While a worker sleeps the workers awake are as many as the tasks queued, *)
(* while a caller sleeps the threads awake in run() are as many as the free *)
(* places, tasks are begun once, and the queue keeps to its size, for any   *)
(* threads, tasks and maxQueueSize_: the single notify() of run() and of    *)
(* take() suffices.                                                         *)
THEOREM PoolSleepers == Pool!Spec => []NoSleeperBesideWork
<1>1. PoolIInv => NoSleeperBesideWork
  <2> SUFFICES ASSUME PoolIInv PROVE NoSleeperBesideWork
    BY Zenon
  <2>1. Pool!Awake({"loop", "take"}) = SeekWork
    BY DEF Pool!Awake, SeekWork, PoolIInv, WaitInv
  <2>2. Pool!Awake({"run"}) = SeekRoom
    BY Zenon DEF Pool!Awake, SeekRoom, PoolIInv, WaitInv
  <2>3. Pool!NoSleeperBesideWork
    BY <2>1, <2>2, Zenon DEF Pool!NoSleeperBesideWork, PoolIInv, SleepInv, Pool!Cardinality,
       Cardinality
  <2>4. Pool!TasksOnce
    BY Zenon DEF Pool!TasksOnce, PoolIInv, TaskInv, QueueInv, Accepted
  <2> QED
    BY <2>3, <2>4, Zenon DEF NoSleeperBesideWork
<1>2. PoolIInv /\ [Pool!Next]_Pool!vars => PoolIInv'
  BY PoolNextInv, Zenon
<1> QED
  BY <1>1, <1>2, PoolInitInv, PTL DEF Pool!Spec
=============================================================================
