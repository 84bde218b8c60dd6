------------------------------ MODULE Services ------------------------------
(***************************************************************************)
(* ThreadPool, which owns threads, and Acceptor, whose descriptors other   *)
(* threads compete for, and what they promise.                             *)
(***************************************************************************)
EXTENDS Integers, Sequences, FiniteSets

CONSTANTS
    Workers, Callers, PoolTasks, NoTask, Child, ThreadCounts, QueueSizes,
    MaxFd, MaxPeers

VARIABLES
    numThreads, maxQueueSize_, poolRunning, queue_, notEmpty_, notFull_,
    threads_, latch_, poolOwner, poolAt, doing, given, begun,
    table, idleFd_, handling, backlog, arrived, stolen

poolVars == <<numThreads, maxQueueSize_, poolRunning, queue_, notEmpty_, notFull_,
              threads_, latch_, poolOwner, poolAt, doing, given, begun>>
acceptVars == <<table, idleFd_, handling, backlog, arrived, stolen>>

Pool == INSTANCE ThreadPool WITH Tasks <- PoolTasks, running_ <- poolRunning,
    owner <- poolOwner, at <- poolAt, executed <- begun
Accept == INSTANCE Acceptor

ASSUME PoolAssumption ==
    /\ Pool!TasksAssumption /\ Pool!SizesAssumption
    /\ IsFiniteSet(Workers \cup Callers) /\ Workers \cap Callers = {}
ASSUME FdAssumption == MaxFd \in Nat /\ MaxPeers \in Nat

-----------------------------------------------------------------------------
(* No worker waits for notEmpty_ beside a task that nobody awake will take, *)
(* and no caller for notFull_ beside room nobody awake will use: the single *)
(* notify() of run() and of take() suffices (ThreadPool.cc:89, :108).  The  *)
(* queue keeps to its size, and no task is begun twice.                     *)
NoSleeperBesideWork == Pool!NoSleeperBesideWork /\ Pool!TasksOnce

(* What run() was given is begun, unless the pool is stopped or all of its  *)
(* threads wait in run() for room that only they could make; stop() then    *)
(* returns whatever the workers wait for, and so does a call of run() that  *)
(* it meets (ThreadPool.cc:52-91).                                          *)
PoolServes == Pool!GivenIsBegun /\ Pool!StopReturns

(* When descriptors run out, Acceptor closes only what it owns and leaks    *)
(* nothing, whatever other threads open between its calls, and it keeps its *)
(* spare descriptor unless one of them takes it (Acceptor.cc:80-86).        *)
SpareIsOwned == Accept!SpareIsOwned

(* A waiting connection is accepted or refused even while no descriptor is  *)
(* to be had, unless the spare one was taken (Acceptor.cc:55-88).           *)
PeersAreAnswered == Accept!PeersAreAnswered
=============================================================================
