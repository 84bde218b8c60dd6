----------------------------- MODULE TaskQueue -----------------------------
(***************************************************************************)
(* What EventLoop promises to the callers of queueInLoop: a first-in       *)
(* first-out executor.  A task handed over is run at most once, in the     *)
(* order of the hand-overs, and only while the loop is running.            *)
(***************************************************************************)
EXTENDS Naturals, Sequences

CONSTANT Tasks

VARIABLES
    queued,     \* every task handed over so far, in order
    executed,   \* every task run so far, in order
    running     \* the loop is inside loop()

tvars == <<queued, executed, running>>

Init ==
    /\ queued = <<>>
    /\ executed = <<>>
    /\ running = FALSE

Submit(t) ==
    /\ queued' = Append(queued, t)
    /\ UNCHANGED <<executed, running>>

Execute ==
    /\ running
    /\ Len(executed) < Len(queued)
    /\ executed' = Append(executed, queued[Len(executed) + 1])
    /\ UNCHANGED <<queued, running>>

StartOrStop ==
    /\ running' = ~running
    /\ UNCHANGED <<queued, executed>>

Next ==
    \/ \E t \in Tasks : Submit(t)
    \/ Execute
    \/ StartOrStop

Spec == Init /\ [][Next]_tvars
=============================================================================
