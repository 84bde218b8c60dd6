------------------------------ MODULE Acceptor ------------------------------
(***************************************************************************)
(* muduo/net/Acceptor.cc when the process runs out of descriptors:         *)
(* handleRead() keeps a spare one, idleFd_, and gives it up for a moment   *)
(* to accept and close a connection it cannot serve.  Other threads open   *)
(* and close descriptors meanwhile, so that every system call of           *)
(* handleRead() is a step.                                                 *)
(***************************************************************************)
EXTENDS Integers, FiniteSets

CONSTANTS
    MaxFd,      \* the descriptors are 0 .. MaxFd; RLIMIT_NOFILE allows no more
    MaxPeers    \* bound on the connections that arrive

VARIABLES
    table,      \* table[fd]: whose the descriptor is, "free" if it is closed
    idleFd_,
    handling,   \* where handleRead() is, "poll" between two calls;
                \* "silent" before listen() and "gone" after ~Acceptor()
    backlog,    \* connections that wait to be accepted
    arrived,    \* history: connections that have arrived
    stolen      \* history: a descriptor was opened while handleRead() had none spare

vars == <<table, idleFd_, handling, backlog, arrived, stolen>>

Fds == 0 .. MaxFd
NoFd == -1
Free == {fd \in Fds : table[fd] = "free"}
Lowest == IF Free = {} THEN NoFd ELSE CHOOSE fd \in Free : \A other \in Free : fd <= other

Init ==
    /\ table = [fd \in Fds |-> IF fd = 0 THEN "idle" ELSE "free"]
    /\ idleFd_ = 0
    /\ handling = "silent"
    /\ backlog = 0 /\ arrived = 0 /\ stolen = FALSE

(* handleRead() has closed the spare descriptor and holds no other.         *)
Exposed ==
    /\ handling \in {"acceptIdle", "closeAccepted", "openIdle"}
    /\ \A fd \in Fds : table[fd] # "idle"

(* close(2), which fails for a descriptor below 0.                          *)
Close(fd) == table' = IF fd = NoFd THEN table ELSE [table EXCEPT ![fd] = "free"]

-----------------------------------------------------------------------------
(* The kernel, the peers and the rest of the process.                       *)
Arrives ==
    /\ handling \notin {"silent", "gone"} /\ arrived < MaxPeers
    /\ arrived' = arrived + 1 /\ backlog' = backlog + 1
    /\ UNCHANGED <<table, idleFd_, handling, stolen>>

Withdraws ==
    /\ backlog > 0 /\ backlog' = backlog - 1
    /\ UNCHANGED <<table, idleFd_, handling, arrived, stolen>>

OthersOpen ==
    /\ Free # {} /\ table' = [table EXCEPT ![Lowest] = "other"]
    /\ stolen' = (stolen \/ Exposed)
    /\ UNCHANGED <<idleFd_, handling, backlog, arrived>>

OthersClose(fd) ==
    /\ table[fd] = "other" /\ Close(fd)
    /\ UNCHANGED <<idleFd_, handling, backlog, arrived, stolen>>

-----------------------------------------------------------------------------
listen ==
    /\ handling = "silent" /\ handling' = "poll"
    /\ UNCHANGED <<table, idleFd_, backlog, arrived, stolen>>

(* The channel is readable, so handleRead() is called.                      *)
Poll ==
    /\ handling = "poll" /\ backlog > 0
    /\ handling' = "accept"
    /\ UNCHANGED <<table, idleFd_, backlog, arrived, stolen>>

Accept_IgnoreEmfile ==
    /\ handling = "accept" /\ handling' = "poll"
    /\ IF Free # {} /\ backlog > 0
       THEN table' = [table EXCEPT ![Lowest] = "other"] /\ backlog' = backlog - 1
       ELSE UNCHANGED <<table, backlog>>
    /\ UNCHANGED <<idleFd_, arrived, stolen>>

(* accept(2) wants a descriptor before it looks at the backlog; a           *)
(* connection that has been withdrawn is EAGAIN.  An accepted descriptor    *)
(* belongs to newConnectionCallback_.                                       *)
Accept ==
    /\ handling = "accept"
    /\ \/ /\ Free = {} /\ handling' = "closeIdle"
          /\ UNCHANGED <<table, backlog>>
       \/ /\ Free # {} /\ backlog = 0 /\ handling' = "poll"
          /\ UNCHANGED <<table, backlog>>
       \/ /\ Free # {} /\ backlog > 0 /\ handling' = "poll"
          /\ table' = [table EXCEPT ![Lowest] = "other"] /\ backlog' = backlog - 1
    /\ UNCHANGED <<idleFd_, arrived, stolen>>

(* The four calls after EMFILE.                                             *)
CloseIdle ==
    /\ handling = "closeIdle" /\ handling' = "acceptIdle"
    /\ Close(idleFd_)
    /\ UNCHANGED <<idleFd_, backlog, arrived, stolen>>

AcceptIdle_KeepOnError ==
    /\ handling = "acceptIdle" /\ handling' = "closeAccepted"
    /\ IF Free # {} /\ backlog > 0
       THEN /\ idleFd_' = Lowest /\ table' = [table EXCEPT ![Lowest] = "idle"]
            /\ backlog' = backlog - 1
       ELSE UNCHANGED <<idleFd_, table, backlog>>
    /\ UNCHANGED <<arrived, stolen>>

AcceptIdle ==
    /\ handling = "acceptIdle" /\ handling' = "closeAccepted"
    /\ IF Free # {} /\ backlog > 0
       THEN /\ idleFd_' = Lowest /\ table' = [table EXCEPT ![Lowest] = "idle"]
            /\ backlog' = backlog - 1
       ELSE idleFd_' = NoFd /\ UNCHANGED <<table, backlog>>
    /\ UNCHANGED <<arrived, stolen>>

CloseAccepted ==
    /\ handling = "closeAccepted" /\ handling' = "openIdle"
    /\ Close(idleFd_)
    /\ UNCHANGED <<idleFd_, backlog, arrived, stolen>>

OpenIdle ==
    /\ handling = "openIdle" /\ handling' = "poll"
    /\ idleFd_' = Lowest
    /\ table' = IF Free = {} THEN table ELSE [table EXCEPT ![Lowest] = "idle"]
    /\ UNCHANGED <<backlog, arrived, stolen>>

(* ~Acceptor(), in the loop thread.                                         *)
Destroy ==
    /\ handling \in {"silent", "poll"} /\ handling' = "gone"
    /\ Close(idleFd_)
    /\ UNCHANGED <<idleFd_, backlog, arrived, stolen>>

-----------------------------------------------------------------------------
HandleRead == Poll \/ Accept \/ CloseIdle \/ AcceptIdle \/ CloseAccepted \/ OpenIdle

Next ==
    \/ Arrives \/ Withdraws \/ OthersOpen \/ listen \/ HandleRead \/ Destroy
    \/ \E fd \in Fds : OthersClose(fd)

(* The loop polls and its callbacks go on.                                  *)
Spec == Init /\ [][Next]_vars /\ WF_vars(HandleRead)

-----------------------------------------------------------------------------
(* Acceptor closes only what it owns, and leaks nothing: whenever it is     *)
(* about to close idleFd_, that descriptor is its own or -1, though its     *)
(* number may have gone to another thread in between, and no other          *)
(* descriptor is marked as the spare one.  Only a descriptor that another   *)
(* thread opened in that moment can leave it without a spare                *)
(* (Acceptor.cc:82-85).                                                     *)
SpareIsOwned ==
    /\ handling \in {"silent", "poll", "accept", "closeIdle", "closeAccepted"} =>
           {fd \in Fds : table[fd] = "idle"} = {idleFd_} \ {NoFd}
    /\ handling = "poll" /\ ~stolen => idleFd_ # NoFd

(* Every connection that waits is accepted or refused, also while no        *)
(* descriptor is to be had, unless the spare one was lost to another thread *)
(* or the Acceptor is destroyed (Acceptor.cc:55-88).                        *)
PeersAreAnswered ==
    \A n \in 1 .. MaxPeers :
        (backlog > 0 /\ arrived >= n) ~> (arrived - backlog >= n \/ stolen \/ handling = "gone")
=============================================================================
