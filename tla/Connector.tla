----------------------------- MODULE Connector -----------------------------
(***************************************************************************)
(* muduo/net/Connector.cc: the attempts of a client to connect, one after  *)
(* the other, with growing delays between them.  The operators say what    *)
(* the member functions do to the connector, to its sockets, its retry     *)
(* timers and the functors of its loop; TcpClient runs them.               *)
(***************************************************************************)
EXTENDS Naturals, Sequences, FiniteSets, FiniteSetsExt

CONSTANTS
    Fds,                 \* descriptors; the kernel gives out the lowest free one
    kInitRetryDelayMs,
    kMaxRetryDelayMs

ASSUME ConnectorAssumption ==
    /\ Fds \subseteq Nat \ {0} /\ IsFiniteSet(Fds)
    /\ kInitRetryDelayMs \in Nat \ {0} /\ kMaxRetryDelayMs \in Nat \ {0}

kDisconnected == "kDisconnected"
kConnecting   == "kConnecting"
kConnected    == "kConnected"

NoFd == 0

VARIABLES
    connect_,
    state_,
    channel_,        \* its descriptor, NoFd for a null channel_
    watched,         \* channel_ is registered with the poller
    retryDelayMs_,
    timers,          \* retry timers that have not expired
    open,            \* open sockets
    gaveUp,          \* history: connect(2) failed for good
    pending,         \* functors queued in the loop
    failed           \* the assertion that has failed

connectorVars == <<connect_, state_, channel_, watched, retryDelayMs_, timers, gaveUp>>

ConnectorTypeOK ==
    /\ connect_ \in BOOLEAN
    /\ state_ \in {kDisconnected, kConnecting, kConnected}
    /\ channel_ \in Fds \cup {NoFd} /\ watched \in BOOLEAN
    /\ retryDelayMs_ \in kInitRetryDelayMs .. Max({kInitRetryDelayMs, kMaxRetryDelayMs})
    /\ timers \in Nat
    /\ open \subseteq Fds
    /\ gaveUp \in BOOLEAN

ConnectorInit ==
    /\ connect_ = FALSE
    /\ state_ = kDisconnected
    /\ channel_ = NoFd /\ watched = FALSE
    /\ retryDelayMs_ = kInitRetryDelayMs
    /\ timers = 0
    /\ open = {}
    /\ gaveUp = FALSE
    /\ pending = <<>>
    /\ failed = "none"

Check(ok, name) == failed' = IF ok THEN failed ELSE name

Call(f)     == [f |-> f, fd |-> NoFd]
Queue(f)    == pending' = Append(pending, Call(f))

(* retry(): what follows the close of the socket.  The number of timers     *)
(* that are left is a parameter, as startInLoop() may be one that expired.  *)
Retry(left) ==
    /\ state_' = kDisconnected
    /\ IF connect_
         THEN /\ timers' = left + 1
              /\ retryDelayMs_' = Min({retryDelayMs_ * 2, kMaxRetryDelayMs})
         ELSE timers' = left /\ UNCHANGED retryDelayMs_

(* connect() and connecting(): connect(2) is under way, has failed in a way *)
(* that is worth a retry, or has failed for good.                           *)
Connect_FallThrough(left) ==
    /\ Retry(left)
    /\ channel_' = Min(Fds \ open) /\ watched' = TRUE
    /\ open' = open \cup {channel_'}
    /\ Check(channel_ = NoFd, "connecting")
    /\ UNCHANGED gaveUp

Connect(left) ==
    \/ /\ state_' = kConnecting
       /\ channel_' = Min(Fds \ open) /\ watched' = TRUE
       /\ open' = open \cup {channel_'}
       /\ timers' = left
       /\ Check(channel_ = NoFd, "connecting")
       /\ UNCHANGED <<retryDelayMs_, gaveUp>>
    \/ Retry(left) /\ UNCHANGED <<channel_, watched, open, gaveUp, failed>>
    \/ /\ gaveUp' = TRUE
       /\ timers' = left
       /\ UNCHANGED <<state_, channel_, watched, retryDelayMs_, open, failed>>

(* startInLoop().                                                           *)
StartInLoop(left) ==
    /\ UNCHANGED connect_
    /\ IF state_ = kDisconnected /\ connect_ THEN Connect(left)
       ELSE /\ Check(state_ = kDisconnected, "startInLoop")
            /\ timers' = left
            /\ UNCHANGED <<state_, channel_, watched, retryDelayMs_, open, gaveUp>>

(* removeAndResetChannel(): the Channel object stays until resetChannel().  *)
RemoveAndResetChannel ==
    /\ watched' = FALSE
    /\ Queue("resetChannel")
    /\ UNCHANGED channel_

(* stopInLoop(), and handleError().                                         *)
Abandon ==
    IF state_ = kConnecting
      THEN /\ RemoveAndResetChannel
           /\ open' = open \ {channel_}
           /\ Retry(timers)
           /\ UNCHANGED <<connect_, gaveUp>>
      ELSE UNCHANGED <<connectorVars, open, pending>>

ResetChannel == channel_' = NoFd

(* handleWrite() in state kConnecting: SO_ERROR is set, or the socket has   *)
(* connected to itself; or the attempt has succeeded.  newConnection is     *)
(* called then, and the socket is closed if connect_ was cleared meanwhile. *)
HandleWriteFails ==
    /\ state_ = kConnecting
    /\ Abandon

HandleWriteSucceeds ==
    /\ state_ = kConnecting
    /\ RemoveAndResetChannel
    /\ state_' = kConnected
    /\ open' = IF connect_ THEN open ELSE open \ {channel_}
    /\ UNCHANGED <<connect_, retryDelayMs_, timers, gaveUp>>

(* restart() up to its call of startInLoop().                               *)
Restart_KeepState ==
    /\ retryDelayMs_' = kInitRetryDelayMs
    /\ connect_' = TRUE
    /\ UNCHANGED <<state_, channel_, watched, timers, gaveUp>>

Restart ==
    /\ state_' = kDisconnected
    /\ retryDelayMs_' = kInitRetryDelayMs
    /\ connect_' = TRUE
    /\ UNCHANGED <<channel_, watched, timers, gaveUp>>
=============================================================================
