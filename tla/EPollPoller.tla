---------------------------- MODULE EPollPoller ----------------------------
(***************************************************************************)
(* muduo/net/poller/EPollPoller.cc: channels_, the index_ kept in each     *)
(* channel, and the interest list of the epoll descriptor.                 *)
(***************************************************************************)
EXTENDS Channel

CONSTANT NoChannel   \* absence of a Channel*

kNew     == -1
kAdded   == 1
kDeleted == 2

VARIABLES
    index_,
    channels_,   \* map from descriptor to Channel*
    epoll,       \* interest list: for each descriptor the registered event and data.ptr
    failed       \* the last epoll_ctl failed

evars == <<index_, channels_, epoll, failed>>
vars  == <<cvars, evars>>

Nothing == [ptr |-> NoChannel, events |-> {}]

TypeOK ==
    /\ ChannelTypeOK
    /\ index_ \in [Chans -> {kNew, kAdded, kDeleted}]
    /\ channels_ \in [Fds -> Chans \cup {NoChannel}]
    /\ epoll \in [Fds -> [ptr : Chans \cup {NoChannel}, events : SUBSET Events]]
    /\ failed \in BOOLEAN

Init ==
    /\ ChannelInit
    /\ index_ = [c \in Chans |-> kNew]
    /\ channels_ = [fd \in Fds |-> NoChannel]
    /\ epoll = [fd \in Fds |-> Nothing]
    /\ failed = FALSE

(* epoll_ctl: ADD needs a descriptor that is not in the list, MOD and DEL   *)
(* one that is.                                                             *)
EpollCtl(op, c, ev) ==
    LET fd == FdOf[c] IN
    /\ failed' = ((op = "ADD") = (epoll[fd].ptr # NoChannel))
    /\ epoll' = IF failed' THEN epoll
                ELSE [epoll EXCEPT ![fd] =
                        IF op = "DEL" THEN Nothing ELSE [ptr |-> c, events |-> ev]]

UpdateChannel_KeepIndex(c, ev) ==
    /\ Update(c, ev)
    /\ IF index_[c] \in {kNew, kDeleted}
         THEN /\ channels_' = [channels_ EXCEPT ![FdOf[c]] = c]
              /\ index_' = [index_ EXCEPT ![c] = kAdded]
              /\ EpollCtl("ADD", c, ev)
         ELSE /\ EpollCtl(IF ev = {} THEN "DEL" ELSE "MOD", c, ev)
              /\ UNCHANGED <<channels_, index_>>

UpdateChannel(c, ev) ==
    /\ Update(c, ev)
    /\ IF index_[c] \in {kNew, kDeleted}
         THEN /\ channels_' = [channels_ EXCEPT ![FdOf[c]] = c]
              /\ index_' = [index_ EXCEPT ![c] = kAdded]
              /\ EpollCtl("ADD", c, ev)
         ELSE /\ index_' = [index_ EXCEPT ![c] = IF ev = {} THEN kDeleted ELSE kAdded]
              /\ EpollCtl(IF ev = {} THEN "DEL" ELSE "MOD", c, ev)
              /\ UNCHANGED channels_

RemoveChannel(c) ==
    /\ Remove(c)
    /\ channels_' = [channels_ EXCEPT ![FdOf[c]] = NoChannel]
    /\ index_' = [index_ EXCEPT ![c] = kNew]
    /\ IF index_[c] = kAdded THEN EpollCtl("DEL", c, {}) ELSE UNCHANGED <<epoll, failed>>

NewChannel(c) ==
    /\ MakeChannel(c)
    /\ index_' = [index_ EXCEPT ![c] = kNew]
    /\ UNCHANGED <<channels_, epoll, failed>>

DeleteChannel(c) == DestroyChannel(c) /\ UNCHANGED evars

Next ==
    \E c \in Chans :
        \/ NewChannel(c)
        \/ \E ev \in Requests(c) : UpdateChannel(c, ev)
        \/ RemoveChannel(c)
        \/ DeleteChannel(c)

Spec == Init /\ [][Next]_vars

-----------------------------------------------------------------------------
(* No epoll_ctl fails, so update() is never fatal and never logs: index_    *)
(* always tells whether the descriptor is in the interest list.             *)
EpollCtlSucceeds == ~failed

(* The pointers the kernel hands back to fillActiveChannels are those of    *)
(* live channels registered in channels_ under their descriptor: its        *)
(* assertions hold and no event reaches a destroyed channel, although       *)
(* descriptors and channel objects are reused.                              *)
NoStalePointer ==
    /\ \A fd \in Fds : epoll[fd].ptr # NoChannel => channels_[fd] = epoll[fd].ptr
    /\ \A c \in Chans : life[c] = "added" <=> channels_[FdOf[c]] = c

P == INSTANCE Poller
    WITH registered <- {c \in Chans : channels_[FdOf[c]] = c},
         asked <- [c \in Chans |-> IF life[c] = "added" THEN events_[c] ELSE {}],
         interest <- [c \in Chans |-> IF epoll[FdOf[c]].ptr = c
                                        THEN epoll[FdOf[c]].events ELSE {}]

(* updateChannel and removeChannel keep the interest list of the kernel     *)
(* equal to what the channels ask for.                                      *)
ImplementsPoller == P!Spec
=============================================================================
