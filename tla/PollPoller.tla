----------------------------- MODULE PollPoller ----------------------------
(***************************************************************************)
(* muduo/net/poller/PollPoller.cc: the vector pollfds_ handed to poll(2),  *)
(* and the position in it that each channel keeps in index_.  Positions    *)
(* count from 1 here; 0 is the code's -1, a channel that is not in the     *)
(* vector.                                                                 *)
(***************************************************************************)
EXTENDS Channel

CONSTANT NoChannel   \* absence of a Channel*

VARIABLES
    index_,
    channels_,   \* map from descriptor to Channel*
    pollfds_     \* records of a descriptor, or -fd - 1 to ignore it, and its events

qvars == <<index_, channels_, pollfds_>>
vars  == <<cvars, qvars>>

Init ==
    /\ ChannelInit
    /\ index_ = [c \in Chans |-> 0]
    /\ channels_ = [fd \in Fds |-> NoChannel]
    /\ pollfds_ = <<>>

(* A descriptor is ignored by poll(2) when it is negative.                  *)
Ignored_Negated(fd) == -fd
Ignored(fd) == -fd - 1
Watched(x) == IF x < 0 THEN -x - 1 ELSE x

UpdateChannel(c, ev) ==
    LET fd == FdOf[c] IN
    /\ Update(c, ev)
    /\ IF index_[c] = 0
         THEN /\ pollfds_' = Append(pollfds_, [fd |-> fd, events |-> ev])
              /\ index_' = [index_ EXCEPT ![c] = Len(pollfds_) + 1]
              /\ channels_' = [channels_ EXCEPT ![fd] = c]
         ELSE /\ pollfds_' = [pollfds_ EXCEPT ![index_[c]] =
                    [fd |-> IF ev = {} THEN Ignored(fd) ELSE fd, events |-> ev]]
              /\ UNCHANGED <<index_, channels_>>

Front(s) == SubSeq(s, 1, Len(s) - 1)

(* Neither the removed channel nor a channel that is last has its index_    *)
(* changed; the last entry moves into the gap otherwise.                    *)
RemoveChannel(c) ==
    LET i    == index_[c]
        last == pollfds_[Len(pollfds_)]
    IN
    /\ Remove(c)
    /\ channels_' = [channels_ EXCEPT ![FdOf[c]] = NoChannel]
    /\ IF i = Len(pollfds_)
         THEN /\ pollfds_' = Front(pollfds_)
              /\ UNCHANGED index_
         ELSE /\ pollfds_' = Front([pollfds_ EXCEPT ![i] = last])
              /\ index_' = [index_ EXCEPT ![channels_[Watched(last.fd)]] = i]

NewChannel(c) ==
    /\ MakeChannel(c)
    /\ index_' = [index_ EXCEPT ![c] = 0]
    /\ UNCHANGED <<channels_, pollfds_>>

DeleteChannel(c) == DestroyChannel(c) /\ UNCHANGED qvars

Next ==
    \E c \in Chans :
        \/ NewChannel(c)
        \/ \E ev \in Requests(c) : UpdateChannel(c, ev)
        \/ RemoveChannel(c)
        \/ DeleteChannel(c)

Spec == Init /\ [][Next]_vars

-----------------------------------------------------------------------------
(* pollfds_ has one entry for each registered descriptor, and index_ of     *)
(* every registered channel is the position of its own entry, with its      *)
(* descriptor, ignored or not, and its events, however removals have moved  *)
(* the entries; so the assertions on idx and pfd of updateChannel hold and  *)
(* removeChannel finds the moved channel.                                   *)
IndexIsPosition ==
    /\ Len(pollfds_) = Cardinality({fd \in Fds : channels_[fd] # NoChannel})
    /\ \A c \in Added :
          /\ channels_[FdOf[c]] = c
          /\ index_[c] \in DOMAIN pollfds_
          /\ Watched(pollfds_[index_[c]].fd) = FdOf[c]
          /\ pollfds_[index_[c]].events = events_[c]

(* What poll(2) watches for a channel: all the entries with its descriptor. *)
WatchedFor(c) ==
    UNION {pollfds_[i].events : i \in {j \in DOMAIN pollfds_ : pollfds_[j].fd = FdOf[c]}}

P == INSTANCE Poller
    WITH registered <- {c \in Chans : channels_[FdOf[c]] = c},
         asked <- [c \in Chans |-> IF life[c] = "added" THEN events_[c] ELSE {}],
         interest <- [c \in Chans |-> IF channels_[FdOf[c]] = c THEN WatchedFor(c) ELSE {}]

(* updateChannel and removeChannel keep the descriptors handed to poll(2)   *)
(* equal to what the channels ask for.                                      *)
ImplementsPoller == P!Spec
=============================================================================
