------------------------------ MODULE Pollers ------------------------------
(***************************************************************************)
(* The two pollers that newDefaultPoller() chooses from, each with         *)
(* channels of its own, and what both of them promise.                     *)
(***************************************************************************)
CONSTANTS Chans, FdOf, NoChannel

VARIABLES
    life, events_, index_, channels_, epoll, failed,
    pollLife, pollEvents, pollIndex, pollChannels, pollfds_

EPoll == INSTANCE EPollPoller
Poll == INSTANCE PollPoller WITH life <- pollLife, events_ <- pollEvents,
    index_ <- pollIndex, channels_ <- pollChannels

ASSUME ChannelAssumption == EPoll!FdAssumption /\ NoChannel \notin Chans

epollVars == <<life, events_, index_, channels_, epoll, failed>>
pollVars == <<pollLife, pollEvents, pollIndex, pollChannels, pollfds_>>

-----------------------------------------------------------------------------
(* No epoll_ctl fails and the kernel keeps no pointer of a channel that is  *)
(* gone (EPollPoller); every index_ is the position of the channel's entry  *)
(* in pollfds_, however removals have moved the entries (PollPoller).       *)
RegistrationConsistent ==
    EPoll!EpollCtlSucceeds /\ EPoll!NoStalePointer /\ Poll!IndexIsPosition

(* Both pollers watch exactly what the channels ask for: they implement     *)
(* Poller (updateChannel, removeChannel).                                   *)
ImplementsPoller == EPoll!ImplementsPoller /\ Poll!ImplementsPoller
=============================================================================
