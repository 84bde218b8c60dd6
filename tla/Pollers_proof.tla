--------------------------- MODULE Pollers_proof ---------------------------
(***************************************************************************)
(* EPollPoller never makes an epoll_ctl that fails and leaves no pointer   *)
(* to a dead channel in the kernel; in PollPoller index_ is the position   *)
(* of a channel's entry in pollfds_ whatever order channels are added and  *)
(* removed in; both implement Poller, for any channels and descriptors.    *)
(***************************************************************************)
EXTENDS Pollers, FiniteSetTheorems, SequenceTheorems, TLAPS

-----------------------------------------------------------------------------
(* EPollPoller.                                                             *)

(* index_ follows the life of the channel.  A channel whose index_ is       *)
(* kDeleted stays in channels_ and asks for nothing.                        *)
EPollIndexInv ==
    \A c \in Chans :
        /\ index_[c] = EPoll!kNew <=> life[c] # "added"
        /\ index_[c] = EPoll!kDeleted => events_[c] = {}
        /\ life[c] = "added" <=> channels_[FdOf[c]] = c

(* index_ tells what the kernel holds.                                      *)
EPollKernelInv ==
    /\ \A c \in Chans : index_[c] = EPoll!kAdded =>
           epoll[FdOf[c]].ptr = c /\ epoll[FdOf[c]].events = events_[c]
    /\ \A fd \in EPoll!Fds : epoll[fd].ptr # NoChannel =>
           FdOf[epoll[fd].ptr] = fd /\ index_[epoll[fd].ptr] = EPoll!kAdded

(* A descriptor belongs to one channel at a time.                           *)
EPollOwnerInv ==
    \A c, d \in Chans :
        FdOf[c] = FdOf[d] /\ life[c] \in {"made", "added"} /\ life[d] \in {"made", "added"} => c = d

EPollIInv == EPoll!TypeOK /\ failed = FALSE /\ EPollIndexInv /\ EPollKernelInv /\ EPollOwnerInv

-----------------------------------------------------------------------------
(* updateChannel() takes the right one of ADD, MOD and DEL.                 *)
LEMMA EPollUpdateSucceeds ==
    ASSUME NoChannel \notin Chans, EPollIInv, NEW c \in Chans, NEW ev, EPoll!UpdateChannel(c, ev)
    PROVE  /\ failed' = FALSE
           /\ ev \in SUBSET EPoll!Events
           /\ epoll' = [epoll EXCEPT ![FdOf[c]] =
                 IF index_[c] = EPoll!kAdded /\ ev = {} THEN EPoll!Nothing ELSE [ptr |-> c, events |-> ev]]
           /\ index_' = [index_ EXCEPT ![c] =
                 IF index_[c] = EPoll!kAdded /\ ev = {} THEN EPoll!kDeleted ELSE EPoll!kAdded]
           /\ channels_' = [channels_ EXCEPT ![FdOf[c]] = c]
<1> USE DEF EPoll!kNew, EPoll!kAdded, EPoll!kDeleted
<1>0. FdOf[c] \in EPoll!Fds
  BY Zenon DEF EPoll!Fds
<1>1. ev \in SUBSET EPoll!Events
  BY DEF EPoll!UpdateChannel, EPoll!Update, EPoll!Requests, EPollIInv, EPoll!TypeOK,
     EPoll!ChannelTypeOK, EPoll!Events
<1>2. CASE index_[c] \in {EPoll!kNew, EPoll!kDeleted}
  <2>1. epoll[FdOf[c]].ptr = NoChannel
    <3> SUFFICES ASSUME epoll[FdOf[c]].ptr # NoChannel PROVE FALSE
      BY Zenon
    <3>1. PICK d \in Chans : d = epoll[FdOf[c]].ptr
      BY <1>0, Zenon DEF EPollIInv, EPoll!TypeOK
    <3>2. FdOf[d] = FdOf[c] /\ index_[d] = EPoll!kAdded
      BY <1>0, <3>1, Zenon DEF EPollIInv, EPollKernelInv
    <3>3. life[d] = "added" /\ life[c] \in {"made", "added"}
      BY <3>2 DEF EPollIInv, EPollIndexInv, EPoll!UpdateChannel, EPoll!Update
    <3> QED
      BY <1>2, <3>2, <3>3 DEF EPollIInv, EPollOwnerInv
  <2>2. EPoll!EpollCtl("ADD", c, ev) /\ index_' = [index_ EXCEPT ![c] = EPoll!kAdded]
        /\ channels_' = [channels_ EXCEPT ![FdOf[c]] = c]
    BY <1>2, Zenon DEF EPoll!UpdateChannel
  <2>3. failed' = FALSE /\ epoll' = [epoll EXCEPT ![FdOf[c]] = [ptr |-> c, events |-> ev]]
    BY <2>1, <2>2, Zenon DEF EPoll!EpollCtl
  <2>4. index_[c] # EPoll!kAdded
    BY <1>2
  <2> QED
    BY <1>1, <2>2, <2>3, <2>4, Zenon
<1>3. CASE index_[c] = EPoll!kAdded
  <2>1. epoll[FdOf[c]].ptr = c /\ channels_[FdOf[c]] = c
    BY <1>3 DEF EPollIInv, EPollKernelInv, EPollIndexInv
  <2>2. /\ EPoll!EpollCtl(IF ev = {} THEN "DEL" ELSE "MOD", c, ev)
        /\ index_' = [index_ EXCEPT ![c] = IF ev = {} THEN EPoll!kDeleted ELSE EPoll!kAdded]
        /\ channels_' = channels_
    BY <1>3 DEF EPoll!UpdateChannel
  <2>3. failed' = FALSE /\ epoll' = [epoll EXCEPT ![FdOf[c]] =
                                 IF ev = {} THEN EPoll!Nothing ELSE [ptr |-> c, events |-> ev]]
    BY <2>1, <2>2, Zenon DEF EPoll!EpollCtl
  <2>4. channels_' = [channels_ EXCEPT ![FdOf[c]] = c]
    BY <1>0, <2>1, <2>2, Zenon DEF EPollIInv, EPoll!TypeOK
  <2> QED
    BY <1>1, <1>3, <2>2, <2>3, <2>4, Zenon
<1> QED
  BY <1>2, <1>3, Zenon DEF EPollIInv, EPoll!TypeOK

(* removeChannel() deletes what the kernel holds, if it holds anything.     *)
LEMMA EPollRemoveSucceeds ==
    ASSUME NoChannel \notin Chans, EPollIInv, NEW c \in Chans, EPoll!RemoveChannel(c)
    PROVE  /\ failed' = FALSE
           /\ epoll' = IF index_[c] = EPoll!kAdded THEN [epoll EXCEPT ![FdOf[c]] = EPoll!Nothing] ELSE epoll
<1>1. CASE index_[c] = EPoll!kAdded
  <2>1. epoll[FdOf[c]].ptr = c
    BY <1>1, Zenon DEF EPollIInv, EPollKernelInv
  <2> QED
    BY <1>1, <2>1, Zenon DEF EPoll!RemoveChannel, EPoll!EpollCtl
<1>2. CASE index_[c] # EPoll!kAdded
  BY <1>2, Zenon DEF EPoll!RemoveChannel, EPollIInv
<1> QED
  BY <1>1, <1>2, Zenon

-----------------------------------------------------------------------------
(* Every request of a channel keeps IInv.                                   *)
LEMMA EPollNextInv == ASSUME NoChannel \notin Chans, EPollIInv, [EPoll!Next]_EPoll!vars PROVE EPollIInv'
<1> USE DEF EPoll!kNew, EPoll!kAdded, EPoll!kDeleted
<1>0. \A c \in Chans : FdOf[c] \in EPoll!Fds
  BY Zenon DEF EPoll!Fds
<1>1. ASSUME NEW c \in Chans, EPoll!NewChannel(c) PROVE EPollIInv'
  <2> USE <1>1 DEF EPoll!NewChannel, EPoll!MakeChannel, EPollIInv
  <2>1. EPoll!TypeOK' /\ failed' = FALSE
    BY Zenon DEF EPoll!TypeOK, EPoll!ChannelTypeOK
  <2>2. EPollIndexInv'
    BY Zenon DEF EPoll!TypeOK, EPoll!ChannelTypeOK, EPollIndexInv
  <2>3. EPollKernelInv'
    BY DEF EPoll!TypeOK, EPoll!ChannelTypeOK, EPollIndexInv, EPollKernelInv
  <2>4. EPollOwnerInv'
    BY Zenon DEF EPoll!TypeOK, EPoll!ChannelTypeOK, EPollOwnerInv
  <2> QED
    BY <2>1, <2>2, <2>3, <2>4, Zenon
<1>2. ASSUME NEW c \in Chans, NEW ev \in EPoll!Requests(c), EPoll!UpdateChannel(c, ev) PROVE EPollIInv'
  <2>1. /\ failed' = FALSE /\ ev \in SUBSET EPoll!Events
        /\ epoll' = [epoll EXCEPT ![FdOf[c]] =
                 IF index_[c] = EPoll!kAdded /\ ev = {} THEN EPoll!Nothing ELSE [ptr |-> c, events |-> ev]]
        /\ index_' = [index_ EXCEPT ![c] =
              IF index_[c] = EPoll!kAdded /\ ev = {} THEN EPoll!kDeleted ELSE EPoll!kAdded]
        /\ channels_' = [channels_ EXCEPT ![FdOf[c]] = c]
    BY <1>2, EPollUpdateSucceeds, Zenon
  <2>2. /\ life[c] \in {"made", "added"}
        /\ events_' = [events_ EXCEPT ![c] = ev]
        /\ life' = [life EXCEPT ![c] = "added"]
    BY <1>2, Zenon DEF EPoll!UpdateChannel, EPoll!Update
  <2>3. EPoll!TypeOK'
    <3>1. EPoll!ChannelTypeOK'
      BY <2>1, <2>2, Zenon DEF EPollIInv, EPoll!TypeOK, EPoll!ChannelTypeOK
    <3>2. index_' \in [Chans -> {EPoll!kNew, EPoll!kAdded, EPoll!kDeleted}]
      BY <2>1, <2>2, Zenon DEF EPollIInv, EPoll!TypeOK
    <3>3. channels_' \in [EPoll!Fds -> Chans \cup {NoChannel}]
      BY <1>0, <2>1, <2>2, Zenon DEF EPollIInv, EPoll!TypeOK
    <3>4. epoll' \in [EPoll!Fds -> [ptr : Chans \cup {NoChannel}, events : SUBSET EPoll!Events]]
      BY <1>0, <2>1, Zenon DEF EPollIInv, EPoll!TypeOK, EPoll!Nothing
    <3>5. failed' \in BOOLEAN
      BY <2>1, Zenon
    <3> QED
      BY <3>1, <3>2, <3>3, <3>4, <3>5, Zenon DEF EPoll!TypeOK
  <2>4. \A d \in Chans : d # c /\ FdOf[d] = FdOf[c] => life[d] # "added"
    BY <2>2, Zenon DEF EPollIInv, EPollOwnerInv
  <2>5. EPollIndexInv'
    BY <1>0, <2>1, <2>2, <2>4 DEF EPollIInv, EPoll!TypeOK, EPoll!ChannelTypeOK, EPollIndexInv
  <2>6. EPollKernelInv'
    <3>1. \A d \in Chans : d # c /\ FdOf[d] = FdOf[c] => index_[d] # EPoll!kAdded
      BY <2>4 DEF EPollIInv, EPollIndexInv
    <3>2. \A d \in Chans : index_'[d] = EPoll!kAdded =>
              epoll'[FdOf[d]].ptr = d /\ epoll'[FdOf[d]].events = events_'[d]
      BY <1>0, <2>1, <2>2, <3>1 DEF EPollIInv, EPoll!TypeOK, EPoll!ChannelTypeOK, EPollKernelInv
    <3>3. ASSUME NEW fd \in EPoll!Fds, epoll'[fd].ptr # NoChannel
          PROVE  FdOf[epoll'[fd].ptr] = fd /\ index_'[epoll'[fd].ptr] = EPoll!kAdded
      <4>1. CASE fd = FdOf[c]
        BY <3>3, <4>1, <2>1, Zenon DEF EPollIInv, EPoll!TypeOK, EPoll!Nothing
      <4>2. CASE fd # FdOf[c]
        BY <3>3, <4>2, <2>1 DEF EPollIInv, EPoll!TypeOK, EPollKernelInv
      <4> QED
        BY <4>1, <4>2, Zenon
    <3> QED
      BY <3>2, <3>3, Zenon DEF EPollKernelInv
  <2>7. EPollOwnerInv'
    BY <2>2, Zenon DEF EPollIInv, EPoll!TypeOK, EPoll!ChannelTypeOK, EPollOwnerInv
  <2> QED
    BY <2>1, <2>3, <2>5, <2>6, <2>7, Zenon DEF EPollIInv
<1>3. ASSUME NEW c \in Chans, EPoll!RemoveChannel(c) PROVE EPollIInv'
  <2>1. /\ failed' = FALSE
        /\ epoll' = IF index_[c] = EPoll!kAdded THEN [epoll EXCEPT ![FdOf[c]] = EPoll!Nothing] ELSE epoll
    BY <1>3, EPollRemoveSucceeds, Zenon
  <2>2. /\ life[c] = "added" /\ life' = [life EXCEPT ![c] = "removed"] /\ events_' = events_
        /\ channels_' = [channels_ EXCEPT ![FdOf[c]] = NoChannel]
        /\ index_' = [index_ EXCEPT ![c] = EPoll!kNew]
    BY <1>3, Zenon DEF EPoll!RemoveChannel, EPoll!Remove
  <2>3. EPoll!TypeOK'
    <3>1. EPoll!ChannelTypeOK'
      BY <2>1, <2>2, Zenon DEF EPollIInv, EPoll!TypeOK, EPoll!ChannelTypeOK
    <3>2. index_' \in [Chans -> {EPoll!kNew, EPoll!kAdded, EPoll!kDeleted}]
      BY <2>1, <2>2, Zenon DEF EPollIInv, EPoll!TypeOK
    <3>3. channels_' \in [EPoll!Fds -> Chans \cup {NoChannel}]
      BY <1>0, <2>1, <2>2, Zenon DEF EPollIInv, EPoll!TypeOK
    <3>4. epoll' \in [EPoll!Fds -> [ptr : Chans \cup {NoChannel}, events : SUBSET EPoll!Events]]
      BY <1>0, <2>1, Zenon DEF EPollIInv, EPoll!TypeOK, EPoll!Nothing
    <3>5. failed' \in BOOLEAN
      BY <2>1, Zenon
    <3> QED
      BY <3>1, <3>2, <3>3, <3>4, <3>5, Zenon DEF EPoll!TypeOK
  <2>4. \A d \in Chans : d # c /\ FdOf[d] = FdOf[c] => life[d] # "added"
    BY <2>2, Zenon DEF EPollIInv, EPollOwnerInv
  <2>5. EPollIndexInv'
    BY <1>0, <2>2, <2>4 DEF EPollIInv, EPoll!TypeOK, EPoll!ChannelTypeOK, EPollIndexInv
  <2>6. EPollKernelInv'
    <3>1. \A d \in Chans : d # c /\ FdOf[d] = FdOf[c] => index_[d] # EPoll!kAdded
      BY <2>4 DEF EPollIInv, EPollIndexInv
    <3>2. \A d \in Chans : index_'[d] = EPoll!kAdded =>
              epoll'[FdOf[d]].ptr = d /\ epoll'[FdOf[d]].events = events_'[d]
      BY <1>0, <2>1, <2>2, <3>1 DEF EPollIInv, EPoll!TypeOK, EPollKernelInv
    <3>3. ASSUME NEW fd \in EPoll!Fds, epoll'[fd].ptr # NoChannel
          PROVE  FdOf[epoll'[fd].ptr] = fd /\ index_'[epoll'[fd].ptr] = EPoll!kAdded
      <4>1. epoll'[fd] = epoll[fd]
        BY <3>3, <2>1, Zenon DEF EPollIInv, EPoll!TypeOK, EPoll!Nothing
      <4>2. epoll[fd].ptr # c
        BY <3>3, <4>1, <2>1 DEF EPollIInv, EPoll!TypeOK, EPollKernelInv, EPoll!Nothing
      <4> QED
        BY <3>3, <4>1, <4>2, <2>2 DEF EPollIInv, EPoll!TypeOK, EPollKernelInv
    <3> QED
      BY <3>2, <3>3, Zenon DEF EPollKernelInv
  <2>7. EPollOwnerInv'
    BY <2>2, Zenon DEF EPollIInv, EPoll!TypeOK, EPoll!ChannelTypeOK, EPollOwnerInv
  <2> QED
    BY <2>1, <2>3, <2>5, <2>6, <2>7, Zenon DEF EPollIInv
<1>4. ASSUME NEW c \in Chans, EPoll!DeleteChannel(c) PROVE EPollIInv'
  <2> USE <1>4 DEF EPoll!DeleteChannel, EPoll!DestroyChannel, EPollIInv, EPoll!evars
  <2>1. EPoll!TypeOK' /\ failed' = FALSE
    BY Zenon DEF EPoll!TypeOK, EPoll!ChannelTypeOK
  <2>2. EPollIndexInv'
    BY Zenon DEF EPoll!TypeOK, EPoll!ChannelTypeOK, EPollIndexInv
  <2>3. EPollKernelInv'
    BY Zenon DEF EPollKernelInv
  <2>4. EPollOwnerInv'
    BY Zenon DEF EPoll!TypeOK, EPoll!ChannelTypeOK, EPollOwnerInv
  <2> QED
    BY <2>1, <2>2, <2>3, <2>4, Zenon
<1>5. CASE UNCHANGED EPoll!vars
  BY <1>5, Zenon DEF EPoll!vars, EPoll!cvars, EPoll!evars, EPollIInv, EPoll!TypeOK,
     EPoll!ChannelTypeOK, EPollIndexInv, EPollKernelInv, EPollOwnerInv
<1> QED
  BY <1>1, <1>2, <1>3, <1>4, <1>5, Zenon DEF EPoll!Next

(* The initial state satisfies IInv.                                        *)
LEMMA EPollInitInv == ASSUME NoChannel \notin Chans, EPoll!Init PROVE EPollIInv
<1> USE DEF EPoll!kNew, EPoll!kAdded, EPoll!kDeleted, EPoll!Init, EPoll!ChannelInit,
        EPoll!Nothing
<1>0. \A c \in Chans : FdOf[c] \in EPoll!Fds
  BY Zenon DEF EPoll!Fds
<1>1. EPoll!TypeOK
  BY Zenon DEF EPoll!TypeOK, EPoll!ChannelTypeOK
<1>2. EPollIndexInv
  BY <1>0, Zenon DEF EPollIndexInv
<1>3. EPollKernelInv
  BY <1>0 DEF EPollKernelInv
<1>4. EPollOwnerInv
  BY Zenon DEF EPollOwnerInv
<1> QED
  BY <1>1, <1>2, <1>3, <1>4, Zenon DEF EPollIInv

(* IInv holds of every reachable state.                                     *)
LEMMA EPollInvariant == ASSUME NoChannel \notin Chans PROVE EPoll!Spec => []EPollIInv
<1>1. EPoll!Init => EPollIInv
  BY EPollInitInv, Zenon
<1>2. EPollIInv /\ [EPoll!Next]_EPoll!vars => EPollIInv'
  BY EPollNextInv, Zenon
<1> QED
  BY <1>1, <1>2, PTL DEF EPoll!Spec

(* No epoll_ctl of EPollPoller::update() fails, whatever channels there are *)
(* and however they share descriptors over time.                            *)
LEMMA EPollCtlSucceeds == ASSUME NoChannel \notin Chans PROVE EPoll!Spec => []EPoll!EpollCtlSucceeds
<1>1. EPollIInv => EPoll!EpollCtlSucceeds
  BY Zenon DEF EPollIInv, EPoll!EpollCtlSucceeds
<1> QED
  BY <1>1, EPollInvariant, PTL

(* The kernel only holds pointers to live channels, each the one channels_  *)
(* has under that descriptor: the assertions of fillActiveChannels() hold.  *)
LEMMA EPollNoStale == ASSUME NoChannel \notin Chans PROVE EPoll!Spec => []EPoll!NoStalePointer
<1>1. EPollIInv => EPoll!NoStalePointer
  <2> SUFFICES ASSUME EPollIInv PROVE EPoll!NoStalePointer
    BY Zenon
  <2>1. ASSUME NEW fd \in EPoll!Fds, epoll[fd].ptr # NoChannel PROVE channels_[fd] = epoll[fd].ptr
    <3>1. PICK c \in Chans : c = epoll[fd].ptr
      BY <2>1, Zenon DEF EPollIInv, EPoll!TypeOK
    <3>2. FdOf[c] = fd /\ index_[c] = EPoll!kAdded
      BY <2>1, <3>1, Zenon DEF EPollIInv, EPollKernelInv
    <3> QED
      BY <3>1, <3>2 DEF EPollIInv, EPollIndexInv, EPoll!kNew, EPoll!kAdded
  <2> QED
    BY <2>1, Zenon DEF EPoll!NoStalePointer, EPollIInv, EPollIndexInv
<1> QED
  BY <1>1, EPollInvariant, PTL

-----------------------------------------------------------------------------
(* What the channels ask for, and under IInv what the kernel watches.       *)
EPollAsked == [c \in Chans |-> IF life[c] = "added" THEN events_[c] ELSE {}]

(* The mapped variables of Poller in terms of the life of the channels.     *)
EPollMapped ==
    /\ {c \in Chans : channels_[FdOf[c]] = c} = EPoll!Added
    /\ [c \in Chans |-> IF epoll[FdOf[c]].ptr = c THEN epoll[FdOf[c]].events ELSE {}] = EPollAsked

(* Under IInv the channels in channels_ are those added, and the kernel     *)
(* watches what they ask for.                                               *)
LEMMA EPollMapping == ASSUME NoChannel \notin Chans PROVE EPollIInv => EPollMapped
<1> SUFFICES ASSUME EPollIInv PROVE EPollMapped
  BY Zenon
<1>1. {c \in Chans : channels_[FdOf[c]] = c} = EPoll!Added
  BY DEF EPollIInv, EPollIndexInv, EPoll!Added
<1>2. ASSUME NEW c \in Chans
      PROVE  (IF epoll[FdOf[c]].ptr = c THEN epoll[FdOf[c]].events ELSE {})
               = (IF life[c] = "added" THEN events_[c] ELSE {})
  <2>0. FdOf[c] \in EPoll!Fds /\ c # NoChannel
    BY Zenon DEF EPoll!Fds
  <2>1. CASE index_[c] = EPoll!kAdded
    BY <2>1 DEF EPollIInv, EPollKernelInv, EPollIndexInv, EPoll!kNew, EPoll!kAdded
  <2>2. CASE index_[c] # EPoll!kAdded
    <3>1. epoll[FdOf[c]].ptr # c
      BY <2>0, <2>2, Zenon DEF EPollIInv, EPollKernelInv
    <3>2. life[c] = "added" => events_[c] = {}
      BY <2>2 DEF EPollIInv, EPoll!TypeOK, EPollIndexInv
    <3> QED
      BY <3>1, <3>2, Zenon
  <2> QED
    BY <2>1, <2>2, Zenon
<1> QED
  BY <1>1, <1>2, Zenon DEF EPollMapped, EPollAsked

(* EPollPoller implements Poller: at every step the kernel watches exactly  *)
(* what the registered channels last asked for.                             *)
LEMMA EPollImplements == ASSUME NoChannel \notin Chans PROVE EPoll!Spec => EPoll!ImplementsPoller
<1>1. EPoll!Init => EPoll!P!Init
  <2> SUFFICES ASSUME EPoll!Init PROVE EPoll!P!Init
    BY Zenon
  <2>1. EPoll!Added = {} /\ EPollAsked = [c \in Chans |-> {}]
    BY Zenon DEF EPoll!Init, EPoll!ChannelInit, EPoll!Added, EPollAsked
  <2> QED
    BY <2>1, EPollInitInv, EPollMapping, Zenon DEF EPoll!P!Init, EPollAsked, EPollMapped
<1>2. EPollIInv' => EPollMapped'
  BY EPollMapping, PTL
<1>3. EPollIInv /\ [EPoll!Next]_EPoll!vars => [EPoll!P!Next]_EPoll!P!pvars
  <2> SUFFICES ASSUME EPollIInv, [EPoll!Next]_EPoll!vars PROVE [EPoll!P!Next]_EPoll!P!pvars
    BY Zenon
  <2>0. EPollMapped /\ EPollMapped'
    BY EPollNextInv, EPollMapping, <1>2, Zenon
  <2>1. ASSUME EPoll!Added' = EPoll!Added, EPollAsked' = EPollAsked PROVE UNCHANGED EPoll!P!pvars
    BY <2>0, <2>1, Zenon DEF EPollMapped, EPoll!P!pvars, EPollAsked
  <2>2. ASSUME NEW c \in Chans, EPoll!NewChannel(c) PROVE UNCHANGED EPoll!P!pvars
    <3>1. EPoll!Added' = EPoll!Added /\ EPollAsked' = EPollAsked
      BY <2>2, Zenon DEF EPoll!NewChannel, EPoll!MakeChannel, EPoll!Added, EPollAsked,
         EPollIInv,
         EPoll!TypeOK, EPoll!ChannelTypeOK
    <3> QED
      BY <2>1, <3>1, Zenon
  <2>3. ASSUME NEW c \in Chans, NEW ev \in EPoll!Requests(c), EPoll!UpdateChannel(c, ev) PROVE EPoll!P!Next
    <3>1. ev \in SUBSET EPoll!Events
      BY <2>3, EPollUpdateSucceeds, Zenon
    <3>2. EPoll!Added' = EPoll!Added \cup {c} /\ EPollAsked' = [EPollAsked EXCEPT ![c] = ev]
      BY <2>3, ZenonT(40) DEF EPoll!UpdateChannel, EPoll!Update, EPoll!Added, EPollAsked,
         EPollIInv,
         EPoll!TypeOK, EPoll!ChannelTypeOK
    <3>3. EPoll!P!UpdateChannel(c, ev)
      BY <2>0, <3>2, Zenon DEF EPollMapped, EPollAsked, EPoll!P!UpdateChannel
    <3> QED
      BY <3>1, <3>3, Zenon DEF EPoll!P!Next
  <2>4. ASSUME NEW c \in Chans, EPoll!RemoveChannel(c) PROVE EPoll!P!Next
    <3>1. c \in EPoll!Added /\ EPollAsked[c] = {}
      BY <2>4, Zenon DEF EPoll!RemoveChannel, EPoll!Remove, EPoll!isNoneEvent, EPoll!Added,
         EPollAsked
    <3>2. EPoll!Added' = EPoll!Added \ {c} /\ EPollAsked' = EPollAsked
      BY <2>4, Zenon DEF EPoll!RemoveChannel, EPoll!Remove, EPoll!isNoneEvent, EPoll!Added,
         EPollAsked,
         EPollIInv, EPoll!TypeOK, EPoll!ChannelTypeOK
    <3>3. EPoll!P!RemoveChannel(c)
      BY <2>0, <3>1, <3>2, Zenon DEF EPollMapped, EPollAsked, EPoll!P!RemoveChannel
    <3> QED
      BY <3>3, Zenon DEF EPoll!P!Next
  <2>5. ASSUME NEW c \in Chans, EPoll!DeleteChannel(c) PROVE UNCHANGED EPoll!P!pvars
    <3>1. EPoll!Added' = EPoll!Added /\ EPollAsked' = EPollAsked
      BY <2>5, Zenon DEF EPoll!DeleteChannel, EPoll!DestroyChannel, EPoll!Added, EPollAsked,
         EPollIInv,
         EPoll!TypeOK, EPoll!ChannelTypeOK
    <3> QED
      BY <2>1, <3>1, Zenon
  <2>6. ASSUME UNCHANGED EPoll!vars PROVE UNCHANGED EPoll!P!pvars
    BY <2>6, <2>1, Zenon DEF EPoll!vars, EPoll!cvars, EPoll!Added, EPollAsked
  <2> QED
    BY <2>2, <2>3, <2>4, <2>5, <2>6, Zenon DEF EPoll!Next
<1> QED
  BY <1>1, <1>3, EPollInvariant, PTL DEF EPoll!Spec, EPoll!ImplementsPoller, EPoll!P!Spec

-----------------------------------------------------------------------------
(* PollPoller.                                                              *)

PollFd == [fd : Int, events : SUBSET Poll!Events]

PollTypeOK ==
    /\ Poll!ChannelTypeOK
    /\ pollIndex \in [Chans -> Nat]
    /\ pollChannels \in [Poll!Fds -> Chans \cup {NoChannel}]
    /\ pollfds_ \in Seq(PollFd)

(* channels_ holds the channels that were added, each under its descriptor. *)
PollRegisteredInv ==
    /\ \A c \in Chans : pollLife[c] = "added" <=> pollChannels[FdOf[c]] = c
    /\ \A fd \in Poll!Fds : pollChannels[fd] # NoChannel => FdOf[pollChannels[fd]] = fd
    /\ \A c \in Chans : pollLife[c] = "made" => pollIndex[c] = 0

(* A descriptor belongs to one channel at a time.                           *)
PollOwnerInv ==
    \A c, d \in Chans :
        FdOf[c] = FdOf[d] /\ pollLife[c] \in {"made", "added"} /\ pollLife[d] \in {"made", "added"} => c = d

(* The entry at position i is that of channel c.  It is ignored only if c   *)
(* asks for nothing.                                                        *)
EntryOf(c, i) ==
    /\ pollfds_[i].fd = FdOf[c] \/ (pollfds_[i].fd = Poll!Ignored(FdOf[c]) /\ pollEvents[c] = {})
    /\ pollfds_[i].events = pollEvents[c]

(* index_ maps the added channels onto the positions of pollfds_.           *)
PositionInv ==
    /\ \A c \in Chans : pollLife[c] = "added" =>
          pollIndex[c] \in 1 .. Len(pollfds_) /\ EntryOf(c, pollIndex[c])
    /\ \A i \in 1 .. Len(pollfds_) : \E c \in Chans : pollLife[c] = "added" /\ pollIndex[c] = i

Occupied == {fd \in Poll!Fds : pollChannels[fd] # NoChannel}

SizeInv == IsFiniteSet(Occupied) /\ Len(pollfds_) = Cardinality(Occupied)

PollIInv == PollTypeOK /\ PollRegisteredInv /\ PollOwnerInv /\ PositionInv /\ SizeInv

Assumptions == Poll!FdAssumption /\ NoChannel \notin Chans

-----------------------------------------------------------------------------
(* What pop_back() leaves.                                                  *)
LEMMA FrontOfSeq ==
    ASSUME NEW S, NEW s \in Seq(S), Len(s) > 0
    PROVE  /\ Poll!Front(s) \in Seq(S)
           /\ Len(Poll!Front(s)) = Len(s) - 1
           /\ \A j \in 1 .. Len(s) - 1 : Poll!Front(s)[j] = s[j]
<1>1. Len(s) - 1 \in Int /\ \A i \in 1 .. Len(s) - 1 : s[i] \in S
  OBVIOUS
<1>2. /\ SubSeq(s, 1, Len(s) - 1) \in Seq(S)
      /\ Len(SubSeq(s, 1, Len(s) - 1)) = IF 1 <= Len(s) - 1 THEN Len(s) - 1 - 1 + 1 ELSE 0
  BY <1>1, SubSeqProperties
<1>3. \A j \in 1 .. Len(s) - 1 : SubSeq(s, 1, Len(s) - 1)[j] = s[j]
  BY <1>1
<1>4. Len(SubSeq(s, 1, Len(s) - 1)) = Len(s) - 1
  <2> DEFINE m == Len(s)
             l == Len(SubSeq(s, 1, Len(s) - 1))
  <2>1. m \in Nat /\ m > 0 /\ l = IF 1 <= m - 1 THEN m - 1 - 1 + 1 ELSE 0
    BY <1>2
  <2> HIDE DEF m, l
  <2>2. l = m - 1
    BY <2>1
  <2> QED
    BY <2>2, Zenon DEF m, l
<1> QED
  BY <1>2, <1>3, <1>4, Zenon DEF Poll!Front

(* -fd - 1 is negative for a descriptor, and undone by Watched.             *)
LEMMA WatchedIgnored ==
    ASSUME NEW fd \in Nat
    PROVE  Poll!Watched(fd) = fd /\ Poll!Watched(Poll!Ignored(fd)) = fd /\ Poll!Ignored(fd) # fd /\ Poll!Ignored(fd) < 0
  BY DEF Poll!Watched, Poll!Ignored

(* Two added channels do not share a position.                              *)
LEMMA OnePosition ==
    ASSUME Assumptions, PollIInv, NEW c \in Chans, NEW d \in Chans,
           pollLife[c] = "added", pollLife[d] = "added", pollIndex[c] = pollIndex[d]
    PROVE  c = d
<1>1. EntryOf(c, pollIndex[c]) /\ EntryOf(d, pollIndex[c])
  BY Zenon DEF PollIInv, PositionInv
<1>2. FdOf[c] \in Nat /\ FdOf[d] \in Nat
  BY Zenon DEF Assumptions, Poll!FdAssumption
<1>3. FdOf[c] = FdOf[d]
  BY <1>1, <1>2, WatchedIgnored, Zenon DEF EntryOf
<1> QED
  BY <1>3, Zenon DEF PollIInv, PollOwnerInv

-----------------------------------------------------------------------------
(* updateChannel() of a new channel appends its entry.                      *)
LEMMA PollAddInv ==
    ASSUME Assumptions, PollIInv, NEW c \in Chans, NEW ev, Poll!UpdateChannel(c, ev), pollIndex[c] = 0
    PROVE  PollIInv'
<1> DEFINE n == Len(pollfds_)
<1>0. FdOf[c] \in Poll!Fds /\ FdOf[c] \in Nat /\ \A d \in Chans : FdOf[d] \in Poll!Fds /\ FdOf[d] \in Nat
  BY Zenon DEF Poll!Fds, Assumptions, Poll!FdAssumption
<1>1. /\ pollLife[c] \in {"made", "added"}
      /\ pollEvents' = [pollEvents EXCEPT ![c] = ev]
      /\ pollLife' = [pollLife EXCEPT ![c] = "added"]
      /\ pollfds_' = Append(pollfds_, [fd |-> FdOf[c], events |-> ev])
      /\ pollIndex' = [pollIndex EXCEPT ![c] = n + 1]
      /\ pollChannels' = [pollChannels EXCEPT ![FdOf[c]] = c]
  BY Zenon DEF Poll!UpdateChannel, Poll!Update
<1>2. ev \in SUBSET Poll!Events
  BY DEF Poll!UpdateChannel, Poll!Update, Poll!Requests, PollIInv, PollTypeOK,
     Poll!ChannelTypeOK, Poll!Events
<1>3. pollfds_ \in Seq(PollFd) /\ [fd |-> FdOf[c], events |-> ev] \in PollFd /\ n \in Nat
  BY <1>0, <1>2 DEF PollIInv, PollTypeOK, PollFd
<1>4. /\ pollfds_' \in Seq(PollFd) /\ Len(pollfds_') = n + 1
      /\ pollfds_'[n + 1] = [fd |-> FdOf[c], events |-> ev]
      /\ \A i \in 1 .. n : pollfds_'[i] = pollfds_[i]
  BY <1>1, <1>3
<1>5. pollLife[c] = "made"
  BY <1>1 DEF PollIInv, PositionInv
<1>6. \A d \in Chans : d # c /\ FdOf[d] = FdOf[c] => pollLife[d] # "added"
  BY <1>5, Zenon DEF PollIInv, PollOwnerInv
<1>7. PollTypeOK'
  BY <1>0, <1>1, <1>2, <1>3, <1>4 DEF PollIInv, PollTypeOK, Poll!ChannelTypeOK
<1>8. PollRegisteredInv'
  BY <1>0, <1>1, <1>6, ZenonT(40) DEF PollIInv, PollTypeOK, Poll!ChannelTypeOK,
     PollRegisteredInv
<1>9. PollOwnerInv'
  BY <1>1, Zenon DEF PollIInv, PollTypeOK, Poll!ChannelTypeOK, PollOwnerInv
<1>10. PositionInv'
  <2>1. ASSUME NEW d \in Chans, pollLife'[d] = "added"
        PROVE  pollIndex'[d] \in 1 .. n + 1 /\ EntryOf(d, pollIndex[d])'
    <3>1. CASE d = c
      <4>1. pollIndex'[c] = n + 1 /\ pollEvents'[c] = ev
        BY <1>1, Zenon DEF PollIInv, PollTypeOK, Poll!ChannelTypeOK
      <4>2. pollfds_'[n + 1].fd = FdOf[c] /\ pollfds_'[n + 1].events = ev
        BY <1>4
      <4> QED
        BY <3>1, <4>1, <4>2, <1>3 DEF EntryOf
    <3>2. CASE d # c
      <4>1. pollLife[d] = "added" /\ pollIndex'[d] = pollIndex[d] /\ pollEvents'[d] = pollEvents[d]
        BY <1>1, <2>1, <3>2, Zenon DEF PollIInv, PollTypeOK, Poll!ChannelTypeOK
      <4>2. pollIndex[d] \in 1 .. n /\ EntryOf(d, pollIndex[d])
        BY <4>1, Zenon DEF PollIInv, PositionInv
      <4>3. pollfds_'[pollIndex'[d]] = pollfds_[pollIndex[d]]
        BY <1>4, <4>1, <4>2
      <4> QED
        BY <4>1, <4>2, <4>3, <1>3 DEF EntryOf
    <3> QED
      BY <3>1, <3>2, Zenon
  <2>2. ASSUME NEW i \in 1 .. n + 1 PROVE \E d \in Chans : pollLife'[d] = "added" /\ pollIndex'[d] = i
    <3>1. CASE i = n + 1
      BY <1>1, <3>1, Zenon DEF PollIInv, PollTypeOK, Poll!ChannelTypeOK
    <3>2. CASE i \in 1 .. n
      <4>1. PICK d \in Chans : pollLife[d] = "added" /\ pollIndex[d] = i
        BY <3>2, Zenon DEF PollIInv, PositionInv
      <4> QED
        BY <4>1, <1>1, <1>5, Zenon DEF PollIInv, PollTypeOK, Poll!ChannelTypeOK
    <3> QED
      BY <3>1, <3>2, <1>3
  <2> QED
    BY <2>1, <2>2, <1>4, Zenon DEF PositionInv
<1>11. SizeInv'
  <2>1. pollChannels[FdOf[c]] = NoChannel
    <3> SUFFICES ASSUME pollChannels[FdOf[c]] # NoChannel PROVE FALSE
      BY Zenon
    <3>1. PICK d \in Chans : d = pollChannels[FdOf[c]]
      BY <1>0, Zenon DEF PollIInv, PollTypeOK
    <3>2. FdOf[d] = FdOf[c] /\ pollLife[d] = "added"
      BY <1>0, <3>1, Zenon DEF PollIInv, PollRegisteredInv
    <3> QED
      BY <3>2, <1>5, <1>6, Zenon
  <2>2. Occupied' = Occupied \cup {FdOf[c]} /\ FdOf[c] \notin Occupied
    BY <1>0, <1>1, <2>1, Zenon DEF Occupied, PollIInv, PollTypeOK, Assumptions
  <2>3. /\ IsFiniteSet(Occupied \cup {FdOf[c]})
        /\ Cardinality(Occupied \cup {FdOf[c]}) = Cardinality(Occupied) + 1
    BY <2>2, FS_AddElement, Zenon DEF PollIInv, SizeInv
  <2> QED
    BY <2>2, <2>3, <1>4, Zenon DEF PollIInv, SizeInv
<1> QED
  BY <1>7, <1>8, <1>9, <1>10, <1>11, Zenon DEF PollIInv

(* updateChannel() of a channel in the vector rewrites its entry.           *)
LEMMA ModifyInv ==
    ASSUME Assumptions, PollIInv, NEW c \in Chans, NEW ev, Poll!UpdateChannel(c, ev), pollIndex[c] # 0
    PROVE  PollIInv'
<1> DEFINE n == Len(pollfds_)
           k == pollIndex[c]
           entry == [fd |-> IF ev = {} THEN Poll!Ignored(FdOf[c]) ELSE FdOf[c], events |-> ev]
<1>0. FdOf[c] \in Poll!Fds /\ \A d \in Chans : FdOf[d] \in Poll!Fds /\ FdOf[d] \in Nat
  BY Zenon DEF Poll!Fds, Assumptions, Poll!FdAssumption
<1>1. /\ pollLife[c] \in {"made", "added"}
      /\ pollEvents' = [pollEvents EXCEPT ![c] = ev]
      /\ pollLife' = [pollLife EXCEPT ![c] = "added"]
      /\ pollfds_' = [pollfds_ EXCEPT ![k] = entry]
      /\ pollIndex' = pollIndex /\ pollChannels' = pollChannels
  BY Zenon DEF Poll!UpdateChannel, Poll!Update
<1>2. ev \in SUBSET Poll!Events
  BY DEF Poll!UpdateChannel, Poll!Update, Poll!Requests, PollIInv, PollTypeOK,
     Poll!ChannelTypeOK, Poll!Events
<1>3. pollLife[c] = "added" /\ pollLife' = pollLife
  BY <1>1 DEF PollIInv, PollRegisteredInv, PollTypeOK, Poll!ChannelTypeOK
<1>4. k \in 1 .. n /\ n \in Nat /\ pollfds_ \in Seq(PollFd)
  BY <1>3 DEF PollIInv, PositionInv, PollTypeOK
<1>5. entry \in PollFd
  BY <1>0, <1>2 DEF PollFd, Poll!Ignored
<1>6. /\ pollfds_' \in Seq(PollFd) /\ Len(pollfds_') = n
      /\ pollfds_'[k] = entry
      /\ \A i \in 1 .. n : i # k => pollfds_'[i] = pollfds_[i]
  BY <1>1, <1>4, <1>5
<1>7. PollTypeOK'
  BY <1>1, <1>2, <1>6, Zenon DEF PollIInv, PollTypeOK, Poll!ChannelTypeOK
<1>8. PollRegisteredInv' /\ PollOwnerInv'
  BY <1>1, <1>3, Zenon DEF PollIInv, PollRegisteredInv, PollOwnerInv
<1>9. PositionInv'
  <2>1. ASSUME NEW d \in Chans, pollLife[d] = "added"
        PROVE  pollIndex[d] \in 1 .. n /\ EntryOf(d, pollIndex[d])'
    <3>1. pollIndex[d] \in 1 .. n /\ EntryOf(d, pollIndex[d])
      BY <2>1, Zenon DEF PollIInv, PositionInv
    <3>2. CASE d = c
      <4>1. pollEvents'[c] = ev
        BY <1>1, Zenon DEF PollIInv, PollTypeOK, Poll!ChannelTypeOK
      <4>2. pollfds_'[k].fd = (IF ev = {} THEN Poll!Ignored(FdOf[c]) ELSE FdOf[c]) /\ pollfds_'[k].events = ev
        BY <1>6
      <4> QED
        BY <3>1, <3>2, <4>1, <4>2, <1>1, Zenon DEF EntryOf
    <3>3. CASE d # c
      <4>1. pollIndex[d] # k
        BY <2>1, <3>3, <1>3, OnePosition, Zenon
      <4>2. pollfds_'[pollIndex'[d]] = pollfds_[pollIndex[d]] /\ pollEvents'[d] = pollEvents[d]
        BY <1>1, <1>6, <3>1, <3>3, <4>1, Zenon DEF PollIInv, PollTypeOK, Poll!ChannelTypeOK
      <4> QED
        BY <3>1, <4>2, Zenon DEF EntryOf
    <3> QED
      BY <3>2, <3>3, Zenon
  <2> QED
    BY <2>1, <1>1, <1>3, <1>6 DEF PollIInv, PositionInv
<1>10. SizeInv'
  BY <1>1, <1>6, Zenon DEF PollIInv, SizeInv, Occupied
<1> QED
  BY <1>7, <1>8, <1>9, <1>10, Zenon DEF PollIInv

-----------------------------------------------------------------------------
(* removeChannel() fills the gap with the last entry.                       *)
LEMMA RemoveInv ==
    ASSUME Assumptions, PollIInv, NEW c \in Chans, Poll!RemoveChannel(c)
    PROVE  PollIInv'
<1> DEFINE n == Len(pollfds_)
           k == pollIndex[c]
<1>0. FdOf[c] \in Poll!Fds /\ \A d \in Chans : FdOf[d] \in Poll!Fds /\ FdOf[d] \in Nat
  BY Zenon DEF Poll!Fds, Assumptions, Poll!FdAssumption
<1>1. /\ pollLife[c] = "added" /\ pollLife' = [pollLife EXCEPT ![c] = "removed"] /\ pollEvents' = pollEvents
      /\ pollChannels' = [pollChannels EXCEPT ![FdOf[c]] = NoChannel]
  BY Zenon DEF Poll!RemoveChannel, Poll!Remove
<1>2. k \in 1 .. n /\ n \in Nat /\ n > 0 /\ pollfds_ \in Seq(PollFd)
  BY <1>1 DEF PollIInv, PositionInv, PollTypeOK
<1>3. PICK e \in Chans : pollLife[e] = "added" /\ pollIndex[e] = n
  BY <1>2 DEF PollIInv, PositionInv
(* The channel of the last entry takes position k; it may be c itself.      *)
<1>4. /\ pollfds_' \in Seq(PollFd) /\ Len(pollfds_') = n - 1
      /\ \A j \in 1 .. n - 1 : pollfds_'[j] = IF j = k THEN pollfds_[n] ELSE pollfds_[j]
      /\ pollIndex' = [pollIndex EXCEPT ![e] = k]
  <2>1. CASE k = n
    <3>1. e = c
      BY <1>1, <1>3, <2>1, OnePosition, Zenon
    <3>2. pollfds_' = Poll!Front(pollfds_) /\ pollIndex' = pollIndex
      BY <2>1, Zenon DEF Poll!RemoveChannel
    <3>3. pollIndex = [pollIndex EXCEPT ![e] = k]
      BY <2>1, <1>3, Zenon DEF PollIInv, PollTypeOK
    <3> QED
      BY <1>2, <2>1, <3>2, <3>3, FrontOfSeq
  <2>2. CASE k # n
    <3> DEFINE moved == [pollfds_ EXCEPT ![k] = pollfds_[n]]
    <3>1. EntryOf(e, n) /\ FdOf[e] \in Nat
      BY <1>0, <1>3, Zenon DEF PollIInv, PositionInv
    <3>2. Poll!Watched(pollfds_[n].fd) = FdOf[e]
      BY <3>1, WatchedIgnored, Zenon DEF EntryOf
    <3>3. pollChannels[FdOf[e]] = e
      BY <1>3, Zenon DEF PollIInv, PollRegisteredInv
    <3>4. pollfds_' = Poll!Front(moved) /\ pollIndex' = [pollIndex EXCEPT ![e] = k]
      BY <2>2, <3>2, <3>3, Zenon DEF Poll!RemoveChannel
    <3>5. moved \in Seq(PollFd) /\ Len(moved) = n /\ \A j \in 1 .. n :
             moved[j] = IF j = k THEN pollfds_[n] ELSE pollfds_[j]
      BY <1>2
    <3> HIDE DEF moved
    <3>6. /\ Poll!Front(moved) \in Seq(PollFd) /\ Len(Poll!Front(moved)) = n - 1
          /\ \A j \in 1 .. n - 1 : Poll!Front(moved)[j] = moved[j]
      BY <1>2, <3>5, FrontOfSeq, Zenon
    <3> QED
      BY <1>2, <3>4, <3>5, <3>6
  <2> QED
    BY <2>1, <2>2, Zenon
<1>5. \A d \in Chans : d # c => pollLife'[d] = pollLife[d]
  BY <1>1, Zenon DEF PollIInv, PollTypeOK, Poll!ChannelTypeOK
<1>6. pollLife'[c] = "removed"
  BY <1>1, Zenon DEF PollIInv, PollTypeOK, Poll!ChannelTypeOK
<1>7. \A d \in Chans : pollIndex'[d] = IF d = e THEN k ELSE pollIndex[d]
  BY <1>3, <1>4, Zenon DEF PollIInv, PollTypeOK
<1>8. PollTypeOK'
  BY <1>0, <1>1, <1>2, <1>4, Zenon DEF PollIInv, PollTypeOK, Poll!ChannelTypeOK
<1>9. PollRegisteredInv'
  <2>1. \A d \in Chans : d # c /\ FdOf[d] = FdOf[c] => pollLife[d] # "added"
    BY <1>1, Zenon DEF PollIInv, PollOwnerInv
  <2>2. \A d \in Chans : pollLife'[d] = "added" <=> pollChannels'[FdOf[d]] = d
    BY <1>0, <1>1, <1>5, <1>6, <2>1, ZenonT(40) DEF PollIInv, PollTypeOK, PollRegisteredInv,
       Assumptions
  <2>3. \A fd \in Poll!Fds : pollChannels'[fd] # NoChannel => FdOf[pollChannels'[fd]] = fd
    BY <1>0, <1>1, Zenon DEF PollIInv, PollTypeOK, PollRegisteredInv
  <2>4. \A d \in Chans : pollLife'[d] = "made" => pollIndex'[d] = 0
    BY <1>3, <1>5, <1>6, <1>7, ZenonT(40) DEF PollIInv, PollRegisteredInv
  <2> QED
    BY <2>2, <2>3, <2>4, Zenon DEF PollRegisteredInv
<1>10. PollOwnerInv'
  BY <1>5, <1>6, Zenon DEF PollIInv, PollOwnerInv
<1>11. PositionInv'
  <2>1. ASSUME NEW d \in Chans, pollLife'[d] = "added"
        PROVE  pollIndex'[d] \in 1 .. n - 1 /\ EntryOf(d, pollIndex[d])'
    <3>1. d # c /\ pollLife[d] = "added"
      BY <1>5, <1>6, <2>1, Zenon
    <3>2. pollIndex[d] # k /\ pollIndex[d] \in 1 .. n /\ EntryOf(d, pollIndex[d])
      BY <1>1, <3>1, OnePosition, Zenon DEF PollIInv, PositionInv
    <3>3. CASE d = e
      <4>1. pollIndex'[d] = k /\ k \in 1 .. n - 1 /\ pollIndex[d] = n
        BY <1>2, <1>3, <1>7, <3>2, <3>3, SMTT(30)
      <4>2. pollfds_'[pollIndex'[d]] = pollfds_[pollIndex[d]]
        BY <1>4, <4>1, Zenon
      <4> QED
        BY <1>1, <3>2, <4>1, <4>2, Zenon DEF EntryOf
    <3>4. CASE d # e
      <4>1. pollIndex[d] # n
        BY <1>3, <3>1, <3>4, OnePosition, Zenon
      <4>2. pollIndex'[d] = pollIndex[d] /\ pollIndex[d] \in 1 .. n - 1
        BY <1>2, <1>7, <3>2, <3>4, <4>1, SMTT(30)
      <4>3. pollfds_'[pollIndex'[d]] = pollfds_[pollIndex[d]]
        BY <1>4, <3>2, <4>2, Zenon
      <4> QED
        BY <1>1, <3>2, <4>2, <4>3, Zenon DEF EntryOf
    <3> QED
      BY <3>3, <3>4, Zenon
  <2>2. ASSUME NEW i \in 1 .. n - 1 PROVE \E d \in Chans : pollLife'[d] = "added" /\ pollIndex'[d] = i
    <3>1. CASE i = k
      <4>1. e # c
        BY <1>2, <1>3, <3>1, <2>2
      <4> QED
        BY <1>3, <1>5, <1>7, <3>1, <4>1, Zenon
    <3>2. CASE i # k
      <4>0. i \in 1 .. n
        BY <1>2, <2>2
      <4>1. PICK d \in Chans : pollLife[d] = "added" /\ pollIndex[d] = i
        BY <4>0, Zenon DEF PollIInv, PositionInv
      <4>2. d # c /\ d # e
        BY <1>2, <1>3, <2>2, <3>2, <4>1
      <4> QED
        BY <1>5, <1>7, <4>1, <4>2, Zenon
    <3> QED
      BY <3>1, <3>2, Zenon
  <2> QED
    BY <2>1, <2>2, <1>4, Zenon DEF PositionInv
<1>12. SizeInv'
  <2>1. Occupied' = Occupied \ {FdOf[c]} /\ FdOf[c] \in Occupied
    BY <1>0, <1>1, Zenon DEF Occupied, PollIInv, PollTypeOK, PollRegisteredInv, Assumptions
  <2>2. /\ IsFiniteSet(Occupied \ {FdOf[c]})
        /\ Cardinality(Occupied \ {FdOf[c]}) = Cardinality(Occupied) - 1
    BY <2>1, FS_RemoveElement, Zenon DEF PollIInv, SizeInv
  <2> QED
    BY <2>1, <2>2, <1>4, Zenon DEF PollIInv, SizeInv
<1> QED
  BY <1>8, <1>9, <1>10, <1>11, <1>12, Zenon DEF PollIInv

-----------------------------------------------------------------------------
(* The initial state satisfies IInv.                                        *)
LEMMA PollInitInv == ASSUME Assumptions, Poll!Init PROVE PollIInv
<1> USE DEF Poll!Init, Poll!ChannelInit
<1>0. \A c \in Chans : FdOf[c] \in Poll!Fds
  BY Zenon DEF Poll!Fds
<1>1. PollTypeOK
  BY DEF PollTypeOK, Poll!ChannelTypeOK
<1>2. PollRegisteredInv
  BY <1>0, Zenon DEF PollRegisteredInv, Assumptions
<1>3. PollOwnerInv /\ PositionInv
  BY DEF PollOwnerInv, PositionInv
<1>4. Occupied = {}
  BY Zenon DEF Occupied
<1>5. SizeInv
  BY <1>4, FS_EmptySet, Zenon DEF SizeInv
<1> QED
  BY <1>1, <1>2, <1>3, <1>5, Zenon DEF PollIInv

(* Every request of a channel keeps IInv.                                   *)
LEMMA PollNextInv == ASSUME Assumptions, PollIInv, [Poll!Next]_Poll!vars PROVE PollIInv'
<1>1. ASSUME NEW c \in Chans, Poll!NewChannel(c) PROVE PollIInv'
  <2>1. /\ pollLife[c] = "dead" /\ pollLife' = [pollLife EXCEPT ![c] = "made"]
        /\ \A d \in Chans : FdOf[d] = FdOf[c] => pollLife[d] \in {"dead", "removed"}
        /\ pollEvents' = [pollEvents EXCEPT ![c] = {}] /\ pollIndex' = [pollIndex EXCEPT ![c] = 0]
        /\ pollChannels' = pollChannels /\ pollfds_' = pollfds_
    BY <1>1, Zenon DEF Poll!NewChannel, Poll!MakeChannel
  <2>2. \A d \in Chans : d # c =>
           pollLife'[d] = pollLife[d] /\ pollEvents'[d] = pollEvents[d] /\ pollIndex'[d] = pollIndex[d]
    BY <2>1, Zenon DEF PollIInv, PollTypeOK, Poll!ChannelTypeOK
  <2>3. pollLife'[c] = "made" /\ pollIndex'[c] = 0
    BY <2>1, Zenon DEF PollIInv, PollTypeOK, Poll!ChannelTypeOK
  <2>4. PollTypeOK'
    BY <2>1, Zenon DEF PollIInv, PollTypeOK, Poll!ChannelTypeOK
  <2>5. PollRegisteredInv'
    BY <2>1, <2>2, <2>3 DEF PollIInv, PollRegisteredInv
  <2>6. PollOwnerInv'
    BY <2>1, <2>2, <2>3 DEF PollIInv, PollOwnerInv
  <2>7. PositionInv'
    BY <2>1, <2>2, <2>3 DEF PollIInv, PositionInv, EntryOf
  <2>8. SizeInv'
    BY <2>1, Zenon DEF PollIInv, SizeInv, Occupied
  <2> QED
    BY <2>4, <2>5, <2>6, <2>7, <2>8, Zenon DEF PollIInv
<1>2. ASSUME NEW c \in Chans, NEW ev \in Poll!Requests(c), Poll!UpdateChannel(c, ev) PROVE PollIInv'
  BY <1>2, PollAddInv, ModifyInv, Zenon
<1>3. ASSUME NEW c \in Chans, Poll!RemoveChannel(c) PROVE PollIInv'
  BY <1>3, RemoveInv, Zenon
<1>4. ASSUME NEW c \in Chans, Poll!DeleteChannel(c) PROVE PollIInv'
  <2>1. /\ pollLife[c] \in {"made", "removed"} /\ pollLife' = [pollLife EXCEPT ![c] = "dead"]
        /\ pollEvents' = pollEvents /\ pollIndex' = pollIndex
        /\ pollChannels' = pollChannels /\ pollfds_' = pollfds_
    BY <1>4, Zenon DEF Poll!DeleteChannel, Poll!DestroyChannel, Poll!qvars
  <2>2. pollLife'[c] = "dead" /\ \A d \in Chans : d # c => pollLife'[d] = pollLife[d]
    BY <2>1, Zenon DEF PollIInv, PollTypeOK, Poll!ChannelTypeOK
  <2>3. PollTypeOK'
    BY <2>1, Zenon DEF PollIInv, PollTypeOK, Poll!ChannelTypeOK
  <2>4. PollRegisteredInv' /\ PollOwnerInv'
    BY <2>1, <2>2 DEF PollIInv, PollRegisteredInv, PollOwnerInv
  <2>5. PositionInv'
    BY <2>1, <2>2 DEF PollIInv, PositionInv, EntryOf
  <2>6. SizeInv'
    BY <2>1, Zenon DEF PollIInv, SizeInv, Occupied
  <2> QED
    BY <2>3, <2>4, <2>5, <2>6, Zenon DEF PollIInv
<1>5. CASE UNCHANGED Poll!vars
  BY <1>5, Zenon DEF Poll!vars, Poll!cvars, Poll!qvars, PollIInv, PollTypeOK,
     Poll!ChannelTypeOK,
     PollRegisteredInv, PollOwnerInv,
              PositionInv, EntryOf, SizeInv, Occupied
<1> QED
  BY <1>1, <1>2, <1>3, <1>4, <1>5, Zenon DEF Poll!Next

(* IInv holds of every reachable state.                                     *)
LEMMA PollInvariant == ASSUME Assumptions PROVE Poll!Spec => []PollIInv
<1>1. Poll!Init => PollIInv
  BY PollInitInv, Zenon
<1>2. PollIInv /\ [Poll!Next]_Poll!vars => PollIInv'
  BY PollNextInv, Zenon
<1> QED
  BY <1>1, <1>2, PTL DEF Poll!Spec

(* However removals move the entries of pollfds_, index_ of every           *)
(* registered channel is the position of its own entry, and there are no    *)
(* other entries.                                                           *)
LEMMA Positions == ASSUME Assumptions PROVE Poll!Spec => []Poll!IndexIsPosition
<1>1. PollIInv => Poll!IndexIsPosition
  <2> SUFFICES ASSUME PollIInv PROVE Poll!IndexIsPosition
    BY Zenon
  <2>1. Len(pollfds_) = Cardinality({fd \in Poll!Fds : pollChannels[fd] # NoChannel})
    BY Zenon DEF PollIInv, SizeInv, Occupied
  <2>2. ASSUME NEW c \in Poll!Added
        PROVE  /\ pollChannels[FdOf[c]] = c
               /\ pollIndex[c] \in DOMAIN pollfds_
               /\ Poll!Watched(pollfds_[pollIndex[c]].fd) = FdOf[c]
               /\ pollfds_[pollIndex[c]].events = pollEvents[c]
    <3>1. c \in Chans /\ pollLife[c] = "added" /\ FdOf[c] \in Nat
      BY <2>2, Zenon DEF Poll!Added, Assumptions, Poll!FdAssumption
    <3>2. pollIndex[c] \in 1 .. Len(pollfds_) /\ EntryOf(c, pollIndex[c]) /\ pollChannels[FdOf[c]] = c
      BY <3>1, Zenon DEF PollIInv, PositionInv, PollRegisteredInv
    <3>3. DOMAIN pollfds_ = 1 .. Len(pollfds_)
      BY DEF PollIInv, PollTypeOK
    <3> QED
      BY <3>1, <3>2, <3>3, WatchedIgnored, Zenon DEF EntryOf
  <2> QED
    BY <2>1, <2>2, Zenon DEF Poll!IndexIsPosition, Poll!Cardinality, Cardinality
<1> QED
  BY <1>1, PollInvariant, PTL

-----------------------------------------------------------------------------
(* What the channels ask for, and under IInv what poll(2) watches.          *)
PollAsked == [c \in Chans |-> IF pollLife[c] = "added" THEN pollEvents[c] ELSE {}]

(* The mapped variables of Poller in terms of the life of the channels.     *)
PollMapped ==
    /\ {c \in Chans : pollChannels[FdOf[c]] = c} = Poll!Added
    /\ [c \in Chans |-> IF pollChannels[FdOf[c]] = c THEN Poll!WatchedFor(c) ELSE {}] = PollAsked

(* Under IInv poll(2) watches for each channel what the channel asks for:   *)
(* no other entry has its descriptor, and an ignored entry stands for {}.   *)
LEMMA PollMapping == ASSUME Assumptions PROVE PollIInv => PollMapped
<1> SUFFICES ASSUME PollIInv PROVE PollMapped
  BY Zenon
<1>1. {c \in Chans : pollChannels[FdOf[c]] = c} = Poll!Added
  BY Zenon DEF PollIInv, PollRegisteredInv, Poll!Added
<1>2. ASSUME NEW c \in Chans, pollLife[c] = "added" PROVE Poll!WatchedFor(c) = pollEvents[c]
  <2> DEFINE J == {j \in DOMAIN pollfds_ : pollfds_[j].fd = FdOf[c]}
  <2>1. pollIndex[c] \in 1 .. Len(pollfds_) /\ EntryOf(c, pollIndex[c])
    BY <1>2, Zenon DEF PollIInv, PositionInv
  <2>2. DOMAIN pollfds_ = 1 .. Len(pollfds_)
    BY DEF PollIInv, PollTypeOK
  <2>3. \A j \in J : j = pollIndex[c]
    <3> SUFFICES ASSUME NEW j \in J PROVE j = pollIndex[c]
      BY Zenon
    <3>1. PICK d \in Chans : pollLife[d] = "added" /\ pollIndex[d] = j
      BY <2>2, Zenon DEF PollIInv, PositionInv
    <3>2. EntryOf(d, j) /\ FdOf[d] \in Nat /\ FdOf[c] \in Nat /\ pollfds_[j].fd = FdOf[c]
      BY <3>1, Zenon DEF PollIInv, PositionInv, Assumptions, Poll!FdAssumption
    <3>3. FdOf[d] = FdOf[c]
      BY <3>2, WatchedIgnored, Zenon DEF EntryOf
    <3> QED
      BY <1>2, <3>1, <3>3, Zenon DEF PollIInv, PollOwnerInv
  <2>4. Poll!WatchedFor(c) = UNION {pollfds_[i].events : i \in J}
    BY Zenon DEF Poll!WatchedFor
  <2>5. CASE pollIndex[c] \in J
    <3>1. J = {pollIndex[c]}
      BY <2>3, <2>5, Zenon
    <3> HIDE DEF J
    <3>2. {pollfds_[i].events : i \in J} = {pollEvents[c]}
      BY <2>1, <3>1, Zenon DEF EntryOf
    <3> QED
      BY <2>4, <3>2, Zenon
  <2>6. CASE pollIndex[c] \notin J
    <3>1. J = {}
      BY <2>3, <2>6, Zenon
    <3>2. pollEvents[c] = {}
      BY <2>1, <2>2, <2>6, Zenon DEF EntryOf
    <3> HIDE DEF J
    <3> QED
      BY <2>4, <3>1, <3>2
  <2> QED
    BY <2>5, <2>6, Zenon
<1>3. \A c \in Chans : (IF pollChannels[FdOf[c]] = c THEN Poll!WatchedFor(c) ELSE {})
                        = (IF pollLife[c] = "added" THEN pollEvents[c] ELSE {})
  BY <1>2, Zenon DEF PollIInv, PollRegisteredInv
<1> QED
  BY <1>1, <1>3, Zenon DEF PollMapped, PollAsked

(* PollPoller implements Poller: at every step poll(2) watches exactly      *)
(* what the registered channels last asked for.                             *)
LEMMA PollImplements == ASSUME Assumptions PROVE Poll!Spec => Poll!ImplementsPoller
<1>1. Poll!Init => Poll!P!Init
  <2> SUFFICES ASSUME Poll!Init PROVE Poll!P!Init
    BY Zenon
  <2>1. Poll!Added = {} /\ PollAsked = [c \in Chans |-> {}]
    BY Zenon DEF Poll!Init, Poll!ChannelInit, Poll!Added, PollAsked
  <2> QED
    BY <2>1, PollInitInv, PollMapping, Zenon DEF Poll!P!Init, PollAsked, PollMapped
<1>2. PollIInv' => PollMapped'
  BY PollMapping, PTL
<1>3. PollIInv /\ [Poll!Next]_Poll!vars => [Poll!P!Next]_Poll!P!pvars
  <2> SUFFICES ASSUME PollIInv, [Poll!Next]_Poll!vars PROVE [Poll!P!Next]_Poll!P!pvars
    BY Zenon
  <2>0. PollMapped /\ PollMapped'
    BY PollNextInv, PollMapping, <1>2, Zenon
  <2>1. ASSUME Poll!Added' = Poll!Added, PollAsked' = PollAsked PROVE UNCHANGED Poll!P!pvars
    BY <2>0, <2>1, Zenon DEF PollMapped, Poll!P!pvars, PollAsked
  <2>2. ASSUME NEW c \in Chans, Poll!NewChannel(c) PROVE UNCHANGED Poll!P!pvars
    <3>1. Poll!Added' = Poll!Added /\ PollAsked' = PollAsked
      BY <2>2, Zenon DEF Poll!NewChannel, Poll!MakeChannel, Poll!Added, PollAsked, PollIInv,
         PollTypeOK, Poll!ChannelTypeOK
    <3> QED
      BY <2>1, <3>1, Zenon
  <2>3. ASSUME NEW c \in Chans, NEW ev \in Poll!Requests(c), Poll!UpdateChannel(c, ev) PROVE Poll!P!Next
    <3>1. ev \in SUBSET Poll!Events
      BY <2>3, Zenon DEF Poll!Requests, PollIInv, PollTypeOK, Poll!ChannelTypeOK, Poll!Events
    <3>2. Poll!Added' = Poll!Added \cup {c} /\ PollAsked' = [PollAsked EXCEPT ![c] = ev]
      BY <2>3, Zenon DEF Poll!UpdateChannel, Poll!Update, Poll!Added, PollAsked, PollIInv,
         PollTypeOK,
         Poll!ChannelTypeOK
    <3>3. Poll!P!UpdateChannel(c, ev)
      BY <2>0, <3>2, Zenon DEF PollMapped, PollAsked, Poll!P!UpdateChannel
    <3> QED
      BY <3>1, <3>3, Zenon DEF Poll!P!Next
  <2>4. ASSUME NEW c \in Chans, Poll!RemoveChannel(c) PROVE Poll!P!Next
    <3>1. c \in Poll!Added /\ PollAsked[c] = {}
      BY <2>4, Zenon DEF Poll!RemoveChannel, Poll!Remove, Poll!isNoneEvent, Poll!Added,
         PollAsked
    <3>2. Poll!Added' = Poll!Added \ {c} /\ PollAsked' = PollAsked
      BY <2>4, Zenon DEF Poll!RemoveChannel, Poll!Remove, Poll!isNoneEvent, Poll!Added,
         PollAsked,
         PollIInv, PollTypeOK, Poll!ChannelTypeOK
    <3>3. Poll!P!RemoveChannel(c)
      BY <2>0, <3>1, <3>2, Zenon DEF PollMapped, PollAsked, Poll!P!RemoveChannel
    <3> QED
      BY <3>3, Zenon DEF Poll!P!Next
  <2>5. ASSUME NEW c \in Chans, Poll!DeleteChannel(c) PROVE UNCHANGED Poll!P!pvars
    <3>1. Poll!Added' = Poll!Added /\ PollAsked' = PollAsked
      BY <2>5, Zenon DEF Poll!DeleteChannel, Poll!DestroyChannel, Poll!Added, PollAsked,
         PollIInv,
         PollTypeOK, Poll!ChannelTypeOK
    <3> QED
      BY <2>1, <3>1, Zenon
  <2>6. ASSUME UNCHANGED Poll!vars PROVE UNCHANGED Poll!P!pvars
    BY <2>6, <2>1, Zenon DEF Poll!vars, Poll!cvars, Poll!Added, PollAsked
  <2> QED
    BY <2>2, <2>3, <2>4, <2>5, <2>6, Zenon DEF Poll!Next
<1> QED
  BY <1>1, <1>3, PollInvariant, PTL DEF Poll!Spec, Poll!ImplementsPoller, Poll!P!Spec

-----------------------------------------------------------------------------
(* The assumption on the constants, as each poller states it.               *)
LEMMA BothAssume == Assumptions /\ NoChannel \notin Chans
  BY ChannelAssumption, Zenon DEF Assumptions, EPoll!FdAssumption, Poll!FdAssumption

(* No epoll_ctl of EPollPoller fails and the kernel only holds pointers to  *)
(* live channels, each the one channels_ has under that descriptor; index_  *)
(* of every channel of PollPoller is the position of its own entry, however *)
(* removals move the entries.                                               *)
THEOREM Registered == EPoll!Spec /\ Poll!Spec => []RegistrationConsistent
<1>1. EPoll!Spec => []EPoll!EpollCtlSucceeds
  BY BothAssume, EPollCtlSucceeds, Zenon
<1>2. EPoll!Spec => []EPoll!NoStalePointer
  BY BothAssume, EPollNoStale, Zenon
<1>3. Poll!Spec => []Poll!IndexIsPosition
  BY BothAssume, Positions, Zenon
<1> QED
  BY <1>1, <1>2, <1>3, PTL DEF RegistrationConsistent

(* Both pollers implement Poller: at every step the kernel watches exactly  *)
(* what the registered channels last asked for.                             *)
THEOREM PollersImplement == EPoll!Spec /\ Poll!Spec => ImplementsPoller
<1>1. EPoll!Spec => EPoll!ImplementsPoller
  BY BothAssume, EPollImplements, Zenon
<1>2. Poll!Spec => Poll!ImplementsPoller
  BY BothAssume, PollImplements, Zenon
<1> QED
  BY <1>1, <1>2, PTL DEF ImplementsPoller
=============================================================================
