------------------------------ MODULE Channel ------------------------------
(***************************************************************************)
(* muduo/net/Channel.{h,cc}: the life of the channels of one loop and the  *)
(* events they ask for, as both pollers see it.  Two channels may have the *)
(* same descriptor at different times: it is closed, and given out again,  *)
(* only after the channel was removed.  The owner of a channel destroys it *)
(* after remove() and makes no other request in between.                   *)
(***************************************************************************)
EXTENDS Integers, Sequences, FiniteSets

CONSTANTS
    Chans,   \* Channel objects
    FdOf     \* the descriptor of each

FdAssumption == FdOf \in [Chans -> Nat]

Events == {"in", "out"}   \* kReadEvent and kWriteEvent
Fds    == {FdOf[c] : c \in Chans}

VARIABLES
    life,      \* of each channel: addedToLoop_ holds exactly when it is "added"
    events_

cvars == <<life, events_>>

ChannelTypeOK ==
    /\ life \in [Chans -> {"dead", "made", "added", "removed"}]
    /\ events_ \in [Chans -> SUBSET Events]

ChannelInit ==
    /\ life = [c \in Chans |-> "dead"]
    /\ events_ = [c \in Chans |-> {}]

isNoneEvent(c) == events_[c] = {}

MakeChannel(c) ==
    /\ life[c] = "dead"
    /\ \A d \in Chans : FdOf[d] = FdOf[c] => life[d] \in {"dead", "removed"}
    /\ life' = [life EXCEPT ![c] = "made"]
    /\ events_' = [events_ EXCEPT ![c] = {}]

(* What enableReading, disableReading, enableWriting, disableWriting and    *)
(* disableAll make of events_.                                              *)
Requests(c) ==
    {events_[c] \cup {e} : e \in Events} \cup {events_[c] \ {e} : e \in Events} \cup {{}}

Update(c, ev) ==
    /\ life[c] \in {"made", "added"}
    /\ ev \in Requests(c)
    /\ events_' = [events_ EXCEPT ![c] = ev]
    /\ life' = [life EXCEPT ![c] = "added"]

Remove(c) ==
    /\ life[c] = "added"
    /\ isNoneEvent(c)
    /\ life' = [life EXCEPT ![c] = "removed"]
    /\ UNCHANGED events_

DestroyChannel(c) ==
    /\ life[c] \in {"made", "removed"}
    /\ life' = [life EXCEPT ![c] = "dead"]
    /\ UNCHANGED events_

Added == {c \in Chans : life[c] = "added"}
=============================================================================
