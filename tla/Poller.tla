------------------------------- MODULE Poller ------------------------------
(***************************************************************************)
(* What muduo/net/Poller.h promises to the channels of a loop: the events  *)
(* the kernel watches for a registered channel are the ones the channel    *)
(* last asked for, and nothing is watched for any other channel.           *)
(***************************************************************************)
CONSTANTS Chans, Events

VARIABLES
    registered,   \* channels in channels_
    asked,        \* the events each registered channel last asked for
    interest      \* what the kernel watches for each channel

pvars == <<registered, asked, interest>>

Init ==
    /\ registered = {}
    /\ asked = [c \in Chans |-> {}]
    /\ interest = [c \in Chans |-> {}]

UpdateChannel(c, ev) ==
    /\ registered' = registered \cup {c}
    /\ asked' = [asked EXCEPT ![c] = ev]
    /\ interest' = [interest EXCEPT ![c] = ev]

RemoveChannel(c) ==
    /\ c \in registered
    /\ asked[c] = {}
    /\ registered' = registered \ {c}
    /\ UNCHANGED <<asked, interest>>

Next ==
    \E c \in Chans :
        \/ \E ev \in SUBSET Events : UpdateChannel(c, ev)
        \/ RemoveChannel(c)

Spec == Init /\ [][Next]_pvars
=============================================================================
