--------------------------- MODULE IdleConnection ---------------------------
(***************************************************************************)
(* examples/idleconnection: two echo servers that shut idle connections    *)
(* down, run side by side on the same connections and messages.            *)
(*                                                                         *)
(*   echo.cc        a wheel of idleSeconds buckets of shared Entry         *)
(*                  pointers; the Entry that drops out of its last bucket  *)
(*                  shuts its connection down                              *)
(*   sortedlist.cc  a list of connections in order of their last message   *)
(*                                                                         *)
(* Time is counted in the seconds of the runEvery(1.0) timer, and the      *)
(* clock may be set back once, which sortedlist.cc handles.                *)
(***************************************************************************)
EXTENDS Integers, Sequences, SequencesExt, FiniteSets

CONSTANTS Conns, idleSeconds, MaxTime, MayJump

VARIABLES
    up,                   \* connections the peers have open
    now, jumped,          \* the clock; it has been set back
    buckets,              \* connectionBuckets_, the newest last
    shutByWheel,
    connectionList_, lastReceiveTime,
    shutByList,
    quiet                 \* quiet[c]: timer ticks since c's last message

vars == <<up, now, jumped, buckets, shutByWheel, connectionList_, lastReceiveTime,
          shutByList, quiet>>

Init ==
    /\ up = {} /\ now = 1 /\ jumped = FALSE
    /\ buckets = [i \in 1..idleSeconds |-> {}]
    /\ shutByWheel = {} /\ shutByList = {}
    /\ connectionList_ = <<>>
    /\ lastReceiveTime = [c \in Conns |-> 0]
    /\ quiet = [c \in Conns |-> 0]

Entries == UNION {buckets[i] : i \in DOMAIN buckets}
InNewest(c) == [buckets EXCEPT ![idleSeconds] = @ \cup {c}]
Unused(c) == c \notin up \cup Entries \cup shutByWheel \cup shutByList

(* onConnection, UP.  A connection is a new object. *)
ConnectionUp(c) ==
    /\ Unused(c) /\ lastReceiveTime[c] = 0
    /\ up' = up \cup {c}
    /\ buckets' = InNewest(c)
    /\ connectionList_' = Append(connectionList_, c)
    /\ lastReceiveTime' = [lastReceiveTime EXCEPT ![c] = now]
    /\ quiet' = [quiet EXCEPT ![c] = 0]
    /\ UNCHANGED <<now, jumped, shutByWheel, shutByList>>

(* onConnection, DOWN: the list forgets the connection, the wheel does not *)
(* look for its Entry.                                                     *)
ConnectionDown(c) ==
    /\ c \in up
    /\ up' = up \ {c}
    /\ connectionList_' = Remove(connectionList_, c)
    /\ UNCHANGED <<now, jumped, buckets, shutByWheel, lastReceiveTime, shutByList, quiet>>

MovesToEnd(c) == Append(Remove(connectionList_, c), c)

onMessage_NoSplice(c) ==
    /\ c \in up
    /\ buckets' = IF c \in Entries THEN InNewest(c) ELSE buckets
    /\ lastReceiveTime' = [lastReceiveTime EXCEPT ![c] = now]
    /\ quiet' = [quiet EXCEPT ![c] = 0]
    /\ UNCHANGED <<up, now, jumped, shutByWheel, connectionList_, shutByList>>

(* onMessage: the weak_ptr of the context is locked, so an Entry that is   *)
(* gone does not come back; the list splices the connection to its end.    *)
onMessage(c) ==
    /\ c \in up
    /\ buckets' = IF c \in Entries THEN InNewest(c) ELSE buckets
    /\ connectionList_' = MovesToEnd(c)
    /\ lastReceiveTime' = [lastReceiveTime EXCEPT ![c] = now]
    /\ quiet' = [quiet EXCEPT ![c] = 0]
    /\ UNCHANGED <<up, now, jumped, shutByWheel, shutByList>>

(* How far onTimer walks down the list: past connections that are too old  *)
(* and past those with a time in the future, to the first other one.       *)
Age(c) == now' - lastReceiveTime[c]
Walked ==
    LET stops == {i \in DOMAIN connectionList_ :
                     Age(connectionList_[i]) \in 0..idleSeconds}
    IN  {connectionList_[j] : j \in {j \in DOMAIN connectionList_ :
                                        \A i \in stops : j < i}}

(* The timer of both servers.  A pushed bucket drops the oldest one, and   *)
(* the Entries that are in no other bucket shut their connection down.     *)
onTimer ==
    /\ now < MaxTime
    /\ now' = now + 1
    /\ buckets' = Append(Tail(buckets), {})
    /\ shutByWheel' = shutByWheel \cup ((Entries \ UNION {buckets[i] : i \in 2..idleSeconds}) \cap up)
    /\ shutByList' = shutByList \cup {c \in Walked : Age(c) > idleSeconds}
    /\ lastReceiveTime' = [c \in Conns |->
            IF c \in Walked /\ Age(c) < 0 THEN now' ELSE lastReceiveTime[c]]
    /\ quiet' = [c \in Conns |-> IF c \in up THEN quiet[c] + 1 ELSE 0]
    /\ UNCHANGED <<up, jumped, connectionList_>>

ClockSetBack ==
    /\ MayJump /\ ~ jumped /\ now > 1
    /\ now' \in 1..now - 1
    /\ jumped' = TRUE
    /\ UNCHANGED <<up, buckets, shutByWheel, connectionList_, lastReceiveTime, shutByList, quiet>>

Next ==
    \/ \E c \in Conns : ConnectionUp(c) \/ ConnectionDown(c) \/ onMessage(c)
    \/ onTimer \/ ClockSetBack

Spec == Init /\ [][Next]_vars

----------------------------------------------------------------------------
(* Properties *)

(* Both servers shut a connection down when it has been quiet long enough: *)
(* the wheel at its idleSeconds-th tick without a message (whatever the    *)
(* clock says), the list at the tick after that one.  No connection that   *)
(* sent a message in time is shut down, and none is forgotten, although    *)
(* an Entry may sit in several buckets and the list stops at the first     *)
(* connection that is young enough.                                        *)
IdleIsShut ==
    [][\A c \in up' :
        /\ quiet'[c] >= idleSeconds => c \in shutByWheel'
        /\ quiet'[c] > idleSeconds /\ ~ jumped' => c \in shutByList'
        /\ c \in shutByWheel' \ shutByWheel => quiet'[c] >= idleSeconds
        /\ c \in shutByList' \ shutByList => quiet'[c] > idleSeconds]_vars
=============================================================================
