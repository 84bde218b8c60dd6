----------------------------- MODULE ChatServer -----------------------------
(***************************************************************************)
(* examples/asio/chat/server_threaded_efficient.cc: connections_ points to *)
(* a list that is copied before it is written if anybody else holds it, so *)
(* that onStringMessage can walk its copy of the pointer without mutex_.   *)
(*                                                                         *)
(* Every IO thread handles connections and messages; taking the pointer,   *)
(* each send and the end of the walk are steps of their own.               *)
(***************************************************************************)
EXTENDS Integers, Sequences

CONSTANTS Threads, Members, MaxLists

VARIABLES
    lists,           \* the lists allocated so far, in order: sets of connections
    connections_,    \* the list connections_ points to
    held,            \* held[t]: the list thread t walks, 0 if none
    todo,            \* todo[t]: the connections it has still to visit
    reached,         \* reached[t]: those it has sent the message to
    snapshot         \* snapshot[t]: what its list held when it took the pointer

chatVars == <<lists, connections_, held, todo, reached, snapshot>>

None == 0

ChatInit ==
    /\ lists = <<{}>> /\ connections_ = 1
    /\ held = [t \in Threads |-> None]
    /\ todo = [t \in Threads |-> {}] /\ reached = [t \in Threads |-> {}]
    /\ snapshot = [t \in Threads |-> {}]

(* connections_.unique() *)
Unique == \A t \in Threads : held[t] # connections_

Write_InPlace(new) ==
    lists' = [lists EXCEPT ![connections_] = new] /\ UNCHANGED connections_

(* The list connections_ points to becomes new: in place if nobody else    *)
(* holds it, otherwise in a copy.                                          *)
Write(new) ==
    IF Unique
    THEN lists' = [lists EXCEPT ![connections_] = new] /\ UNCHANGED connections_
    ELSE /\ Len(lists) < MaxLists
         /\ lists' = Append(lists, new)
         /\ connections_' = Len(lists) + 1

(* onConnection, under mutex_ *)
onConnection(t, c) ==
    /\ held[t] = None
    /\ \/ c \notin lists[connections_] /\ Write(lists[connections_] \cup {c})
       \/ c \in lists[connections_] /\ Write(lists[connections_] \ {c})
    /\ UNCHANGED <<held, todo, reached, snapshot>>

(* onStringMessage: getConnectionList under mutex_, *)
getConnectionList(t) ==
    /\ held[t] = None
    /\ held' = [held EXCEPT ![t] = connections_]
    /\ todo' = [todo EXCEPT ![t] = lists[connections_]]
    /\ snapshot' = [snapshot EXCEPT ![t] = lists[connections_]]
    /\ reached' = [reached EXCEPT ![t] = {}]
    /\ UNCHANGED <<lists, connections_>>

(* then a send to each connection; the iterator reads the list as it is,   *)
SendsTo(t, c) ==
    /\ held[t] # None /\ c \in todo[t] \cap lists[held[t]]
    /\ todo' = [todo EXCEPT ![t] = @ \ {c}]
    /\ reached' = [reached EXCEPT ![t] = @ \cup {c}]
    /\ UNCHANGED <<lists, connections_, held, snapshot>>

(* and the pointer is dropped. *)
EndsWalk(t) ==
    /\ held[t] # None /\ todo[t] \cap lists[held[t]] = {}
    /\ held' = [held EXCEPT ![t] = None]
    /\ todo' = [todo EXCEPT ![t] = {}]
    /\ UNCHANGED <<lists, connections_, reached, snapshot>>

ChatNext ==
    \E t \in Threads :
        \/ getConnectionList(t) \/ EndsWalk(t)
        \/ \E c \in Members : onConnection(t, c) \/ SendsTo(t, c)

ChatSpec == ChatInit /\ [][ChatNext]_chatVars

----------------------------------------------------------------------------
(* Properties *)

(* A list never changes while a thread walks it, so the message goes to    *)
(* every connection that was there when the walk began, although other     *)
(* threads add and remove connections meanwhile.                           *)
WalksAreStable ==
    \A t \in Threads :
        /\ held[t] # None => lists[held[t]] = snapshot[t]
        /\ held[t] = None => reached[t] = snapshot[t]
=============================================================================
