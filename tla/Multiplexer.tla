---------------------------- MODULE Multiplexer ----------------------------
(***************************************************************************)
(* examples/multiplexer: MultiplexServer (multiplexer.cc) folds many       *)
(* client connections into one backend connection to DemuxServer           *)
(* (demux.cc), which opens one connection to the socks server for each of  *)
(* them.  A packet carries a connection number; number 0 carries commands. *)
(*                                                                         *)
(* The callbacks of clients run in the server's IO threads and those of    *)
(* the backend in the main loop, so onClientConnection is split where it   *)
(* leaves mutex_.  DemuxServer has one loop.  The asserts of demux.cc are  *)
(* recorded in failed and the program goes on, as a build with NDEBUG does *)
(* (the default build type of build.sh is release).                        *)
(*                                                                         *)
(* What DemuxServer sends back changes no state of either program (data is *)
(* routed by clientConns_, the DISCONNECT command is dropped because its   *)
(* number is 0), so that direction is left out.                            *)
(***************************************************************************)
EXTENDS Integers, Sequences, SequencesExt, FiniteSets

CONSTANTS Clients, kMaxConns, MaxBackends, MaxSends, MaxSocks

VARIABLES
    backendConn_, availIds_, clientConns_,  \* MultiplexServer, under mutex_
    client,       \* client[c]: where c's callbacks are, the id taken and the backend
                  \* connection it was taken from, the context, the messages sent
    connected,    \* how many backend connections there have been
    wire,         \* wire[n]: packets on backend connection n
    peer,         \* peer[n]: the DemuxServer's end of backend connection n
    serverConn_, socksConns_,               \* DemuxServer
    socks,        \* the connections to the socks server, in order of creation
    failed,       \* the asserts that did not hold in the last step
    crossed       \* history: a number was used on another backend connection

muxVars == <<backendConn_, availIds_, clientConns_>>
demuxVars == <<serverConn_, socksConns_, socks>>
vars == <<muxVars, client, connected, wire, peer, demuxVars, failed, crossed>>

Backends == 1..MaxBackends
Ids == 1..kMaxConns
NoBackend == 0
NoContext == 0

NewClient == [at |-> "none", id |-> 0, of |-> NoBackend, context |-> NoContext, sent |-> 0]

Init ==
    /\ backendConn_ = NoBackend /\ availIds_ = <<>> /\ clientConns_ = <<>>
    /\ client = [c \in Clients |-> NewClient]
    /\ connected = 0
    /\ wire = [n \in Backends |-> <<>>]
    /\ peer = [n \in Backends |-> "none"]
    /\ serverConn_ = NoBackend /\ socksConns_ = <<>> /\ socks = <<>>
    /\ failed = {} /\ crossed = FALSE

Assert_(name, holds) == IF holds THEN {} ELSE {name}
Without(f, x) == [y \in DOMAIN f \ {x} |-> f[y]]
With(f, x, v) == [y \in DOMAIN f \cup {x} |-> IF y = x THEN v ELSE f[y]]

----------------------------------------------------------------------------
(* MultiplexServer *)

(* sendBackendPacket, sendBackendString, sendBackendBuffer: the header is  *)
(* the packet's number; nothing is sent while there is no backend.         *)
sendBackendPacket(id, what) ==
    wire' = IF backendConn_ = NoBackend THEN wire
            ELSE [wire EXCEPT ![backendConn_] = Append(@, [id |-> id, what |-> what])]

(* Client c has a number, which it still uses under mutex_ or in packets.  *)
Holds(c) == client[c].at \in {"gotId", "leaving"} \/ client[c].context # NoContext

(* Client c uses its number on a backend connection that came up after it  *)
(* took the number: nothing in multiplexer.cc tells such a number apart.   *)
Crosses(c) == backendConn_ \notin {NoBackend, client[c].of}

(* onClientConnection, UP: the number is taken under mutex_.  Without one  *)
(* the connection is shut down; its context stays empty, so that its later *)
(* callbacks do nothing.                                                   *)
ClientUp(c) ==
    /\ client[c].at = "none"
    /\ IF availIds_ # <<>>
       THEN /\ client' = [client EXCEPT ![c].at = "gotId", ![c].id = Head(availIds_),
                                        ![c].of = backendConn_]
            /\ availIds_' = Tail(availIds_)
            /\ clientConns_' = With(clientConns_, Head(availIds_), c)
       ELSE /\ client' = [client EXCEPT ![c].at = "down"]
            /\ UNCHANGED <<availIds_, clientConns_>>
    /\ failed' = {}
    /\ UNCHANGED <<backendConn_, connected, wire, peer, demuxVars, crossed>>

ClientUpAnnounced(c) ==
    /\ client[c].at = "gotId"
    /\ client' = [client EXCEPT ![c].at = "up", ![c].context = client[c].id]
    /\ sendBackendPacket(0, <<"UP", client[c].id>>)
    /\ crossed' = (crossed \/ Crosses(c))
    /\ failed' = {}
    /\ UNCHANGED <<muxVars, connected, peer, demuxVars>>

(* onClientConnection, DOWN: the command goes out first, then the number   *)
(* is given back under mutex_.                                             *)
ClientDown(c) ==
    /\ client[c].at = "up"
    /\ client' = [client EXCEPT ![c].at = "leaving"]
    /\ sendBackendPacket(0, <<"DOWN", client[c].context>>)
    /\ crossed' = (crossed \/ Crosses(c))
    /\ failed' = {}
    /\ UNCHANGED <<muxVars, connected, peer, demuxVars>>

ClientGivesBack(c) ==
    /\ client[c].at = "leaving"
    /\ client' = [client EXCEPT ![c] = [NewClient EXCEPT !.at = "down"]]
    /\ IF backendConn_ # NoBackend
       THEN /\ availIds_' = Append(availIds_, client[c].context)
            /\ clientConns_' = Without(clientConns_, client[c].context)
            /\ failed' = {}
       ELSE /\ failed' = Assert_("mux", availIds_ = <<>> /\ clientConns_ = <<>>)
            /\ UNCHANGED <<availIds_, clientConns_>>
    /\ crossed' = (crossed \/ Crosses(c))
    /\ UNCHANGED <<backendConn_, connected, wire, peer, demuxVars>>

onClientMessage(c) ==
    /\ client[c].at = "up" /\ client[c].sent < MaxSends
    /\ client' = [client EXCEPT ![c].sent = @ + 1]
    /\ sendBackendPacket(client[c].context, <<"data", c>>)
    /\ crossed' = (crossed \/ Crosses(c))
    /\ failed' = {}
    /\ UNCHANGED <<muxVars, connected, peer, demuxVars>>

(* onBackendConnection.  The clients it shuts down close in their own time *)
(* (ClientDown), and TcpClient reconnects without waiting for them.        *)
BackendUp ==
    /\ backendConn_ = NoBackend /\ connected < MaxBackends
    /\ connected' = connected + 1
    /\ backendConn_' = connected + 1
    /\ failed' = Assert_("mux", availIds_ = <<>>)
    /\ availIds_' = availIds_ \o [i \in Ids |-> i]
    /\ UNCHANGED <<clientConns_, client, wire, peer, demuxVars, crossed>>

BackendDown_KeepsIds ==
    /\ backendConn_ # NoBackend
    /\ backendConn_' = NoBackend
    /\ clientConns_' = <<>>
    /\ failed' = {}
    /\ UNCHANGED <<availIds_, client, connected, wire, peer, demuxVars, crossed>>

BackendDown ==
    /\ backendConn_ # NoBackend
    /\ backendConn_' = NoBackend
    /\ clientConns_' = <<>> /\ availIds_' = <<>>
    /\ failed' = {}
    /\ UNCHANGED <<client, connected, wire, peer, demuxVars, crossed>>

----------------------------------------------------------------------------
(* DemuxServer *)

(* onServerConnection: a second backend connection is shut down, yet what  *)
(* it sends is still handled.                                              *)
ServerUp(n) ==
    /\ n <= connected /\ peer[n] = "none"
    /\ peer' = [peer EXCEPT ![n] = "up"]
    /\ serverConn_' = IF serverConn_ = NoBackend THEN n ELSE serverConn_
    /\ failed' = {}
    /\ UNCHANGED <<muxVars, client, connected, wire, socksConns_, socks, crossed>>

(* The TcpClient of an entry that is dropped closes its connection later:  *)
(* forceClose is queued, a connection still being made is given up.        *)
Dropped(entries) ==
    [s \in DOMAIN socks |->
        IF s \notin entries THEN socks[s]
        ELSE [socks[s] EXCEPT !.at = IF @ = "connecting" THEN "down" ELSE @]]

ServerDown(n) ==
    /\ peer[n] = "up" /\ backendConn_ # n
    /\ peer' = [peer EXCEPT ![n] = "down"]
    /\ IF serverConn_ = n
       THEN /\ serverConn_' = NoBackend /\ socksConns_' = <<>>
            /\ socks' = Dropped({socksConns_[i].socks : i \in DOMAIN socksConns_})
       ELSE UNCHANGED demuxVars
    /\ wire' = [wire EXCEPT ![n] = <<>>]
    /\ failed' = {}
    /\ UNCHANGED <<muxVars, client, connected, crossed>>

(* The bytes of client c reach socks connection s, if it still sends. *)
Carries(s, c) ==
    [socks EXCEPT ![s].carried = IF socks[s].at = "up" THEN @ \cup {c} ELSE @]

(* A packet with a connection number; operator[] makes an empty entry for  *)
(* a number that has none.                                                 *)
EmptyEntry == [socks |-> 0, connection |-> FALSE, pending |-> {}]

Data(id, c) ==
    /\ failed' = Assert_("onServerMessage", id \in DOMAIN socksConns_)
    /\ LET e == IF id \in DOMAIN socksConns_ THEN socksConns_[id] ELSE EmptyEntry IN
       IF e.connection
       THEN socks' = Carries(e.socks, c) /\ UNCHANGED socksConns_
       ELSE /\ socksConns_' = With(socksConns_, id, [e EXCEPT !.pending = @ \cup {c}])
            /\ UNCHANGED socks

(* doCommand *)
CommandUp(id) ==
    /\ failed' = Assert_("doCommand", id \notin DOMAIN socksConns_)
    /\ LET old == IF id \in DOMAIN socksConns_ THEN {socksConns_[id].socks} ELSE {}
       IN  socks' = Append(Dropped(old), [id |-> id, at |-> "connecting", carried |-> {}])
    /\ socksConns_' = With(socksConns_, id,
            [EmptyEntry EXCEPT !.socks = Len(socks) + 1])

CommandDown(id) ==
    /\ failed' = Assert_("doCommand", id \in DOMAIN socksConns_)
    /\ IF id \notin DOMAIN socksConns_ THEN UNCHANGED <<socks, socksConns_>>
       ELSE LET e == socksConns_[id] IN
            IF e.connection
            THEN /\ socks' = [socks EXCEPT ![e.socks].at = IF @ = "up" THEN "closing" ELSE @]
                 /\ UNCHANGED socksConns_
            ELSE /\ socks' = Dropped({e.socks})
                 /\ socksConns_' = Without(socksConns_, id)

onServerMessage(n) ==
    /\ peer[n] = "up" /\ wire[n] # <<>>
    /\ wire' = [wire EXCEPT ![n] = Tail(@)]
    /\ LET p == Head(wire[n]) IN
       IF p.id # 0 THEN Data(p.id, p.what[2])
       ELSE IF p.what[1] = "UP" THEN Len(socks) < MaxSocks /\ CommandUp(p.what[2])
       ELSE CommandDown(p.what[2])
    /\ crossed' = (crossed \/ serverConn_ # n)
    /\ UNCHANGED <<muxVars, client, connected, peer, serverConn_>>

(* onSocksConnection, UP: what waited is sent. *)
SocksUp(s) ==
    /\ s \in DOMAIN socks /\ socks[s].at = "connecting"
    /\ LET id == socks[s].id IN
       /\ socksConns_' = [socksConns_ EXCEPT ![id].connection = TRUE, ![id].pending = {}]
       /\ socks' = [socks EXCEPT ![s].at = "up",
                                 ![s].carried = @ \cup socksConns_[id].pending]
    /\ failed' = {}
    /\ UNCHANGED <<muxVars, client, connected, wire, peer, serverConn_, crossed>>

Closed(id) == [id |-> id, at |-> "down", carried |-> {}]

(* onSocksConnection, DOWN: the entry stays as long as there is a backend, *)
(* which is told DISCONNECT.                                               *)
SocksDown(s) ==
    /\ s \in DOMAIN socks /\ socks[s].at \in {"up", "closing"}
    /\ LET id == socks[s].id IN
       /\ failed' = Assert_("onSocksConnection", id \in DOMAIN socksConns_)
       /\ IF serverConn_ # NoBackend \/ id \notin DOMAIN socksConns_
          THEN socks' = [socks EXCEPT ![s] = Closed(id)] /\ UNCHANGED socksConns_
          ELSE /\ socks' = [Dropped({socksConns_[id].socks}) EXCEPT ![s] = Closed(id)]
               /\ socksConns_' = Without(socksConns_, id)
    /\ UNCHANGED <<muxVars, client, connected, wire, peer, serverConn_, crossed>>

----------------------------------------------------------------------------
MultiplexServerStep ==
    \/ \E c \in Clients :
        \/ ClientUp(c) \/ ClientUpAnnounced(c) \/ onClientMessage(c)
        \/ ClientDown(c) \/ ClientGivesBack(c)
    \/ BackendUp \/ BackendDown

DemuxServerStep ==
    \/ \E n \in Backends : ServerUp(n) \/ ServerDown(n) \/ onServerMessage(n)
    \/ \E s \in 1..MaxSocks : SocksUp(s) \/ SocksDown(s)

Next == MultiplexServerStep \/ DemuxServerStep

Spec == Init /\ [][Next]_vars

----------------------------------------------------------------------------
(* Properties *)

(* The asserts of multiplexer.cc hold: the numbers are gone when a backend *)
(* connection comes up, and a client that leaves without a backend finds   *)
(* both tables empty (onBackendConnection and onClientConnection, whose    *)
(* threads interleave).                                                    *)
MuxAssertsHold == "mux" \notin failed

(* A connection to the socks server carries the bytes of one client only,  *)
(* although numbers are reused and the command and the data of a client    *)
(* come from a thread of their own.                                        *)
CarriesOneClient ==
    \A s \in DOMAIN socks : Cardinality(socks[s].carried) <= 1

(* No number of the present backend connection is in use twice: it is free *)
(* once, or one client holds it.                                           *)
IdsUnique ==
    /\ IsInjective(availIds_)
    /\ \A c \in Clients : Holds(c) /\ client[c].of = backendConn_ =>
          /\ client[c].id \notin Range(availIds_)
          /\ \A d \in Clients :
                Holds(d) /\ client[d].of = backendConn_ /\ client[c].id = client[d].id => c = d

(* Clients and backend come and go in any order, and a backend connection  *)
(* may come up before the clients of the last one are gone.  The asserts   *)
(* of multiplexer.cc hold in any case.  A connection to the socks server   *)
(* carries the bytes of one client only, and no number is in use twice,    *)
(* until such an old client uses its number on the new connection          *)
(* (multiplexer.cc:175-186, :204) or the demultiplexer serves a second     *)
(* backend connection beside the first (demux.cc:57-60).                   *)
TunnelsArePrivate == MuxAssertsHold /\ (~crossed => CarriesOneClient /\ IdsUnique)

(* The asserts of demux.cc hold, as long as no number is used on another    *)
(* backend connection than its own.                                        *)
DemuxAssertsHold == crossed \/ failed \subseteq {"mux"}
=============================================================================
