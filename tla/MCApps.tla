------------------------------- MODULE MCApps ------------------------------
(* The example programs and the RPC library.  Each is checked on its own    *)
(* instance: app says which of them this behaviour is about, and the        *)
(* variables of the others keep their initial values.                       *)
EXTENDS Tunnel, RpcBalancer, Hub, ChatServer

CONSTANTS
    p1, k1, k2, k3,
    Clients, kMaxConns, MaxBackends, MaxSends, MaxSocks,            \* Multiplexer
    MaxWords, g_batchSize, hasherMark, MayDrop,                     \* SendThrottler
    idleSeconds, MaxTime, MayJump                                   \* IdleConnection

VARIABLES
    app,
    backendConn_, availIds_, clientConns_, client, connected, wire, peer,
    serverConn_, socksConns_, socks, failed, crossed,
    at, words, buffer_, congestion_, disconnectLatch_, state, out, finSent, functors,
    written, overtaken,
    up, now, jumped, buckets, shutByWheel, connectionList_, lastReceiveTime,
    shutByList, quiet

muxVars == <<backendConn_, availIds_, clientConns_, client, connected, wire, peer,
             serverConn_, socksConns_, socks, failed, crossed>>
hasherVars == <<at, words, buffer_, congestion_, disconnectLatch_, state, out, finSent, functors,
                written, overtaken>>
idleVars == <<up, now, jumped, buckets, shutByWheel, connectionList_, lastReceiveTime,
              shutByList, quiet>>
all == <<app, muxVars, socksVars, rpcVars, hasherVars, idleVars, hubVars, chatVars>>

Mux == INSTANCE Multiplexer
Hasher == INSTANCE SendThrottler WITH highWaterMark <- hasherMark
Idle == INSTANCE IdleConnection

(* Two calls of one process and one of the other.                           *)
ThreeCalls == [p \in Processes |-> IF p = p1 THEN {k1, k2} ELSE {k3}]

AllInit ==
    /\ app \in {"mux", "socks", "rpc", "hasher", "idle", "hub", "chat"}
    /\ Mux!Init /\ TunnelInit /\ RpcInit /\ Hasher!Init
    /\ Idle!Init /\ HubInit /\ ChatInit

(* Once a number was used on another backend connection than its own,        *)
(* TunnelsArePrivate is about the variables of MultiplexServer only, which   *)
(* no step of DemuxServer reads back or changes: those steps are left out.   *)
MuxNext == Mux!MultiplexServerStep \/ (~crossed /\ Mux!DemuxServerStep)

AllNext ==
    /\ UNCHANGED app
    /\ \/ /\ app = "mux" /\ MuxNext
          /\ UNCHANGED <<socksVars, rpcVars, hasherVars, idleVars, hubVars, chatVars>>
       \/ /\ app = "socks" /\ TunnelNext
          /\ UNCHANGED <<muxVars, rpcVars, hasherVars, idleVars, hubVars, chatVars>>
       \/ /\ app = "rpc" /\ RpcNext
          /\ UNCHANGED <<muxVars, socksVars, hasherVars, idleVars, hubVars, chatVars>>
       \/ /\ app = "hasher" /\ Hasher!Next
          /\ UNCHANGED <<muxVars, socksVars, rpcVars, idleVars, hubVars, chatVars>>
       \/ /\ app = "idle" /\ Idle!Next
          /\ UNCHANGED <<muxVars, socksVars, rpcVars, hasherVars, hubVars, chatVars>>
       \/ /\ app = "hub" /\ HubNext
          /\ UNCHANGED <<muxVars, socksVars, rpcVars, hasherVars, idleVars, chatVars>>
       \/ /\ app = "chat" /\ ChatNext
          /\ UNCHANGED <<muxVars, socksVars, rpcVars, hasherVars, idleVars, hubVars>>

(* The fairness of the programs' own specifications.                        *)
Fairness ==
    /\ WF_socksVars(app = "socks" /\ Loop)
    /\ \A x \in Sides : SF_socksVars(app = "socks" /\ Writable(x))
    /\ WF_rpcVars(app = "rpc" /\ Proceeds)
    /\ WF_hasherVars(app = "hasher" /\ Hasher!Main)
    /\ WF_hasherVars(app = "hasher" /\ Hasher!RunFunctor)
    /\ WF_hasherVars(app = "hasher" /\ Hasher!HandleWrite)
    /\ WF_hasherVars(app = "hasher" /\ finSent /\ Hasher!ConnectionDown)

AllSpec == AllInit /\ [][AllNext]_all /\ Fairness

-----------------------------------------------------------------------------
(* The asserts of multiplexer.cc hold; a connection to the socks server      *)
(* carries the bytes of one client only, and no number is in use twice, as  *)
(* long as no number is used on another backend connection than its own     *)
(* (multiplexer.cc, demux.cc).                                              *)
TunnelsArePrivate == Mux!TunnelsArePrivate

(* The sender gets through its words and the peer has them all, unless the  *)
(* peer drops the connection or shutdown() overtakes a batch (hasher.cc).   *)
SenderFinishes == app = "hasher" => Hasher!SenderFinishes

(* Wheel and list shut a connection down when it has been quiet for long    *)
(* enough, and never before (echo.cc, sortedlist.cc).                       *)
IdleIsShut == Idle!IdleIsShut

=============================================================================
