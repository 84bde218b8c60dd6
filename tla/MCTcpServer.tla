---------------------------- MODULE MCTcpServer ----------------------------
EXTENDS TcpServer

CONSTANTS io1

OneThread == {<<io1>>}
AnyPool   == {<<>>, <<io1>>}

(* shutdown() is carried out unless the connection is closed first, and a   *)
(* closed connection leaves connections_ and the poller (shutdownInLoop,    *)
(* handleWrite, removeConnection).                                          *)
CloseCompletes == ShutdownHappens /\ ClosedIsRemoved
=============================================================================
