----------------------------- MODULE MCTcpClient ---------------------------
EXTENDS TcpClient

(* A client makes one attempt at a time, and every socket is owned by the   *)
(* connector or by one connection until it is closed (Connector::connect,   *)
(* retry, handleWrite, TcpClient::newConnection).                           *)
OneSocketAnAttempt == ClientTypeOK /\ OneAttempt /\ SocketsOwned
=============================================================================
