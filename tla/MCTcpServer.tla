---------------------------- MODULE MCTcpServer ----------------------------
(* Instances of TcpServer for TLC. *)
EXTENDS TcpServer, TLC

CONSTANTS u1, u2, k1, k2, k3

\* The WS server and the device of one user, which connects twice.
OneDevice == k1 :> Ws @@ k2 :> u1 @@ k3 :> u1

\* tcp_id is set for every descriptor, or for some.
AllKnown == [f \in Fds |-> IF f = 8 THEN u1 ELSE u2]
FirstIsWs == [f \in Fds |-> IF f = 8 THEN u1 ELSE IF f = 9 THEN u2 ELSE NoUser]
=============================================================================
