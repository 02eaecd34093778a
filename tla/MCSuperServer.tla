---------------------------- MODULE MCSuperServer ----------------------------
(* Two services, and three clients of them in every mix of one and two. *)
EXTENDS SuperServer

CONSTANTS p1, p2, c1, c2, c3

MCPorts == {p1, p2}
MCClients == {c1, c2, c3}
MCPortOf == c1 :> p1 @@ c2 :> p1 @@ c3 :> p2
=============================================================================
