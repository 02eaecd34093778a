--------------------------- MODULE MCSignalServer ---------------------------
(* Two services; a client for each to start with, and one more. *)
EXTENDS SignalServer

MCServiceOf == [c1 |-> 0, c2 |-> 0, c3 |-> 2, c4 |-> 2]
MCClients == DOMAIN MCServiceOf

=============================================================================
