----------------------------- MODULE MCNewsDesk -----------------------------
(* Two short reports that fit into one message, and one of full length. *)
EXTENDS NewsDesk

MCTextCells == <<2, 2, 4>>

=============================================================================
