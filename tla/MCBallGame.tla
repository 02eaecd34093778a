----------------------------- MODULE MCBallGame -----------------------------
(* An instance of BallGame: the two players of team T and one of team C's two. *)
EXTENDS BallGame

MCTeamOf == [p1 |-> "T", p2 |-> "T", q1 |-> "C"]
MCMaxGuesses == [p1 |-> 1, p2 |-> 1, q1 |-> 0]
MCPlayers == DOMAIN MCTeamOf

=============================================================================
