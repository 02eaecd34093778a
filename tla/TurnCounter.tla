----------------------------- MODULE TurnCounter -----------------------------
(***************************************************************************)
(* What the two SemBasic programs promise the person who reads both         *)
(* terminals: the numbers 1, 2, ..., 2 * Rounds appear one after another,    *)
(* the odd ones printed by P2 and the even ones by P1, and when the last     *)
(* one is out a new session starts again from 1.                             *)
(***************************************************************************)
EXTENDS Naturals

CONSTANT Rounds     \* iterations of either program's for loop

VARIABLE out        \* the last line printed: by whom, and which number

Lines == 2 * Rounds

Successor(n) == IF n = Lines THEN 1 ELSE n + 1

PrintLine(who, other) ==
    /\ out.by = other
    /\ out' = [by |-> who, val |-> Successor(out.val)]

Init == out = [by |-> "P1", val |-> 0]

Next == PrintLine("P1", "P2") \/ PrintLine("P2", "P1")

Spec == Init /\ [][Next]_out
=============================================================================
