------------------------------ MODULE NewsWire ------------------------------
(***************************************************************************)
(* What the news reader of "q3 sai kartik" promises its audience: the two    *)
(* speakers take turns, the first speaker first, and between them read out    *)
(* everything the editor has put on the wire, in order and once.  Only when    *)
(* the editor is off the air and nothing is left do they go on repeating       *)
(* what they read last.                                                       *)
(***************************************************************************)
EXTENDS Naturals, Sequences

CONSTANTS
    Texts,      \* what the editor may put on the wire
    Silence     \* what is read out when nothing has ever come

VARIABLES
    sent,       \* texts put on the wire so far
    readout,    \* texts read out so far, each with its speaker
    onair       \* the editor is still there

Speaker == IF Len(readout) % 2 = 0 THEN "reader_1" ELSE "reader_2"

Say(t) == readout' = Append(readout, [by |-> Speaker, text |-> t])

Init == sent = <<>> /\ readout = <<>> /\ onair = TRUE

Publish(t) ==
    /\ onair
    /\ sent' = Append(sent, t)
    /\ UNCHANGED <<readout, onair>>

SignOff ==
    /\ onair /\ onair' = FALSE
    /\ UNCHANGED <<sent, readout>>

ReadNext ==
    /\ Len(readout) < Len(sent)
    /\ Say(sent[Len(readout) + 1])
    /\ UNCHANGED <<sent, onair>>

Repeat ==
    /\ ~onair /\ Len(readout) >= Len(sent)
    /\ Say(IF sent = <<>> THEN Silence ELSE sent[Len(sent)])
    /\ UNCHANGED <<sent, onair>>

Next == (\E t \in Texts : Publish(t)) \/ SignOff \/ ReadNext \/ Repeat

Spec == Init /\ [][Next]_<<sent, readout, onair>>
=============================================================================
