------------------------------ MODULE MsgQueue ------------------------------
(***************************************************************************)
(* A System V message queue as the programs of this repository use it: one   *)
(* sequence of messages with a type, msgsnd appends and blocks when the      *)
(* queue is full, msgrcv with a positive type takes the first message of     *)
(* that type and blocks when there is none.                                  *)
(***************************************************************************)
EXTENDS Naturals, Sequences, SequencesExt

OfType(q, t) == {i \in DOMAIN q : q[i].type = t}

HasType(q, t) == OfType(q, t) # {}

IndexOfType(q, t) == CHOOSE i \in OfType(q, t) : \A j \in OfType(q, t) : i <= j

FirstOfType(q, t) == q[IndexOfType(q, t)]

WithoutFirst(q, t) == RemoveAt(q, IndexOfType(q, t))
=============================================================================
