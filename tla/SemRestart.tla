----------------------------- MODULE SemRestart -----------------------------
(***************************************************************************)
(* The programs of SemPingPong when their user may kill either of them at   *)
(* any statement and start it again.  The semaphores and the shared memory   *)
(* survive a kill and semop is called without SEM_UNDO, so whatever turn the *)
(* killed program had taken is gone, and whatever it had signalled stays.    *)
(***************************************************************************)
EXTENDS SemPingPong

VARIABLE clean  \* history: P1 has set the semaphores since the last kill, and
                \* no P2 of before that was in the middle of a session

rvars == <<vars, clean>>

RInit == Init /\ clean = TRUE

Kill1 ==
    /\ pc1 # "down"
    /\ pc1' = "down" /\ i1' = 0 /\ temp' = 0
    /\ clean' = FALSE
    /\ UNCHANGED <<shared, p2vars, out>>

Kill2 ==
    /\ pc2 # "down"
    /\ pc2' = "down" /\ i2' = 0
    /\ clean' = FALSE
    /\ UNCHANGED <<shared, p1vars, out>>

\* P2 has no stale round: it is down or still before its first sem_wait(0).
Fresh2 == pc2 = "down" \/ (pc2 = "wait" /\ i2 = 0)

Reset1 == SetVal1 /\ clean' = (clean \/ Fresh2)

Other1 == (SetX1 \/ SetY1 \/ SetVal0 \/ Put1 \/ Signal1 \/ Wait1 \/ Print1 \/ Next1)
          /\ UNCHANGED clean

RStep1 == Reset1 \/ Other1

RStep2 == Step2 /\ UNCHANGED clean

RStart == (Start1 \/ Start2) /\ UNCHANGED clean

RNext == RStart \/ RStep1 \/ RStep2 \/ Kill1 \/ Kill2

RSpec == RInit /\ [][RNext]_rvars

RFairSpec == RSpec /\ WF_rvars(RStep1) /\ WF_rvars(RStep2)

-----------------------------------------------------------------------------
(* Properties *)

\* The turns in circulation: in the semaphores, taken by P2, taken by P1 in
\* its loop.
Turns ==
    sem[0] + sem[1]
    + (IF P2Holds THEN 1 ELSE 0)
    + (IF pc1 \in Loop1 \ {"wait"} THEN 1 ELSE 0)

\* However often the programs are killed and started again, never more than
\* two turns circulate: a new P1 wipes the semaphores (P1.c:121-129) and can
\* only miss the one turn a P2 of an earlier session has in its hands.
AtMostTwoTurns == Turns <= 2

\* After a kill, a P1 that sets the semaphores while no old P2 is in the
\* middle of its loop restores the whole handshake: the order "stop P2, start
\* P1, start P2" recovers from every crash.
RecoveredHandshake == clean => OneTurn /\ RoundsAgree /\ Values

\* And such a session comes to its end unless somebody kills again.
RecoveredSessionEnds ==
    (clean /\ pc1 # "down" /\ pc2 # "down") ~> (pc1 = "down" \/ ~clean)
=============================================================================
