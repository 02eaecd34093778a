----------------------------- MODULE SemPingPong -----------------------------
(***************************************************************************)
(* src/Semaphore and shared memo/SemBasic: P1.c and P2.c share two integers  *)
(* (x, y) and a set of two System V semaphores.  P1 writes x, signals        *)
(* semaphore 0 and waits on semaphore 1; P2 waits on 0, prints x, stores     *)
(* x + 1 into y and signals 1; P1 then prints y and goes on from y + 1.      *)
(* Each runs Rounds iterations and ends; the shared memory and the           *)
(* semaphores outlive both, and the next session finds them as they were.    *)
(***************************************************************************)
EXTENDS Naturals, FiniteSets

CONSTANTS
    Rounds,     \* 5 in the code: the bound of both for loops
    Leftovers   \* what the shared memory may hold before the first session

ASSUME RoundsAssumption == Rounds \in Nat \ {0}
ASSUME LeftoversAssumption == Leftovers \subseteq Nat

VARIABLES
    x, y,       \* the two shared integers
    sem,        \* the semaphore set: sem[0] and sem[1]
    pc1, i1,    \* P1: next statement and loop counter
    temp,       \* P1's local
    pc2, i2,    \* P2: next statement and loop counter
    out         \* the last line printed by either program

shared == <<x, y, sem>>
p1vars == <<pc1, i1, temp>>
p2vars == <<pc2, i2>>
vars == <<x, y, sem, pc1, i1, temp, pc2, i2, out>>

Startup1 == {"set_x", "set_y", "setval0", "setval1"}
Loop1 == {"put", "signal", "wait", "print", "next"}
Loop2 == {"wait", "print", "store", "signal"}

Init ==
    /\ x \in Leftovers
    /\ y \in Leftovers
    /\ sem = [s \in {0, 1} |-> 0]
    /\ pc1 = "down" /\ i1 = 0 /\ temp = 0
    /\ pc2 = "down" /\ i2 = 0
    /\ out = [by |-> "P1", val |-> 0]

(***************************************************************************)
(* The semaphore operations.  semop(-1) blocks until the value is positive,  *)
(* semop(+1) never blocks, semctl(SETVAL) overwrites.                        *)
(***************************************************************************)
SemWaitUnguarded(s) ==          \* seeded bug: sem_try_wait with its result ignored
    sem' = [sem EXCEPT ![s] = IF @ > 0 THEN @ - 1 ELSE 0]

SemWait(s) ==
    /\ sem[s] > 0
    /\ sem' = [sem EXCEPT ![s] = @ - 1]

SemSignal(s) == sem' = [sem EXCEPT ![s] = @ + 1]

SemSetValIgnored(s, v) ==       \* seeded bug: the stale value survives
    UNCHANGED sem

SemSetVal(s, v) == sem' = [sem EXCEPT ![s] = v]

-----------------------------------------------------------------------------
(* P1 *)

Start1 ==
    /\ pc1 = "down"
    /\ pc1' = "set_x" /\ i1' = 0 /\ temp' = 0
    /\ UNCHANGED <<shared, p2vars, out>>

SetX1 ==
    /\ pc1 = "set_x"
    /\ x' = 1
    /\ pc1' = "set_y"
    /\ UNCHANGED <<y, sem, i1, temp, p2vars, out>>

SetY1 ==
    /\ pc1 = "set_y"
    /\ y' = 1
    /\ pc1' = "setval0"
    /\ UNCHANGED <<x, sem, i1, temp, p2vars, out>>

SetVal0 ==
    /\ pc1 = "setval0"
    /\ SemSetVal(0, 0)
    /\ pc1' = "setval1"
    /\ UNCHANGED <<x, y, i1, temp, p2vars, out>>

SetVal1 ==                      \* and temp = 1, i = 0
    /\ pc1 = "setval1"
    /\ SemSetVal(1, 0)
    /\ pc1' = "put" /\ i1' = 0 /\ temp' = 1
    /\ UNCHANGED <<x, y, p2vars, out>>

Put1 ==
    /\ pc1 = "put"
    /\ x' = temp
    /\ pc1' = "signal"
    /\ UNCHANGED <<y, sem, i1, temp, p2vars, out>>

Signal1 ==
    /\ pc1 = "signal"
    /\ SemSignal(0)
    /\ pc1' = "wait"
    /\ UNCHANGED <<x, y, i1, temp, p2vars, out>>

Wait1WrongSem ==                \* seeded bug: waits on the semaphore it signals
    /\ pc1 = "wait"
    /\ SemWait(0)
    /\ pc1' = "print"
    /\ UNCHANGED <<x, y, i1, temp, p2vars, out>>

Wait1 ==
    /\ pc1 = "wait"
    /\ SemWait(1)
    /\ pc1' = "print"
    /\ UNCHANGED <<x, y, i1, temp, p2vars, out>>

Print1 ==
    /\ pc1 = "print"
    /\ out' = [by |-> "P1", val |-> y]
    /\ pc1' = "next"
    /\ UNCHANGED <<shared, i1, temp, p2vars>>

Next1NoPlus ==                  \* seeded bug: temp = *y
    /\ pc1 = "next"
    /\ temp' = y
    /\ IF i1 + 1 < Rounds
       THEN pc1' = "put" /\ i1' = i1 + 1
       ELSE pc1' = "down" /\ i1' = 0
    /\ UNCHANGED <<shared, p2vars, out>>

Next1 ==                        \* temp = *y + 1; i++; i < 5
    /\ pc1 = "next"
    /\ temp' = y + 1
    /\ IF i1 + 1 < Rounds
       THEN pc1' = "put" /\ i1' = i1 + 1
       ELSE pc1' = "down" /\ i1' = 0
    /\ UNCHANGED <<shared, p2vars, out>>

-----------------------------------------------------------------------------
(* P2: no semctl, it takes the semaphores as it finds them *)

Start2 ==
    /\ pc2 = "down"
    /\ pc2' = "wait" /\ i2' = 0
    /\ UNCHANGED <<shared, p1vars, out>>

Wait2 ==
    /\ pc2 = "wait"
    /\ SemWait(0)
    /\ pc2' = "print"
    /\ UNCHANGED <<x, y, p1vars, i2, out>>

Print2 ==
    /\ pc2 = "print"
    /\ out' = [by |-> "P2", val |-> x]
    /\ pc2' = "store"
    /\ UNCHANGED <<shared, p1vars, i2>>

Store2 ==
    /\ pc2 = "store"
    /\ y' = x + 1
    /\ pc2' = "signal"
    /\ UNCHANGED <<x, sem, p1vars, i2, out>>

Signal2OffByOne ==              \* seeded bug: i <= 5 in P2's loop only
    /\ pc2 = "signal"
    /\ SemSignal(1)
    /\ IF i2 + 1 <= Rounds
       THEN pc2' = "wait" /\ i2' = i2 + 1
       ELSE pc2' = "down" /\ i2' = 0
    /\ UNCHANGED <<x, y, p1vars, out>>

Signal2 ==                      \* sem_signal(1); i++; i < 5
    /\ pc2 = "signal"
    /\ SemSignal(1)
    /\ IF i2 + 1 < Rounds
       THEN pc2' = "wait" /\ i2' = i2 + 1
       ELSE pc2' = "down" /\ i2' = 0
    /\ UNCHANGED <<x, y, p1vars, out>>

-----------------------------------------------------------------------------
Step1 == SetX1 \/ SetY1 \/ SetVal0 \/ SetVal1
         \/ Put1 \/ Signal1 \/ Wait1 \/ Print1 \/ Next1

Step2 == Wait2 \/ Print2 \/ Store2 \/ Signal2

Next == Start1 \/ Start2 \/ Step1 \/ Step2

Spec == Init /\ [][Next]_vars

\* The scheduler runs a process that can run.  Whether a user starts a
\* program (again) is the user's choice: no fairness there.
FairSpec == Spec /\ WF_vars(Step1) /\ WF_vars(Step2)

-----------------------------------------------------------------------------
(* Properties *)

TypeOK ==
    /\ x \in Nat /\ y \in Nat
    /\ sem \in [{0, 1} -> Nat]
    /\ pc1 \in {"down"} \cup Startup1 \cup Loop1
    /\ pc2 \in {"down"} \cup Loop2
    /\ i1 \in 0 .. Rounds - 1 /\ i2 \in 0 .. Rounds - 1
    /\ temp \in Nat
    /\ out \in [by : {"P1", "P2"}, val : Nat]

\* The turn is P1's (anywhere but blocked in sem_wait(1)), in semaphore 0,
\* P2's (past sem_wait(0)), or in semaphore 1.
P1Holds == pc1 # "wait"
P2Holds == pc2 \in {"print", "store", "signal"}

\* Exactly one of the four places holds the turn: x and y are never touched
\* by both programs at once, no signal is lost and none is doubled, whatever
\* the order in which the programs are started (P1.c:134-148, P2.c:76-82).
OneTurn ==
    \/ P1Holds /\ ~P2Holds /\ sem[0] = 0 /\ sem[1] = 0
    \/ ~P1Holds /\ ~P2Holds /\ sem[0] = 1 /\ sem[1] = 0
    \/ ~P1Holds /\ P2Holds /\ sem[0] = 0 /\ sem[1] = 0
    \/ ~P1Holds /\ ~P2Holds /\ sem[0] = 0 /\ sem[1] = 1

\* The loop counters agree: P2 is in P1's round until it has signalled it,
\* and is at its loop's end (or not started again) when P1 starts a session.
NextRound(i) == IF i + 1 < Rounds THEN i + 1 ELSE 0

RoundsAgree ==
    IF sem[1] = 1 \/ pc1 \in {"print", "next"}
    THEN i2 = NextRound(i1)
    ELSE i2 = i1

\* A program that is not in its loop is at round 0; P2 is between two
\* sessions exactly when it has no round left to answer.
Sessions ==
    /\ pc1 \in {"down"} \cup Startup1 => i1 = 0
    /\ pc2 = "down" => i2 = 0

\* What P1 and P2 have in x, y and temp.
Values ==
    /\ pc1 = "put" => temp = 2 * i1 + 1
    /\ pc1 \in {"signal", "wait"} => x = 2 * i1 + 1
    /\ sem[1] = 1 \/ pc1 \in {"print", "next"} \/ pc2 = "signal" => y = 2 * i1 + 2

\* What was printed last.
Printed ==
    LET answered == sem[1] = 1 \/ pc1 = "print" \/ pc2 \in {"store", "signal"}
    IN  /\ answered => out = [by |-> "P2", val |-> 2 * i1 + 1]
        /\ pc1 = "next" => out = [by |-> "P1", val |-> 2 * i1 + 2]
        /\ ~answered /\ pc1 # "next" =>
              /\ out.by = "P1"
              /\ IF i1 = 0 THEN out.val \in {0, 2 * Rounds} ELSE out.val = 2 * i1

\* The inductive invariant: the turn, the rounds, the data and the output.
Handshake == OneTurn /\ RoundsAgree /\ Sessions /\ Values /\ Printed

\* Both terminals together show 1, 2, ..., 2 * Rounds in order and then start
\* again from 1: the programs implement TurnCounter.
Lines == INSTANCE TurnCounter WITH Rounds <- Rounds, out <- out

PrintsInOrder == Lines!Spec

\* A session in which both programs run comes to its end: the waits of the
\* two loops never wait for each other, and nobody waits for a signal that
\* was sent to an earlier session.
SessionEnds == (pc1 # "down" /\ pc2 # "down") ~> (pc1 = "down")

=============================================================================
