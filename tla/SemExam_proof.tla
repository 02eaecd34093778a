--------------------------- MODULE SemExam_proof ----------------------------
(***************************************************************************)
(* Theorems about SemPingPong, for every number of rounds, and SemRestart:    *)
(* what survives any number of kills.  And about ExamHall, whose definitions   *)
(* have other names: that a thread stores all answers of its candidate, for    *)
(* any candidates and any number of questions.                                *)
(***************************************************************************)
EXTENDS SemRestart, ExamHall, SequenceTheorems, TLAPS
IInv == TypeOK /\ Handshake

\* The invariant holds when nothing was started and both semaphores are new.
LEMMA InitIInv == Init => IInv
  BY RoundsAssumption, LeftoversAssumption
  DEF Init, IInv, TypeOK, Handshake, OneTurn, RoundsAgree, Sessions, Values,
      Printed, P1Holds, P2Holds, Startup1, Loop1, Loop2, NextRound

\* Every statement of either program, and every start, preserves it.
LEMMA NextIInv == IInv /\ [Next]_vars => IInv'
<1> SUFFICES ASSUME IInv, [Next]_vars PROVE IInv'
  OBVIOUS
<1> USE RoundsAssumption
    DEF IInv, TypeOK, Handshake, OneTurn, RoundsAgree, Sessions, Values,
        Printed, P1Holds, P2Holds, Startup1, Loop1, Loop2, NextRound,
        shared, p1vars, p2vars
<1>1. CASE Start1
  BY <1>1 DEF Start1
<1>2. CASE Start2
  BY <1>2 DEF Start2
<1>3. CASE SetX1
  BY <1>3 DEF SetX1
<1>4. CASE SetY1
  BY <1>4 DEF SetY1
<1>5. CASE SetVal0
  BY <1>5 DEF SetVal0, SemSetVal
<1>6. CASE SetVal1
  BY <1>6 DEF SetVal1, SemSetVal
<1>7. CASE Put1
  BY <1>7 DEF Put1
<1>8. CASE Signal1
  BY <1>8 DEF Signal1, SemSignal
<1>9. CASE Wait1
  BY <1>9 DEF Wait1, SemWait
<1>10. CASE Print1
  BY <1>10 DEF Print1
<1>11. CASE Next1
  BY <1>11 DEF Next1
<1>12. CASE Wait2
  BY <1>12 DEF Wait2, SemWait
<1>13. CASE Print2
  BY <1>13 DEF Print2
<1>14. CASE Store2
  BY <1>14 DEF Store2
<1>15. CASE Signal2
  BY <1>15 DEF Signal2, SemSignal
<1>16. CASE UNCHANGED vars
  BY <1>16 DEF vars
<1> QED
  BY <1>1, <1>2, <1>3, <1>4, <1>5, <1>6, <1>7, <1>8, <1>9, <1>10, <1>11,
     <1>12, <1>13, <1>14, <1>15, <1>16 DEF Next, Step1, Step2

\* Type correctness and the full handshake, for every number of rounds.
THEOREM Inductive == Spec => []IInv
  BY InitIInv, NextIInv, PTL DEF Spec

\* P1.c, P2.c: the variables keep their types; the loop counters stay below
\* Rounds.
THEOREM TypeCorrect == Spec => []TypeOK
<1>1. IInv => TypeOK
  BY DEF IInv
<1> QED
  BY <1>1, Inductive, PTL

\* The programs never both hold the turn and the semaphores never hold two
\* (P1.c:134-148, P2.c:76-82).
THEOREM TurnIsUnique == Spec => []OneTurn
<1>1. IInv => OneTurn
  BY DEF IInv, Handshake
<1> QED
  BY <1>1, Inductive, PTL

\* The rounds, the shared integers and the lines printed agree at every
\* statement of both programs.
THEOREM HandshakeHolds == Spec => []Handshake
<1>1. IInv => Handshake
  BY DEF IInv
<1> QED
  BY <1>1, Inductive, PTL

-----------------------------------------------------------------------------
(* Refinement: the lines printed are 1, 2, ..., 2 * Rounds, in turn. *)

LEMMA InitRefines == Init => Lines!Init
  BY DEF Init, Lines!Init

\* Only the two print statements write a line, and each writes the successor
\* of the other program's last one; every other statement stutters.
LEMMA StepRefines == IInv /\ IInv' /\ [Next]_vars => [Lines!Next]_out
<1> SUFFICES ASSUME IInv, [Next]_vars PROVE [Lines!Next]_out
  OBVIOUS
<1> USE RoundsAssumption DEF IInv, TypeOK
<1>1. ASSUME Print2 PROVE Lines!PrintLine("P2", "P1")
  <2>1. pc2 = "print" /\ out' = [by |-> "P2", val |-> x]
    BY <1>1 DEF Print2
  <2>2. pc1 = "wait" /\ sem[1] = 0 /\ x = 2 * i1 + 1
    BY <2>1 DEF Handshake, OneTurn, P1Holds, P2Holds, Values
  <2>3. /\ out.by = "P1"
        /\ IF i1 = 0 THEN out.val \in {0, 2 * Rounds} ELSE out.val = 2 * i1
    BY <2>1, <2>2 DEF Handshake, Printed
  <2>4. i1 < Rounds /\ i1 \in Nat
    OBVIOUS
  <2>5. Lines!Successor(out.val) = 2 * i1 + 1
    BY <2>3, <2>4 DEF Lines!Successor, Lines!Lines
  <2> QED
    BY <2>1, <2>2, <2>3, <2>5 DEF Lines!PrintLine
<1>2. ASSUME Print1 PROVE Lines!PrintLine("P1", "P2")
  <2>1. pc1 = "print" /\ out' = [by |-> "P1", val |-> y]
    BY <1>2 DEF Print1
  <2>2. y = 2 * i1 + 2 /\ out = [by |-> "P2", val |-> 2 * i1 + 1]
    BY <2>1 DEF Handshake, Values, Printed
  <2>3. i1 < Rounds /\ i1 \in Nat
    OBVIOUS
  <2>4. Lines!Successor(out.val) = 2 * i1 + 2
    BY <2>2, <2>3 DEF Lines!Successor, Lines!Lines
  <2> QED
    BY <2>1, <2>2, <2>4 DEF Lines!PrintLine
<1>3. ASSUME Next, ~Print1, ~Print2 PROVE UNCHANGED out
  BY <1>3 DEF Next, Step1, Step2, Start1, Start2, SetX1, SetY1, SetVal0,
     SetVal1, Put1, Signal1, Wait1, Next1, Wait2, Store2, Signal2
<1>4. ASSUME UNCHANGED vars PROVE UNCHANGED out
  BY <1>4 DEF vars
<1> QED
  BY <1>1, <1>2, <1>3, <1>4 DEF Lines!Next

\* The two terminals show 1, 2, ..., 2 * Rounds in order, session after
\* session, for every number of rounds.
THEOREM Refinement == Spec => PrintsInOrder
<1>1. Init /\ [][Next]_vars /\ []IInv => Lines!Spec
  BY InitRefines, StepRefines, PTL DEF Lines!Spec
<1> QED
  BY <1>1, Inductive, PTL DEF Spec, PrintsInOrder
-----------------------------------------------------------------------------
(* With kills and restarts *)

\* Between the two semctl calls nobody can have signalled semaphore 0: only
\* P1 signals it.
WipeOrder == pc1 = "setval1" => sem[0] = 0

Base == TypeOK /\ Sessions /\ WipeOrder

RInv == Base /\ AtMostTwoTurns /\ RecoveredHandshake

LEMMA InitRInv == RInit => RInv
  BY RoundsAssumption, LeftoversAssumption
  DEF RInit, Init, RInv, Base, TypeOK, Sessions, WipeOrder, AtMostTwoTurns,
      Turns, RecoveredHandshake, OneTurn, RoundsAgree, Values, P1Holds,
      P2Holds, Startup1, Loop1, Loop2, NextRound

-----------------------------------------------------------------------------
\* Types, loop counters and the order of the two semctl calls.
LEMMA StepBase ==
  ASSUME Base, [RNext]_rvars
  PROVE  Base'
<1> USE RoundsAssumption
    DEF Base, TypeOK, Sessions, WipeOrder, Startup1, Loop1, Loop2,
        shared, p1vars, p2vars
<1>1. CASE RStart
  <2>1. CASE Start1
    BY <1>1, <2>1 DEF RStart, Start1
  <2>2. CASE Start2
    BY <1>1, <2>2 DEF RStart, Start2
  <2> QED
    BY <1>1, <2>1, <2>2 DEF RStart
<1>2. CASE Reset1
  BY <1>2 DEF Reset1, SetVal1, SemSetVal, Fresh2
<1>3. CASE Other1
  <2>1. CASE SetX1
    BY <1>3, <2>1 DEF Other1, SetX1
  <2>2. CASE SetY1
    BY <1>3, <2>2 DEF Other1, SetY1
  <2>3. CASE SetVal0
    BY <1>3, <2>3 DEF Other1, SetVal0, SemSetVal
  <2>4. CASE Put1
    BY <1>3, <2>4 DEF Other1, Put1
  <2>5. CASE Signal1
    BY <1>3, <2>5 DEF Other1, Signal1, SemSignal
  <2>6. CASE Wait1
    BY <1>3, <2>6 DEF Other1, Wait1, SemWait
  <2>7. CASE Print1
    BY <1>3, <2>7 DEF Other1, Print1
  <2>8. CASE Next1
    BY <1>3, <2>8 DEF Other1, Next1
  <2> QED
    BY <1>3, <2>1, <2>2, <2>3, <2>4, <2>5, <2>6, <2>7, <2>8 DEF Other1
<1>4. CASE RStep2
  <2>1. CASE Wait2
    BY <1>4, <2>1 DEF RStep2, Wait2, SemWait
  <2>2. CASE Print2
    BY <1>4, <2>2 DEF RStep2, Print2
  <2>3. CASE Store2
    BY <1>4, <2>3 DEF RStep2, Store2
  <2>4. CASE Signal2
    BY <1>4, <2>4 DEF RStep2, Signal2, SemSignal
  <2> QED
    BY <1>4, <2>1, <2>2, <2>3, <2>4 DEF RStep2, Step2
<1>5. CASE Kill1
  BY <1>5 DEF Kill1
<1>6. CASE Kill2
  BY <1>6 DEF Kill2
<1>7. CASE UNCHANGED rvars
  BY <1>7 DEF rvars, vars
<1> QED
  BY <1>1, <1>2, <1>3, <1>4, <1>5, <1>6, <1>7 DEF RNext, RStep1

\* No statement, start or kill makes a third turn.
LEMMA StepTurns ==
  ASSUME Base, AtMostTwoTurns, [RNext]_rvars
  PROVE  AtMostTwoTurns'
<1> USE RoundsAssumption
    DEF Base, TypeOK, Sessions, WipeOrder, Startup1, Loop1, Loop2,
        shared, p1vars, p2vars, AtMostTwoTurns, Turns, P2Holds
<1>1. CASE RStart
  <2>1. CASE Start1
    BY <1>1, <2>1 DEF RStart, Start1
  <2>2. CASE Start2
    BY <1>1, <2>2 DEF RStart, Start2
  <2> QED
    BY <1>1, <2>1, <2>2 DEF RStart
<1>2. CASE Reset1
  BY <1>2 DEF Reset1, SetVal1, SemSetVal, Fresh2
<1>3. CASE Other1
  <2>1. CASE SetX1
    BY <1>3, <2>1 DEF Other1, SetX1
  <2>2. CASE SetY1
    BY <1>3, <2>2 DEF Other1, SetY1
  <2>3. CASE SetVal0
    BY <1>3, <2>3 DEF Other1, SetVal0, SemSetVal
  <2>4. CASE Put1
    BY <1>3, <2>4 DEF Other1, Put1
  <2>5. CASE Signal1
    BY <1>3, <2>5 DEF Other1, Signal1, SemSignal
  <2>6. CASE Wait1
    BY <1>3, <2>6 DEF Other1, Wait1, SemWait
  <2>7. CASE Print1
    BY <1>3, <2>7 DEF Other1, Print1
  <2>8. CASE Next1
    BY <1>3, <2>8 DEF Other1, Next1
  <2> QED
    BY <1>3, <2>1, <2>2, <2>3, <2>4, <2>5, <2>6, <2>7, <2>8 DEF Other1
<1>4. CASE RStep2
  <2>1. CASE Wait2
    BY <1>4, <2>1 DEF RStep2, Wait2, SemWait
  <2>2. CASE Print2
    BY <1>4, <2>2 DEF RStep2, Print2
  <2>3. CASE Store2
    BY <1>4, <2>3 DEF RStep2, Store2
  <2>4. CASE Signal2
    BY <1>4, <2>4 DEF RStep2, Signal2, SemSignal
  <2> QED
    BY <1>4, <2>1, <2>2, <2>3, <2>4 DEF RStep2, Step2
<1>5. CASE Kill1
  BY <1>5 DEF Kill1
<1>6. CASE Kill2
  BY <1>6 DEF Kill2
<1>7. CASE UNCHANGED rvars
  BY <1>7 DEF rvars, vars
<1> QED
  BY <1>1, <1>2, <1>3, <1>4, <1>5, <1>6, <1>7 DEF RNext, RStep1

\* While clean holds, a step is one of the uninterrupted programs or a kill.
LEMMA StepRecovers ==
  ASSUME Base, RecoveredHandshake, [RNext]_rvars
  PROVE  RecoveredHandshake'
<1> USE RoundsAssumption
    DEF Base, TypeOK, Sessions, WipeOrder, Startup1, Loop1, Loop2,
        shared, p1vars, p2vars,
        RecoveredHandshake, OneTurn, RoundsAgree, Values, P1Holds, P2Holds,
        NextRound
<1>1. CASE RStart
  <2>1. CASE Start1
    BY <1>1, <2>1 DEF RStart, Start1
  <2>2. CASE Start2
    BY <1>1, <2>2 DEF RStart, Start2
  <2> QED
    BY <1>1, <2>1, <2>2 DEF RStart
<1>2. CASE Reset1
  <2>1. clean' => clean \/ Fresh2
    BY <1>2, Zenon DEF Reset1
  <2>2. /\ pc1 = "setval1" /\ pc1' = "put" /\ i1' = 0 /\ temp' = 1
        /\ sem'[0] = 0 /\ sem'[1] = 0
        /\ UNCHANGED <<pc2, i2>>
    BY <1>2 DEF Reset1, SetVal1, SemSetVal
  <2>3. clean \/ Fresh2 => i2 = 0 /\ ~P2Holds
    BY <2>2 DEF Fresh2
  <2> QED
    BY <2>1, <2>2, <2>3
<1>3. CASE Other1
  <2>1. CASE SetX1
    BY <1>3, <2>1 DEF Other1, SetX1
  <2>2. CASE SetY1
    BY <1>3, <2>2 DEF Other1, SetY1
  <2>3. CASE SetVal0
    BY <1>3, <2>3 DEF Other1, SetVal0, SemSetVal
  <2>4. CASE Put1
    BY <1>3, <2>4 DEF Other1, Put1
  <2>5. CASE Signal1
    BY <1>3, <2>5 DEF Other1, Signal1, SemSignal
  <2>6. CASE Wait1
    BY <1>3, <2>6 DEF Other1, Wait1, SemWait
  <2>7. CASE Print1
    BY <1>3, <2>7 DEF Other1, Print1
  <2>8. CASE Next1
    BY <1>3, <2>8 DEF Other1, Next1
  <2> QED
    BY <1>3, <2>1, <2>2, <2>3, <2>4, <2>5, <2>6, <2>7, <2>8 DEF Other1
<1>4. CASE RStep2
  <2>1. CASE Wait2
    BY <1>4, <2>1 DEF RStep2, Wait2, SemWait
  <2>2. CASE Print2
    BY <1>4, <2>2 DEF RStep2, Print2
  <2>3. CASE Store2
    BY <1>4, <2>3 DEF RStep2, Store2
  <2>4. CASE Signal2
    BY <1>4, <2>4 DEF RStep2, Signal2, SemSignal
  <2> QED
    BY <1>4, <2>1, <2>2, <2>3, <2>4 DEF RStep2, Step2
<1>5. CASE Kill1
  BY <1>5 DEF Kill1
<1>6. CASE Kill2
  BY <1>6 DEF Kill2
<1>7. CASE UNCHANGED rvars
  BY <1>7 DEF rvars, vars
<1> QED
  BY <1>1, <1>2, <1>3, <1>4, <1>5, <1>6, <1>7 DEF RNext, RStep1

-----------------------------------------------------------------------------
THEOREM RInductive == RSpec => []RInv
<1>1. RInv /\ [RNext]_rvars => RInv'
  BY StepBase, StepTurns, StepRecovers DEF RInv
<1> QED
  BY <1>1, InitRInv, PTL DEF RSpec

\* However often P1 and P2 are killed and started again, at most two turns
\* are in circulation, for every number of rounds.
THEOREM TurnsBounded == RSpec => []AtMostTwoTurns
<1>1. RInv => AtMostTwoTurns
  BY DEF RInv
<1> QED
  BY <1>1, RInductive, PTL

\* A P1 that resets the semaphores with no old P2 in its loop restores the
\* handshake, for every number of rounds and every history of kills.
THEOREM Recovers == RSpec => []RecoveredHandshake
<1>1. RInv => RecoveredHandshake
  BY DEF RInv
<1> QED
  BY <1>1, RInductive, PTL

-----------------------------------------------------------------------------
(* ExamHall *)

Entries == Candidates \X Nat

ExamTypes ==
    /\ cpc \in [Candidates -> {"idle", "paper", "ticket", "open", "answer", "verdict",
                               "ended", "killed"}]
    /\ typed \in [Candidates -> Nat]
    /\ backlog \in Seq(Candidates)
    /\ stream \in [Candidates -> Seq(Nat)]
    /\ tpc \in [Candidates -> {"none", "recv", "push", "store", "check", "done", "stuck"}]
    /\ ticket \in [Candidates -> Tickets]
    /\ got \in [Candidates -> Nat] /\ item \in [Candidates -> Nat]
    /\ Answers \in [Tickets -> Seq(Entries)]
    /\ raced \in BOOLEAN

\* Whoever waits, or is being admitted, has no thread yet, and is there once.
Admitted ==
    /\ \A c \in Candidates : cpc[c] = "idle" => tpc[c] = "none"
    /\ \A k \in 1..Len(backlog) : cpc[backlog[k]] # "idle" /\ tpc[backlog[k]] = "none"
    /\ \A j, k \in 1..Len(backlog) : j # k => backlog[j] # backlog[k]
    /\ "port" \in todo => backlog # <<>>
    /\ epc = "ticket" => /\ cur \in Candidates /\ cpc[cur] # "idle" /\ tpc[cur] = "none"
                         /\ \A k \in 1..Len(backlog) : backlog[k] # cur

\* The numbers from a to b - 1; 0 is the ticket.
Span(a, b) == [k \in 1..b - a |-> a + k - 1]

\* Before its thread runs, a candidate has sent its ticket, if that, and the
\* answers typed so far.
Sent ==
    \A c \in Candidates : ~Killed(c) =>
        /\ cpc[c] \in {"idle", "paper", "ticket"} => tpc[c] = "none" /\ stream[c] = <<>>
        /\ tpc[c] = "none" =>
              \/ stream[c] = <<>> /\ typed[c] = 0 /\ cpc[c] \notin {"open", "answer", "verdict"}
              \/ stream[c] = Span(0, typed[c] + 1)

\* The entries of c in s are those of its first n answers, in order.
KeptOf(s, c, n) ==
    /\ \A k \in 1..Len(s) : s[k][1] = c => s[k][2] \in 1..n
    /\ \A v \in 1..n : \E k \in 1..Len(s) : s[k] = <<c, v>>
    /\ \A j, k \in 1..Len(s) : s[j][1] = c /\ s[k][1] = c /\ j < k => s[j][2] < s[k][2]

NoneOf(s, c) == \A k \in 1..Len(s) : s[k][1] # c

\* The end of an answer is on its way to the map, or there.
Torn(c) ==
    \/ tpc[c] = "recv" /\ stream[c] # <<>> /\ Head(stream[c]) = Rest
    \/ tpc[c] \in {"push", "store"} /\ item[c] = Rest
    \/ \E k \in 1..Len(Answers[ticket[c]]) : Answers[ticket[c]][k] = <<c, Rest>>

\* The thread has stored the answers it got, and the rest is on its way.
InStep(c) ==
    /\ KeptOf(Answers[ticket[c]], c, got[c])
    /\ \/ /\ tpc[c] = "recv" /\ got[c] < NoOfQues /\ got[c] <= typed[c]
          /\ stream[c] = Span(got[c] + 1, typed[c] + 1)
       \/ /\ tpc[c] \in {"push", "store"} /\ got[c] < NoOfQues /\ got[c] < typed[c]
          /\ item[c] = got[c] + 1 /\ stream[c] = Span(got[c] + 2, typed[c] + 1)
       \/ tpc[c] \in {"check", "done"} /\ got[c] = NoOfQues

Examinee(c) ==
    /\ tpc[c] = "none" => got[c] = 0 /\ \A t \in Tickets : NoneOf(Answers[t], c)
    /\ tpc[c] # "none" /\ ~Killed(c) => Torn(c) \/ InStep(c)

Examined == ~raced => \A c \in Candidates : Examinee(c)

ExamInv == ExamTypes /\ Admitted /\ Sent /\ Examined

-----------------------------------------------------------------------------
\* What is left of a sequence, and where it is found in it.
LEMMA Taking ==
  ASSUME NEW S, NEW s \in Seq(S), s # <<>>
  PROVE  /\ Head(s) \in S /\ Tail(s) \in Seq(S) /\ Head(s) = s[1]
         /\ Len(s) \in Nat /\ Len(s) > 0 /\ Len(Tail(s)) = Len(s) - 1
         /\ \A k \in 1..Len(Tail(s)) : k + 1 \in 1..Len(s) /\ Tail(s)[k] = s[k + 1]
<1>1. Len(s) \in Nat \ {0} /\ Head(s) = s[1] /\ Head(s) \in S
  OBVIOUS
<1>2. Tail(s) \in Seq(S) /\ Len(Tail(s)) = Len(s) - 1
  OBVIOUS
<1>3. \A k \in 1..Len(s) - 1 : Tail(s)[k] = s[k + 1]
  OBVIOUS
<1> QED
  BY <1>1, <1>2, <1>3

\* A sequence that has grown by one.
LEMMA Adding ==
  ASSUME NEW S, NEW s \in Seq(S), NEW e \in S
  PROVE  /\ Append(s, e) \in Seq(S) /\ Append(s, e) # <<>>
         /\ Len(s) \in Nat /\ Len(Append(s, e)) = Len(s) + 1
         /\ \A k \in 1..Len(s) : Append(s, e)[k] = s[k]
         /\ Append(s, e)[Len(s) + 1] = e
  OBVIOUS

\* The numbers from a to b - 1 are a sequence of that length ...
LEMMA SpanIsSeq ==
  ASSUME NEW a \in Nat, NEW b \in Nat, a <= b
  PROVE  /\ Span(a, b) \in Seq(Nat) /\ Len(Span(a, b)) = b - a
         /\ \A k \in 1..b - a : Span(a, b)[k] = a + k - 1
<1>1. b - a \in Nat /\ \A k \in 1..b - a : a + k - 1 \in Nat
  OBVIOUS
<1>2. Span(a, b) \in Seq(Nat)
  BY <1>1 DEF Span
<1>3. DOMAIN Span(a, b) = 1..b - a /\ \A k \in 1..b - a : Span(a, b)[k] = a + k - 1
  BY DEF Span
<1>4. Len(Span(a, b)) = b - a
  BY <1>1, <1>2, <1>3
<1> QED
  BY <1>2, <1>3, <1>4

\* ... empty if b is a,
LEMMA SpanNone ==
  ASSUME NEW a \in Nat
  PROVE  Span(a, a) = <<>>
<1>1. 1..a - a = {}
  OBVIOUS
<1> QED
  BY <1>1 DEF Span

\* ... one longer if b is the next number sent,
LEMMA SpanMore ==
  ASSUME NEW a \in Nat, NEW b \in Nat, a <= b
  PROVE  Append(Span(a, b), b) = Span(a, b + 1)
<1> DEFINE s == Span(a, b)
           u == Span(a, b + 1)
           w == Append(s, b)
<1>1. s \in Seq(Nat) /\ Len(s) = b - a /\ \A k \in 1..b - a : s[k] = a + k - 1
  BY SpanIsSeq
<1>2. u \in Seq(Nat) /\ Len(u) = b + 1 - a /\ \A k \in 1..b + 1 - a : u[k] = a + k - 1
  BY SpanIsSeq
<1> HIDE DEF s, u
<1>3. /\ w \in Seq(Nat) /\ Len(w) = Len(s) + 1 /\ \A k \in 1..Len(s) : w[k] = s[k]
      /\ w[Len(s) + 1] = b
  BY <1>1, Adding
<1> HIDE DEF w
<1>4. Len(w) = Len(u)
  BY <1>1, <1>2, <1>3
<1>5. ASSUME NEW k \in 1..Len(u)
      PROVE  w[k] = u[k]
  <2>1. CASE k \in 1..Len(s)
    <3>1. w[k] = s[k] /\ k \in 1..b - a
      BY <1>1, <1>3, <2>1
    <3> QED
      BY <1>1, <1>2, <3>1
  <2>2. CASE k = Len(s) + 1
    <3>1. w[k] = b /\ k = b - a + 1
      BY <1>1, <1>3, <2>2
    <3> QED
      BY <1>2, <3>1
  <2> QED
    BY <1>1, <1>2, <2>1, <2>2
<1>6. w = u
  BY <1>2, <1>3, <1>4, <1>5, SeqEqual
<1> QED
  BY <1>6 DEF s, u, w

\* ... and one shorter when the first is received.
LEMMA SpanLess ==
  ASSUME NEW a \in Nat, NEW b \in Nat, a < b
  PROVE  Span(a, b) # <<>> /\ Head(Span(a, b)) = a /\ Tail(Span(a, b)) = Span(a + 1, b)
<1> DEFINE s == Span(a, b)
           u == Span(a + 1, b)
           w == Tail(s)
<1>1. s \in Seq(Nat) /\ Len(s) = b - a /\ \A k \in 1..b - a : s[k] = a + k - 1
  BY SpanIsSeq
<1>2. u \in Seq(Nat) /\ Len(u) = b - (a + 1) /\ \A k \in 1..b - (a + 1) : u[k] = a + 1 + k - 1
  BY SpanIsSeq
<1> HIDE DEF s, u
<1>3. s # <<>> /\ 1 \in 1..b - a
  BY <1>1
<1>4. /\ Head(s) = s[1] /\ w \in Seq(Nat) /\ Len(w) = Len(s) - 1
      /\ \A k \in 1..Len(w) : k + 1 \in 1..Len(s) /\ w[k] = s[k + 1]
  BY <1>1, <1>3, Taking
<1> HIDE DEF w
<1>5. Len(w) = Len(u)
  BY <1>1, <1>2, <1>4
<1>6. ASSUME NEW k \in 1..Len(u)
      PROVE  w[k] = u[k]
  <2>1. w[k] = s[k + 1] /\ k + 1 \in 1..b - a
    BY <1>1, <1>4, <1>5
  <2>2. s[k + 1] = a + (k + 1) - 1
    BY <1>1, <2>1
  <2> QED
    BY <1>2, <2>1, <2>2
<1>7. w = u
  BY <1>2, <1>4, <1>5, <1>6, SeqEqual
<1>8. Head(s) = a
  BY <1>1, <1>3, <1>4
<1> QED
  BY <1>3, <1>7, <1>8 DEF s, u, w

\* Of a candidate without entries its first no answers are kept.
LEMMA KeptNothing ==
  ASSUME NEW s, NEW c, NoneOf(s, c)
  PROVE  KeptOf(s, c, 0)
BY DEF KeptOf, NoneOf

\* An answer stored behind the others, of the candidate or of another one.
LEMMA KeptStored ==
  ASSUME NEW s \in Seq(Entries), NEW c \in Candidates, NEW n \in Nat, KeptOf(s, c, n)
  PROVE  KeptOf(Append(s, <<c, n + 1>>), c, n + 1)
<1> DEFINE u == Append(s, <<c, n + 1>>)
<1>1. /\ Len(s) \in Nat /\ Len(u) = Len(s) + 1 /\ \A k \in 1..Len(s) : u[k] = s[k]
      /\ u[Len(s) + 1] = <<c, n + 1>>
  BY Adding DEF Entries
<1> HIDE DEF u
<1>2. \A k \in 1..Len(u) : k \in 1..Len(s) \/ k = Len(s) + 1
  BY <1>1
<1>3. \A k \in 1..Len(s) : s[k][1] = c => s[k][2] \in 1..n
  BY DEF KeptOf
<1>4. \A k \in 1..Len(u) : u[k][1] = c => u[k][2] \in 1..n + 1
  BY <1>1, <1>2, <1>3
<1>5. ASSUME NEW v \in 1..n + 1
      PROVE  \E k \in 1..Len(u) : u[k] = <<c, v>>
  <2>1. CASE v = n + 1
    BY <1>1, <2>1
  <2>2. CASE v \in 1..n
    <3>1. PICK k \in 1..Len(s) : s[k] = <<c, v>>
      BY <2>2 DEF KeptOf
    <3>2. k \in 1..Len(u) /\ u[k] = <<c, v>>
      BY <1>1, <3>1
    <3> QED
      BY <3>2
  <2> QED
    BY <2>1, <2>2
<1>6. ASSUME NEW j \in 1..Len(u), NEW k \in 1..Len(u), u[j][1] = c, u[k][1] = c, j < k
      PROVE  u[j][2] < u[k][2]
  <2>1. j \in 1..Len(s) /\ u[j] = s[j]
    BY <1>1, <1>6
  <2>2. CASE k \in 1..Len(s)
    <3>1. u[k] = s[k]
      BY <1>1, <2>2
    <3> QED
      BY <1>6, <2>1, <2>2, <3>1 DEF KeptOf
  <2>3. CASE k = Len(s) + 1
    <3>1. u[k][2] = n + 1 /\ u[j][2] \in 1..n
      BY <1>1, <1>3, <1>6, <2>1, <2>3
    <3> QED
      BY <3>1
  <2> QED
    BY <1>2, <2>2, <2>3
<1> HIDE DEF u
<1>7. KeptOf(u, c, n + 1)
  BY <1>4, <1>5, <1>6 DEF KeptOf
<1> QED
  BY <1>7 DEF u

\* An entry of another candidate changes nothing.
LEMMA KeptBeside ==
  ASSUME NEW s \in Seq(Entries), NEW c \in Candidates, NEW n \in Nat,
         NEW d \in Candidates \ {c}, NEW v \in Nat
  PROVE  /\ KeptOf(s, c, n) => KeptOf(Append(s, <<d, v>>), c, n)
         /\ NoneOf(s, c) => NoneOf(Append(s, <<d, v>>), c)
<1> DEFINE u == Append(s, <<d, v>>)
<1>1. /\ Len(s) \in Nat /\ Len(u) = Len(s) + 1 /\ \A k \in 1..Len(s) : u[k] = s[k]
      /\ u[Len(s) + 1] = <<d, v>>
  BY Adding DEF Entries
<1> HIDE DEF u
<1>2. \A k \in 1..Len(u) : u[k][1] = c => k \in 1..Len(s) /\ u[k] = s[k]
  BY <1>1
<1>3. 1..Len(s) \subseteq 1..Len(u)
  BY <1>1
<1>4. NoneOf(s, c) => NoneOf(u, c)
  BY <1>2 DEF NoneOf
<1>5. ASSUME KeptOf(s, c, n)
      PROVE  KeptOf(u, c, n)
  <2>1. \A k \in 1..Len(u) : u[k][1] = c => u[k][2] \in 1..n
    BY <1>2, <1>5 DEF KeptOf
  <2>2. \A h \in 1..n : \E k \in 1..Len(u) : u[k] = <<c, h>>
    BY <1>1, <1>3, <1>5 DEF KeptOf
  <2>3. \A j, k \in 1..Len(u) : u[j][1] = c /\ u[k][1] = c /\ j < k => u[j][2] < u[k][2]
    BY <1>2, <1>5 DEF KeptOf
  <2> QED
    BY <2>1, <2>2, <2>3 DEF KeptOf
<1> QED
  BY <1>4, <1>5 DEF u

-----------------------------------------------------------------------------
\* Nobody has come, nothing has been stored.
LEMMA InitExam == ExamInit => ExamInv
<1> SUFFICES ASSUME ExamInit PROVE ExamInv
  OBVIOUS
<1>e. \A S : <<>> \in Seq(S) /\ Len(<<>>) = 0
  OBVIOUS
<1>1. ExamTypes
  BY <1>e DEF ExamInit, ExamTypes, Tickets, NoAnswers
<1>2. Admitted
  BY <1>e DEF ExamInit, Admitted
<1>3. Sent
  BY DEF ExamInit, Sent
<1>4. \A t \in Tickets, c \in Candidates : NoneOf(Answers[t], c)
  BY <1>e DEF ExamInit, NoneOf, NoAnswers
<1>5. Examined
  BY <1>4 DEF ExamInit, Examined, Examinee
<1> QED
  BY <1>1, <1>2, <1>3, <1>5 DEF ExamInv

\* An entry of a sequence is of the sequence's set.
LEMMA Member ==
  ASSUME NEW S, NEW s \in Seq(S), NEW k \in 1..Len(s)
  PROVE  s[k] \in S
  OBVIOUS

\* A function changed at one place, which need not be in its domain.
LEMMA Putting ==
  ASSUME NEW S, NEW T, NEW f \in [S -> T], NEW c, NEW v, c \in S => v \in T
  PROVE  /\ [f EXCEPT ![c] = v] \in [S -> T]
         /\ \A h \in S : [f EXCEPT ![c] = v][h] = IF h = c THEN v ELSE f[h]
  OBVIOUS

\* What recv may return besides an answer.
LEMMA ItemsAreNumbers == Rest \in Nat /\ Stale \in Nat
  BY NoOfQuesAssumption DEF Rest, Stale

\* What is left of an answer that was read with the ticket begins with its end.
LEMMA TicketTorn ==
  ASSUME NEW s \in Seq(Nat)
  PROVE  LET r == <<Rest>> \o SubSeq(s, 3, Len(s))
         IN  r \in Seq(Nat) /\ r # <<>> /\ Head(r) = Rest
<1> DEFINE u == SubSeq(s, 3, Len(s))
           r == <<Rest>> \o u
<1>1. u \in Seq(Nat)
  <2>1. Len(s) \in Nat /\ \A k \in 3..Len(s) : s[k] \in Nat
    OBVIOUS
  <2> QED
    BY <2>1, SubSeqProperties
<1>2. <<Rest>> \in Seq(Nat) /\ Len(<<Rest>>) = 1 /\ <<Rest>>[1] = Rest
  BY ItemsAreNumbers
<1> HIDE DEF u
<1>3. /\ r \in Seq(Nat) /\ Len(r) = 1 + Len(u)
      /\ \A k \in 1..1 + Len(u) : r[k] = IF k <= 1 THEN <<Rest>>[k] ELSE u[k - 1]
  BY <1>1, <1>2, ConcatProperties
<1>4. Len(u) \in Nat /\ 1 \in 1..1 + Len(u)
  BY <1>1
<1>5. r[1] = Rest
  BY <1>2, <1>3, <1>4
<1> HIDE DEF r
<1>6. r # <<>>
  BY <1>3, <1>4
<1>7. Head(r) = r[1]
  BY <1>3, <1>6, Taking
<1> QED
  BY <1>3, <1>5, <1>6, <1>7 DEF r, u

\* Every step keeps the types.
LEMMA StepTypes ==
  ASSUME ExamInv, [ExamNext]_examvars
  PROVE  ExamTypes'
<1> USE DEF candvars, connvars, obsvars, mainvars, threadvars, Goto
<1>t. ExamTypes
  BY DEF ExamInv
<1>1. CASE MainStart \/ MainPoll \/ MainReport \/ ObsStart \/ ObsOpen \/ ObsPacket
  <2>1. UNCHANGED <<cpc, typed, backlog, stream, tpc, ticket, got, item, Answers, raced>>
    BY <1>1 DEF MainStart, MainPoll, MainReport, ObsStart, ObsOpen, ObsPacket
  <2> QED
    BY <1>t, <2>1 DEF ExamTypes
<1>2. CASE MainAccept
  <2>1. UNCHANGED <<cpc, typed, stream, tpc, ticket, got, item, Answers, raced>>
    BY <1>2 DEF MainAccept
  <2>2. backlog # <<>> /\ backlog' = Tail(backlog)
    BY <1>2 DEF MainAccept, ExamInv, Admitted
  <2>3. backlog' \in Seq(Candidates)
    BY <1>t, <2>2, Taking DEF ExamTypes
  <2> QED
    BY <1>t, <2>1, <2>3 DEF ExamTypes
<1>3. CASE MainTicket
  <2>1. UNCHANGED <<cpc, typed, backlog, got, item, Answers, raced>>
    BY <1>3 DEF MainTicket
  <2>2. tpc' \in [Candidates -> {"none", "recv", "push", "store", "check", "done", "stuck"}]
    BY <1>3, <1>t DEF MainTicket, ExamTypes
  <2>3. ticket' \in [Candidates -> Tickets]
    BY <1>3, <1>t DEF MainTicket, ExamTypes, Tickets
  <2>4. stream' \in [Candidates -> Seq(Nat)]
    <3> DEFINE s == stream[cur]
    <3>1. cur \in Candidates /\ s \in Seq(Nat)
      BY <1>3, <1>t DEF MainTicket, ExamInv, Admitted, ExamTypes
    <3>2. \A v \in Seq(Nat) : [stream EXCEPT ![cur] = v] \in [Candidates -> Seq(Nat)]
      BY <1>t, Putting DEF ExamTypes
    <3>3. <<>> \in Seq(Nat) /\ <<Rest>> \o SubSeq(s, 3, Len(s)) \in Seq(Nat)
      BY <3>1, TicketTorn
    <3>4. \/ stream' = [stream EXCEPT ![cur] = <<>>]
          \/ stream' = [stream EXCEPT ![cur] = <<Rest>> \o SubSeq(s, 3, Len(s))]
      BY <1>3 DEF MainTicket
    <3> QED
      BY <3>1, <3>2, <3>3, <3>4
  <2> QED
    BY <1>t, <2>1, <2>2, <2>3, <2>4 DEF ExamTypes
<1>4. ASSUME NEW c \in Candidates, ThreadRecv(c)
      PROVE  ExamTypes'
  <2>1. UNCHANGED <<cpc, typed, backlog, ticket, got, Answers, raced>>
    BY <1>4 DEF ThreadRecv
  <2>2. tpc' \in [Candidates -> {"none", "recv", "push", "store", "check", "done", "stuck"}]
    BY <1>4, <1>t DEF ThreadRecv, ExamTypes
  <2>3. stream[c] \in Seq(Nat)
    BY <1>t DEF ExamTypes
  <2>4. stream[c] # <<>> => Head(stream[c]) \in Nat /\ Tail(stream[c]) \in Seq(Nat)
    BY <2>3, Taking
  <2>5. item' \in [Candidates -> Nat]
    BY <1>4, <1>t, <2>4, ItemsAreNumbers DEF ThreadRecv, ExamTypes
  <2>6. stream' \in [Candidates -> Seq(Nat)]
    BY <1>4, <1>t, <2>3, <2>4 DEF ThreadRecv, ExamTypes
  <2> QED
    BY <1>t, <2>1, <2>2, <2>5, <2>6 DEF ExamTypes
<1>5. ASSUME NEW c \in Candidates, ThreadPush(c)
      PROVE  ExamTypes'
  <2>1. UNCHANGED <<cpc, typed, backlog, stream, ticket, got, item, Answers, raced>>
    BY <1>5 DEF ThreadPush
  <2>2. tpc' \in [Candidates -> {"none", "recv", "push", "store", "check", "done", "stuck"}]
    BY <1>5, <1>t DEF ThreadPush, ExamTypes
  <2> QED
    BY <1>t, <2>1, <2>2 DEF ExamTypes
<1>6. ASSUME NEW c \in Candidates, ThreadStore(c)
      PROVE  ExamTypes'
  <2>1. UNCHANGED <<cpc, typed, backlog, stream, ticket>>
    BY <1>6 DEF ThreadStore
  <2>2. tpc' \in [Candidates -> {"none", "recv", "push", "store", "check", "done", "stuck"}]
    BY <1>6, <1>t DEF ThreadStore, ExamTypes
  <2>3. got' \in [Candidates -> Nat] /\ item' \in [Candidates -> Nat]
    BY <1>6, <1>t DEF ThreadStore, ExamTypes
  <2>4. Answers' \in [Tickets -> Seq(Entries)]
    <3> DEFINE s == Append(Answers[ticket[c]], <<c, item[c]>>)
    <3>1. Answers' = NoAnswers \/ Answers' = [Answers EXCEPT ![ticket[c]] = s]
      BY <1>6 DEF ThreadStore
    <3>2. s \in Seq(Entries)
      <4>1. Answers[ticket[c]] \in Seq(Entries) /\ <<c, item[c]>> \in Entries
        BY <1>t DEF ExamTypes, Entries
      <4> QED
        BY <4>1, Adding
    <3>3. NoAnswers \in [Tickets -> Seq(Entries)]
      BY DEF NoAnswers
    <3> HIDE DEF s
    <3>4. [Answers EXCEPT ![ticket[c]] = s] \in [Tickets -> Seq(Entries)]
      <4>1. Answers \in [Tickets -> Seq(Entries)]
        BY <1>t DEF ExamTypes
      <4> QED
        BY <3>2, <4>1, Putting
    <3> QED
      BY <3>1, <3>3, <3>4, Zenon
  <2>5. raced' \in BOOLEAN
    BY <1>6 DEF ThreadStore
  <2> QED
    BY <1>t, <2>1, <2>2, <2>3, <2>4, <2>5 DEF ExamTypes
<1>7. ASSUME NEW c \in Candidates, ThreadCheck(c)
      PROVE  ExamTypes'
  <2>1. UNCHANGED <<cpc, typed, backlog, stream, ticket, got, item, Answers, raced>>
    BY <1>7 DEF ThreadCheck
  <2>2. tpc' \in [Candidates -> {"none", "recv", "push", "store", "check", "done", "stuck"}]
    BY <1>7, <1>t DEF ThreadCheck, ExamTypes
  <2> QED
    BY <1>t, <2>1, <2>2 DEF ExamTypes
<1>8. ASSUME NEW c \in Candidates, CandConnect(c)
      PROVE  ExamTypes'
  <2>1. UNCHANGED <<typed, stream, threadvars>> /\ cpc' = [cpc EXCEPT ![c] = "paper"]
    BY <1>8 DEF CandConnect
  <2>2. backlog' \in Seq(Candidates)
    BY <1>8, <1>t, Adding DEF CandConnect, ExamTypes
  <2> QED
    BY <1>t, <2>1, <2>2 DEF ExamTypes
<1>9. ASSUME NEW c \in Candidates, CandTicket(c)
      PROVE  ExamTypes'
  <2>1. UNCHANGED <<typed, backlog, threadvars>> /\ cpc' = [cpc EXCEPT ![c] = "open"]
    BY <1>9 DEF CandTicket
  <2>2. Append(stream[c], Ticket) \in Seq(Nat)
    BY <1>t, Adding DEF ExamTypes, Ticket
  <2>3. stream' \in [Candidates -> Seq(Nat)]
    BY <1>9, <1>t, <2>2 DEF CandTicket, ExamTypes
  <2> QED
    BY <1>t, <2>1, <2>3 DEF ExamTypes
<1>10. ASSUME NEW c \in Candidates, CandAnswer(c)
       PROVE  ExamTypes'
  <2>1. /\ UNCHANGED <<backlog, threadvars>>
        /\ cpc' = [cpc EXCEPT ![c] = "verdict"] \/ cpc' = [cpc EXCEPT ![c] = "answer"]
    BY <1>10 DEF CandAnswer
  <2>2. typed' \in [Candidates -> Nat]
    BY <1>10, <1>t DEF CandAnswer, ExamTypes
  <2>3. Append(stream[c], typed'[c]) \in Seq(Nat)
    BY <1>t, <2>2, Adding DEF ExamTypes
  <2>4. stream' \in [Candidates -> Seq(Nat)]
    BY <1>10, <1>t, <2>3 DEF CandAnswer, ExamTypes
  <2> QED
    BY <1>t, <2>1, <2>2, <2>4 DEF ExamTypes
<1>11. ASSUME NEW c \in Candidates,
              CandPaper(c) \/ CandOpen(c) \/ CandVerdict(c) \/ CandLost(c)
       PROVE  ExamTypes'
  <2>1. UNCHANGED <<typed, backlog, stream, threadvars>>
    BY <1>11 DEF CandPaper, CandOpen, CandVerdict, CandLost
  <2>2. \E pc \in {"ticket", "answer", "ended"} : cpc' = [cpc EXCEPT ![c] = pc]
    BY <1>11 DEF CandPaper, CandOpen, CandVerdict, CandLost
  <2> QED
    BY <1>t, <2>1, <2>2 DEF ExamTypes
<1>12. ASSUME NEW c \in Candidates, CandKill(c)
       PROVE  ExamTypes'
  <2>1. UNCHANGED <<backlog, stream, threadvars>> /\ cpc' = [cpc EXCEPT ![c] = "killed"]
    BY <1>12 DEF CandKill
  <2>2. typed' \in [Candidates -> Nat]
    BY <1>12, <1>t DEF CandKill, ExamTypes
  <2> QED
    BY <1>t, <2>1, <2>2 DEF ExamTypes
<1>13. CASE UNCHANGED examvars
  BY <1>13, <1>t DEF examvars, ExamTypes
<1> QED
  BY <1>1, <1>2, <1>3, <1>4, <1>5, <1>6, <1>7, <1>8, <1>9, <1>10, <1>11, <1>12, <1>13
     DEF ExamNext, MainStep, CandStep, ThreadStep

\* Only these steps change where a candidate stands, or who waits.
LEMMA StepAdmitted ==
  ASSUME ExamInv, [ExamNext]_examvars
  PROVE  Admitted'
<1> USE DEF candvars, connvars, obsvars, mainvars, threadvars, Goto
<1>t. ExamTypes /\ Admitted
  BY DEF ExamInv
<1>0. ASSUME UNCHANGED <<backlog, cur>>, "port" \in todo' => "port" \in todo \/ backlog # <<>>,
             epc' = "ticket" => epc = "ticket",
             \A c \in Candidates : cpc'[c] = "idle" <=> cpc[c] = "idle",
             \A c \in Candidates : tpc'[c] = "none" <=> tpc[c] = "none"
      PROVE  Admitted'
  <2>1. \A k \in 1..Len(backlog) : backlog[k] \in Candidates
    BY <1>t DEF ExamTypes
  <2> QED
    BY <1>0, <1>t, <2>1 DEF Admitted
<1>1. CASE MainStart \/ MainPoll \/ MainReport \/ ObsStart \/ ObsOpen \/ ObsPacket
  <2>1. UNCHANGED <<backlog, cur, cpc, tpc>> /\ (epc' = "ticket" => epc = "ticket")
    BY <1>1 DEF MainStart, MainPoll, MainReport, ObsStart, ObsOpen, ObsPacket
  <2>2. "port" \in todo' => "port" \in todo \/ backlog # <<>>
    BY <1>1 DEF MainStart, MainPoll, MainReport, ObsStart, ObsOpen, ObsPacket
  <2> QED
    BY <1>0, <2>1, <2>2
<1>2. CASE MainAccept
  <2>1. /\ UNCHANGED <<cpc, tpc>> /\ backlog # <<>> /\ backlog' = Tail(backlog)
        /\ cur' = Head(backlog) /\ todo' = todo \ {"port"}
    BY <1>2, <1>t DEF MainAccept, Admitted
  <2>2. /\ Head(backlog) = backlog[1] /\ 1 \in 1..Len(backlog) /\ backlog[1] \in Candidates
        /\ \A k \in 1..Len(Tail(backlog)) :
              k # 0 /\ k + 1 \in 1..Len(backlog) /\ Tail(backlog)[k] = backlog[k + 1]
    BY <1>t, <2>1, Taking DEF ExamTypes
  <2>3. \A k \in 1..Len(backlog') : backlog'[k] # cur'
    BY <1>t, <2>1, <2>2 DEF Admitted
  <2>4. \A k \in 1..Len(backlog') : cpc[backlog'[k]] # "idle" /\ tpc[backlog'[k]] = "none"
    BY <1>t, <2>1, <2>2 DEF Admitted
  <2>5. ASSUME NEW j \in 1..Len(backlog'), NEW k \in 1..Len(backlog'), j # k
        PROVE  backlog'[j] # backlog'[k]
    <3>1. j + 1 # k + 1 /\ j + 1 \in 1..Len(backlog) /\ k + 1 \in 1..Len(backlog)
      BY <2>1, <2>2, <2>5
    <3> QED
      BY <1>t, <2>1, <2>2, <3>1 DEF Admitted
  <2>6. cur' \in Candidates /\ cpc[cur'] # "idle" /\ tpc[cur'] = "none"
    BY <1>t, <2>1, <2>2 DEF Admitted
  <2> QED
    BY <1>t, <2>1, <2>3, <2>4, <2>5, <2>6 DEF Admitted
<1>3. CASE MainTicket
  <2>1. /\ UNCHANGED <<cpc, backlog, todo>> /\ epc = "ticket" /\ epc' # "ticket"
        /\ tpc' = [tpc EXCEPT ![cur] = "recv"]
    BY <1>3 DEF MainTicket
  <2>2. /\ cur \in Candidates /\ cpc[cur] # "idle"
        /\ \A k \in 1..Len(backlog) : backlog[k] # cur
    BY <1>t, <2>1 DEF Admitted
  <2>3. \A c \in Candidates : c # cur => tpc'[c] = tpc[c]
    BY <1>t, <2>1 DEF ExamTypes
  <2>4. \A k \in 1..Len(backlog) : backlog[k] \in Candidates
    BY <1>t DEF ExamTypes
  <2> QED
    BY <1>t, <2>1, <2>2, <2>3, <2>4 DEF Admitted
<1>4. ASSUME NEW c \in Candidates, ThreadStep(c)
      PROVE  Admitted'
  <2>1. UNCHANGED <<cpc, backlog, todo, cur>> /\ (epc' = "ticket" => epc = "ticket")
    BY <1>4 DEF ThreadStep, ThreadRecv, ThreadPush, ThreadStore, ThreadCheck
  <2>2. /\ tpc[c] # "none" /\ tpc'[c] # "none"
        /\ \A h \in Candidates : h # c => tpc'[h] = tpc[h]
    BY <1>4, <1>t DEF ExamTypes, ThreadAt, ThreadStep, ThreadRecv, ThreadPush, ThreadStore,
                      ThreadCheck
  <2> QED
    BY <1>0, <2>1, <2>2
<1>5. ASSUME NEW c \in Candidates, CandConnect(c)
      PROVE  Admitted'
  <2>1. /\ UNCHANGED <<epc, todo, cur, tpc>> /\ cpc[c] = "idle"
        /\ cpc' = [cpc EXCEPT ![c] = "paper"] /\ backlog' = Append(backlog, c)
    BY <1>5 DEF CandConnect
  <2>2. /\ Len(backlog) \in Nat /\ Len(backlog') = Len(backlog) + 1
        /\ \A k \in 1..Len(backlog) : backlog'[k] = backlog[k]
        /\ backlog'[Len(backlog) + 1] = c /\ backlog' # <<>>
    <3>1. backlog \in Seq(Candidates)
      BY <1>t DEF ExamTypes
    <3> QED
      BY <2>1, <3>1, Adding
  <2>3. \A k \in 1..Len(backlog') :
          \/ k \in 1..Len(backlog) /\ backlog'[k] = backlog[k]
          \/ k = Len(backlog) + 1 /\ backlog'[k] = c
    <3>1. \A k \in 1..Len(backlog) + 1 : k \in 1..Len(backlog) \/ k = Len(backlog) + 1
      BY <2>2
    <3>2. ASSUME NEW k \in 1..Len(backlog) + 1
          PROVE  \/ k \in 1..Len(backlog) /\ backlog'[k] = backlog[k]
                 \/ k = Len(backlog) + 1 /\ backlog'[k] = c
      <4>1. CASE k \in 1..Len(backlog)
        BY <2>2, <4>1
      <4>2. CASE k = Len(backlog) + 1
        BY <2>2, <4>2
      <4> QED
        BY <3>1, <4>1, <4>2
    <3>3. 1..Len(backlog') = 1..Len(backlog) + 1
      BY <2>2
    <3> QED
      BY <3>2, <3>3, Zenon
  <2>4. \A k \in 1..Len(backlog) : backlog[k] \in Candidates /\ backlog[k] # c
    <3>1. \A k \in 1..Len(backlog) : backlog[k] \in Candidates
      BY <1>t, Member DEF ExamTypes
    <3>2. \A k \in 1..Len(backlog) : cpc[backlog[k]] # "idle"
      BY <1>t DEF Admitted
    <3> QED
      BY <2>1, <3>1, <3>2
  <2>5. /\ \A h \in Candidates : h # c => cpc'[h] = cpc[h]
        /\ cpc'[c] # "idle" /\ tpc'[c] = "none"
    BY <1>t, <2>1 DEF ExamTypes, Admitted
  <2>6. \A k \in 1..Len(backlog') : cpc'[backlog'[k]] # "idle" /\ tpc'[backlog'[k]] = "none"
    BY <1>t, <2>1, <2>3, <2>4, <2>5 DEF Admitted
  <2>7. \A j, k \in 1..Len(backlog') : j # k => backlog'[j] # backlog'[k]
    BY <1>t, <2>3, <2>4 DEF Admitted
  <2>8. epc = "ticket" => cur # c /\ \A k \in 1..Len(backlog') : backlog'[k] # cur
    BY <1>t, <2>1, <2>3 DEF Admitted
  <2>9. \A h \in Candidates : cpc'[h] = "idle" => tpc'[h] = "none"
    BY <1>t, <2>1, <2>5 DEF Admitted
  <2> QED
    BY <1>t, <2>1, <2>2, <2>5, <2>6, <2>7, <2>8, <2>9 DEF Admitted
<1>6. ASSUME NEW c \in Candidates, CandStep(c) \/ CandAnswer(c) \/ CandKill(c)
      PROVE  Admitted'
  <2>1. UNCHANGED <<epc, todo, cur, backlog, tpc>>
    BY <1>6 DEF CandStep, CandPaper, CandTicket, CandOpen, CandVerdict, CandLost, CandAnswer,
                CandKill
  <2>2. /\ cpc[c] # "idle" /\ cpc'[c] # "idle"
        /\ \A h \in Candidates : h # c => cpc'[h] = cpc[h]
    BY <1>6, <1>t DEF ExamTypes, CandStep, CandPaper, CandTicket, CandOpen, CandVerdict,
                      CandLost, CandAnswer, CandKill
  <2> QED
    BY <1>0, <2>1, <2>2
<1>7. CASE UNCHANGED examvars
  BY <1>0, <1>7 DEF examvars
<1> QED
  BY <1>1, <1>2, <1>3, <1>4, <1>5, <1>6, <1>7 DEF ExamNext, MainStep

\* Whatever a candidate sends before its thread runs follows its ticket.
LEMMA StepSent ==
  ASSUME ExamInv, [ExamNext]_examvars
  PROVE  Sent'
<1> USE DEF candvars, connvars, obsvars, mainvars, threadvars, Goto, Killed
<1>t. ExamTypes /\ Sent
  BY DEF ExamInv
\* What is to be shown of one candidate.
<1> DEFINE First(c) == cpc[c] \in {"idle", "paper", "ticket"} => tpc[c] = "none" /\ stream[c] = <<>>
           Then(c) == tpc[c] = "none" =>
              \/ stream[c] = <<>> /\ typed[c] = 0 /\ cpc[c] \notin {"open", "answer", "verdict"}
              \/ stream[c] = Span(0, typed[c] + 1)
<1>s. \A c \in Candidates : cpc[c] # "killed" => First(c) /\ Then(c)
  BY <1>t DEF Sent
<1>q. ASSUME \A c \in Candidates : cpc'[c] # "killed" => First(c)' /\ Then(c)'
      PROVE  Sent'
  BY <1>q DEF Sent
<1>0. ASSUME NEW c \in Candidates, cpc'[c] # "killed",
             cpc'[c] = cpc[c], tpc'[c] = tpc[c], stream'[c] = stream[c], typed'[c] = typed[c]
      PROVE  First(c)' /\ Then(c)'
  BY <1>0, <1>s
<1> HIDE DEF First, Then
<1>1. CASE MainStart \/ MainPoll \/ MainAccept \/ MainReport \/ ObsStart \/ ObsOpen \/ ObsPacket
           \/ UNCHANGED examvars
  <2>1. UNCHANGED <<cpc, tpc, stream, typed>>
    BY <1>1 DEF MainStart, MainPoll, MainAccept, MainReport, ObsStart, ObsOpen, ObsPacket,
                examvars
  <2> QED
    BY <1>0, <1>q, <2>1
<1>2. CASE MainTicket
  <2>1. /\ UNCHANGED <<cpc, typed>> /\ epc = "ticket" /\ (stream[cur] # <<>> \/ Killed(cur))
        /\ tpc' = [tpc EXCEPT ![cur] = "recv"]
    BY <1>2 DEF MainTicket
  <2>2. PICK c \in Candidates : c = cur
    BY <2>1 DEF ExamInv, Admitted
  <2>3. PICK v : stream' = [stream EXCEPT ![cur] = v]
    BY <1>2 DEF MainTicket
  <2>4. \A h \in Candidates : h # c => stream'[h] = stream[h]
    BY <1>t, <2>2, <2>3 DEF ExamTypes
  <2>5. tpc'[c] # "none" /\ \A h \in Candidates : h # c => tpc'[h] = tpc[h]
    BY <1>t, <2>1, <2>2 DEF ExamTypes
  <2>6. cpc'[c] # "killed" => First(c)' /\ Then(c)'
    BY <1>s, <2>1, <2>2, <2>5 DEF First, Then
  <2> QED
    BY <1>0, <1>q, <2>1, <2>4, <2>5, <2>6
<1>3. ASSUME NEW c \in Candidates, ThreadStep(c)
      PROVE  Sent'
  <2>1. UNCHANGED <<cpc, typed>> /\ (stream' = stream \/ \E v : stream' = [stream EXCEPT ![c] = v])
    BY <1>3 DEF ThreadStep, ThreadRecv, ThreadPush, ThreadStore, ThreadCheck
  <2>2. /\ tpc[c] # "none" /\ tpc'[c] # "none"
        /\ \A h \in Candidates : h # c => tpc'[h] = tpc[h]
    BY <1>3, <1>t DEF ExamTypes, ThreadAt, ThreadStep, ThreadRecv, ThreadPush, ThreadStore,
                      ThreadCheck
  <2>3. \A h \in Candidates : h # c => stream'[h] = stream[h]
    BY <1>t, <2>1 DEF ExamTypes
  <2>4. cpc'[c] # "killed" => First(c)' /\ Then(c)'
    BY <1>s, <2>1, <2>2 DEF First, Then
  <2> QED
    BY <1>0, <1>q, <2>1, <2>2, <2>3, <2>4
<1>4. ASSUME NEW c \in Candidates, CandTicket(c)
      PROVE  Sent'
  <2>1. /\ UNCHANGED <<tpc, typed>> /\ cpc[c] = "ticket" /\ cpc' = [cpc EXCEPT ![c] = "open"]
        /\ stream' = [stream EXCEPT ![c] = Append(stream[c], Ticket)]
    BY <1>4 DEF CandTicket
  <2>2. /\ cpc'[c] = "open" /\ stream'[c] = Append(stream[c], 0)
        /\ \A h \in Candidates : h # c => cpc'[h] = cpc[h] /\ stream'[h] = stream[h]
    BY <1>t, <2>1 DEF ExamTypes, Ticket
  <2>3. stream[c] = <<>> /\ tpc[c] = "none"
    BY <1>s, <2>1 DEF First
  <2>4. <<>> # Span(0, typed[c] + 1) /\ typed[c] + 1 \in Nat
    BY <1>t, SpanLess DEF ExamTypes
  <2>5. typed[c] = 0
    BY <1>s, <2>1, <2>3, <2>4 DEF Then
  <2>6. Append(<<>>, 0) = Span(0, 0 + 1)
    <3>1. 0 \in Nat /\ 0 <= 0
      OBVIOUS
    <3>2. Append(Span(0, 0), 0) = Span(0, 0 + 1) /\ Span(0, 0) = <<>>
      BY <3>1, SpanMore, SpanNone, Zenon
    <3> QED
      BY <3>2
  <2>7. First(c)' /\ Then(c)'
    BY <2>1, <2>2, <2>3, <2>5, <2>6 DEF First, Then
  <2> QED
    BY <1>0, <1>q, <2>1, <2>2, <2>7
<1>5. ASSUME NEW c \in Candidates, CandAnswer(c)
      PROVE  Sent'
  <2>1. /\ UNCHANGED tpc /\ cpc[c] = "answer"
        /\ cpc' = [cpc EXCEPT ![c] = "verdict"] \/ cpc' = [cpc EXCEPT ![c] = "answer"]
        /\ typed' = [typed EXCEPT ![c] = typed[c] + 1]
        /\ stream' = [stream EXCEPT ![c] = Append(stream[c], typed'[c])]
    BY <1>5 DEF CandAnswer
  <2>2. /\ cpc'[c] \in {"verdict", "answer"} /\ typed'[c] = typed[c] + 1 /\ typed[c] \in Nat
        /\ stream'[c] = Append(stream[c], typed[c] + 1)
        /\ \A h \in Candidates :
              h # c => cpc'[h] = cpc[h] /\ stream'[h] = stream[h] /\ typed'[h] = typed[h]
    BY <1>t, <2>1 DEF ExamTypes
  <2>3. tpc[c] = "none" => stream[c] = Span(0, typed[c] + 1)
    BY <1>s, <2>1 DEF Then
  <2>4. Append(Span(0, typed[c] + 1), typed[c] + 1) = Span(0, typed[c] + 1 + 1)
    <3>1. 0 \in Nat /\ typed[c] + 1 \in Nat /\ 0 <= typed[c] + 1
      BY <2>2
    <3> QED
      BY <3>1, SpanMore, Zenon
  <2>5. First(c)' /\ Then(c)'
    BY <2>1, <2>2, <2>3, <2>4 DEF First, Then
  <2> QED
    BY <1>0, <1>q, <2>1, <2>2, <2>5
<1>6. ASSUME NEW c \in Candidates, CandConnect(c) \/ CandPaper(c)
      PROVE  Sent'
  <2>1. /\ UNCHANGED <<tpc, typed, stream>> /\ cpc[c] \in {"idle", "paper"}
        /\ \E pc \in {"paper", "ticket"} : cpc' = [cpc EXCEPT ![c] = pc]
    BY <1>6 DEF CandConnect, CandPaper
  <2>2. /\ cpc'[c] \in {"paper", "ticket"}
        /\ \A h \in Candidates : h # c => cpc'[h] = cpc[h]
    BY <1>t, <2>1 DEF ExamTypes
  <2>3. First(c)' /\ Then(c)'
    BY <1>s, <2>1, <2>2 DEF First, Then
  <2> QED
    BY <1>0, <1>q, <2>1, <2>2, <2>3
<1>7. ASSUME NEW c \in Candidates, CandOpen(c) \/ CandVerdict(c) \/ CandLost(c)
      PROVE  Sent'
  <2>1. /\ UNCHANGED <<tpc, typed, stream>> /\ cpc[c] # "killed"
        /\ \/ cpc[c] = "open" /\ cpc' = [cpc EXCEPT ![c] = "answer"]
           \/ cpc' = [cpc EXCEPT ![c] = "ended"]
    BY <1>7 DEF CandOpen, CandVerdict, CandLost
  <2>2. /\ (cpc[c] = "open" /\ cpc'[c] = "answer") \/ cpc'[c] = "ended"
        /\ \A h \in Candidates : h # c => cpc'[h] = cpc[h]
    BY <1>t, <2>1 DEF ExamTypes
  <2>3. First(c)' /\ Then(c)'
    BY <1>s, <2>1, <2>2 DEF First, Then
  <2> QED
    BY <1>0, <1>q, <2>1, <2>2, <2>3
<1>8. ASSUME NEW c \in Candidates, CandKill(c)
      PROVE  Sent'
  <2>1. /\ UNCHANGED <<tpc, stream>> /\ cpc' = [cpc EXCEPT ![c] = "killed"]
        /\ typed' = [typed EXCEPT ![c] = 0]
    BY <1>8 DEF CandKill
  <2>2. /\ cpc'[c] = "killed"
        /\ \A h \in Candidates : h # c => cpc'[h] = cpc[h] /\ typed'[h] = typed[h]
    BY <1>t, <2>1 DEF ExamTypes
  <2> QED
    BY <1>0, <1>q, <2>1, <2>2
<1> QED
  BY <1>1, <1>2, <1>3, <1>4, <1>5, <1>6, <1>7, <1>8 DEF ExamNext, MainStep, CandStep

\* A step that does not touch a candidate's connection nor its thread leaves
\* what is known of it, whatever others store meanwhile.
LEMMA ExamineeKept ==
  ASSUME ExamTypes, NEW c \in Candidates, Examinee(c),
         tpc'[c] = tpc[c], got'[c] = got[c], ticket'[c] = ticket[c],
         \/ Killed(c)' \/ tpc[c] = "none"
         \/ ~Killed(c) /\ item'[c] = item[c] /\ stream'[c] = stream[c] /\ typed'[c] = typed[c],
         \A t \in Tickets :
            \/ Answers'[t] = Answers[t]
            \/ \E d \in Candidates \ {c}, v \in Nat : Answers'[t] = Append(Answers[t], <<d, v>>)
  PROVE  Examinee(c)'
<1>1. \A t \in Tickets : Answers[t] \in Seq(Entries)
  BY DEF ExamTypes
<1>2. ticket[c] \in Tickets /\ got[c] \in Nat
  BY DEF ExamTypes
<1>3. ASSUME NEW t \in Tickets, NoneOf(Answers[t], c)
      PROVE  NoneOf(Answers'[t], c)
  BY <1>1, <1>3, KeptBeside
<1>4. tpc'[c] = "none" => got'[c] = 0 /\ \A t \in Tickets : NoneOf(Answers'[t], c)
  BY <1>3 DEF Examinee
<1> DEFINE s == Answers[ticket[c]]
           u == Answers'[ticket[c]]
<1>5. KeptOf(s, c, got[c]) => KeptOf(u, c, got[c])
  <2>1. s \in Seq(Entries)
    BY <1>1, <1>2
  <2>2. \/ u = s \/ \E d \in Candidates \ {c}, v \in Nat : u = Append(s, <<d, v>>)
    BY <1>2
  <2> HIDE DEF s, u
  <2>3. ASSUME NEW d \in Candidates \ {c}, NEW v \in Nat, u = Append(s, <<d, v>>)
        PROVE  KeptOf(s, c, got[c]) => KeptOf(u, c, got[c])
    <3>1. KeptOf(s, c, got[c]) => KeptOf(Append(s, <<d, v>>), c, got[c])
      BY <1>2, <2>1, KeptBeside
    <3> QED
      BY <2>3, <3>1
  <2> QED
    BY <2>2, <2>3
<1>6. (\E k \in 1..Len(s) : s[k] = <<c, Rest>>) => \E k \in 1..Len(u) : u[k] = <<c, Rest>>
  <2>1. CASE u = s
    BY <2>1
  <2>2. ASSUME NEW d \in Candidates, NEW v \in Nat, u = Append(s, <<d, v>>)
        PROVE  \A k \in 1..Len(s) : k \in 1..Len(u) /\ u[k] = s[k]
    <3>1. s \in Seq(Entries) /\ <<d, v>> \in Entries
      BY <1>1, <1>2 DEF Entries
    <3> HIDE DEF s, u
    <3>2. /\ Len(s) \in Nat /\ Len(u) = Len(s) + 1 /\ \A k \in 1..Len(s) : u[k] = s[k]
      BY <2>2, <3>1, Adding
    <3> QED
      BY <3>2
  <2>3. \/ u = s \/ \E d \in Candidates \ {c}, v \in Nat : u = Append(s, <<d, v>>)
    BY <1>2
  <2> HIDE DEF s, u
  <2> QED
    BY <2>1, <2>2, <2>3
<1>7. ASSUME tpc'[c] # "none", ~Killed(c)'
      PROVE  Torn(c)' \/ InStep(c)'
  <2>1. /\ ~Killed(c) /\ item'[c] = item[c] /\ stream'[c] = stream[c] /\ typed'[c] = typed[c]
        /\ Torn(c) \/ InStep(c)
    BY <1>7 DEF Examinee
  <2>2. Torn(c) => Torn(c)'
    BY <1>6, <2>1 DEF Torn
  <2>3. InStep(c) => InStep(c)'
    BY <1>5, <2>1 DEF InStep
  <2> QED
    BY <2>1, <2>2, <2>3
<1> QED
  BY <1>4, <1>7 DEF Examinee

\* What a candidate has typed is in the map, in its thread's hands or in the
\* stream: each answer in one of them, and in order.
LEMMA StepExamined ==
  ASSUME ExamInv, [ExamNext]_examvars
  PROVE  Examined'
<1> USE DEF candvars, connvars, obsvars, mainvars, threadvars, Goto
<1>t. ExamTypes /\ Examined
  BY DEF ExamInv
<1> SUFFICES ASSUME ~raced', NEW c \in Candidates
             PROVE  Examinee(c)'
  BY DEF Examined
<1>r. ~raced
  BY <1>t DEF ExamTypes, ExamNext, MainStart, MainStep, MainPoll, MainAccept, MainTicket,
              MainReport, ObsStart, ObsOpen, ObsPacket, CandConnect, CandAnswer, CandKill,
              CandStep, CandPaper, CandTicket, CandOpen, CandVerdict, CandLost, ThreadStep,
              ThreadRecv, ThreadPush, ThreadStore, ThreadCheck, examvars
<1>e. Examinee(c)
  BY <1>t, <1>r DEF Examined
<1>n. got[c] \in Nat /\ typed[c] \in Nat /\ NoOfQues \in Nat \ {0} /\ ticket[c] \in Tickets
  BY <1>t, NoOfQuesAssumption DEF ExamTypes
<1>1. CASE \/ MainStart \/ MainPoll \/ MainAccept \/ MainReport \/ ObsStart \/ ObsOpen
           \/ ObsPacket \/ UNCHANGED examvars
  <2>1. UNCHANGED <<cpc, typed, stream, threadvars>>
    BY <1>1 DEF MainStart, MainPoll, MainAccept, MainReport, ObsStart, ObsOpen, ObsPacket,
                examvars
  <2> QED
    BY <1>t, <1>e, <2>1, ExamineeKept DEF Killed
<1>2. CASE MainTicket
  <2>1. /\ UNCHANGED <<cpc, typed, got, item, Answers>> /\ epc = "ticket"
        /\ stream[cur] # <<>> \/ Killed(cur)
        /\ tpc' = [tpc EXCEPT ![cur] = "recv"]
    BY <1>2 DEF MainTicket
  <2>2. cur \in Candidates /\ tpc[cur] = "none"
    BY <2>1 DEF ExamInv, Admitted
  <2>3. /\ \E v : stream' = [stream EXCEPT ![cur] = v]
        /\ \E v : ticket' = [ticket EXCEPT ![cur] = v]
    BY <1>2 DEF MainTicket
  <2>4. CASE c # cur
    <3>1. PICK v : stream' = [stream EXCEPT ![cur] = v]
      BY <2>3
    <3>2. PICK t : ticket' = [ticket EXCEPT ![cur] = t]
      BY <2>3
    <3>3. tpc'[c] = tpc[c] /\ stream'[c] = stream[c] /\ ticket'[c] = ticket[c]
      BY <1>t, <2>1, <2>4, <3>1, <3>2 DEF ExamTypes
    <3>4. Killed(c)' <=> Killed(c)
      BY <2>1 DEF Killed
    <3> QED
      BY <1>t, <1>e, <2>1, <3>3, <3>4, ExamineeKept
  <2>5. CASE c = cur
    <3>1. tpc'[c] = "recv"
      BY <1>t, <2>1, <2>2, <2>5 DEF ExamTypes
    <3>2. got[c] = 0 /\ \A t \in Tickets : NoneOf(Answers[t], c)
      BY <1>e, <2>2, <2>5 DEF Examinee
    <3>3. ticket'[c] \in Tickets
      BY StepTypes DEF ExamTypes
    <3>4. ASSUME ~Killed(c)
          PROVE  Torn(c)' \/ InStep(c)'
      <4>1. stream[c] # <<>> /\ stream[c] = Span(0, typed[c] + 1)
        BY <2>1, <2>2, <2>5, <3>4 DEF ExamInv, Sent
      <4>2. CASE Len(stream[c]) = 1
        <5>1. stream'[c] = <<>>
          BY <1>2, <1>t, <2>5, <4>2 DEF MainTicket, ExamTypes
        <5>2. typed[c] = 0
          <6>1. Len(stream[c]) = typed[c] + 1 - 0
            <7>1. PICK n \in Nat : n = typed[c] + 1
              BY <1>n
            <7>2. PICK z \in Nat : z = 0
              OBVIOUS
            <7>3. z <= n
              BY <7>2
            <7>4. Len(Span(z, n)) = n - z
              BY <7>3, SpanIsSeq
            <7> QED
              BY <4>1, <7>1, <7>2, <7>4
          <6> QED
            <7>1. \A n \in Nat : n + 1 - 0 = 1 => n = 0
              OBVIOUS
            <7> QED
              BY <1>n, <4>2, <6>1, <7>1
        <5>3. stream'[c] = Span(0 + 1, 0 + 1)
          BY <5>1, SpanNone
        <5>4. KeptOf(Answers'[ticket'[c]], c, 0)
          BY <2>1, <3>2, <3>3, KeptNothing
        <5> QED
          BY <1>n, <2>1, <3>1, <3>2, <5>2, <5>3, <5>4 DEF InStep
      <4>3. CASE Len(stream[c]) # 1
        <5>1. stream' = [stream EXCEPT ![c] = <<Rest>> \o SubSeq(stream[c], 3, Len(stream[c]))]
          <6>1. stream[c] \in Seq(Nat)
            BY <1>t DEF ExamTypes
          <6>2. ~(Len(stream[c]) <= 1)
            <7>1. Len(stream[c]) \in Nat /\ Len(stream[c]) > 0
              BY <4>1, <6>1, Taking
            <7>2. \A n \in Nat : n > 0 /\ n # 1 => ~(n <= 1)
              OBVIOUS
            <7> QED
              BY <4>3, <7>1, <7>2, Zenon
          <6>3. stream' = [stream EXCEPT ![cur] =
                             IF Len(stream[cur]) <= 1 THEN <<>>
                             ELSE <<Rest>> \o SubSeq(stream[cur], 3, Len(stream[cur]))]
            BY <1>2 DEF MainTicket
          <6> QED
            BY <2>5, <6>2, <6>3, Zenon
        <5>2. stream'[c] # <<>> /\ Head(stream'[c]) = Rest
          BY <1>t, <5>1, TicketTorn DEF ExamTypes
        <5> QED
          BY <3>1, <5>2 DEF Torn
      <4> QED
        BY <4>2, <4>3
    <3>5. Killed(c)' <=> Killed(c)
      BY <2>1 DEF Killed
    <3> QED
      BY <3>1, <3>4, <3>5 DEF Examinee
  <2> QED
    BY <2>4, <2>5
<1>3. ASSUME NEW d \in Candidates, \/ CandConnect(d) \/ CandPaper(d) \/ CandTicket(d) \/ CandOpen(d)
                                   \/ CandVerdict(d) \/ CandLost(d)
      PROVE  Examinee(c)'
  <2>1. /\ UNCHANGED <<typed, threadvars>>
        /\ \E pc \in {"paper", "ticket", "open", "answer", "ended"} : cpc' = [cpc EXCEPT ![d] = pc]
        /\ cpc[d] # "killed"
    BY <1>3 DEF CandConnect, CandPaper, CandTicket, CandOpen, CandVerdict, CandLost
  <2>2. Killed(c)' <=> Killed(c)
    BY <1>t, <2>1 DEF ExamTypes, Killed
  <2>3. stream'[c] = stream[c] \/ Killed(c) \/ tpc[c] = "none"
    <3>1. CASE CandTicket(d) /\ d = c
      BY <3>1 DEF CandTicket, ExamInv, Sent, Killed
    <3>2. CASE CandTicket(d) /\ d # c
      BY <1>t, <3>2 DEF CandTicket, ExamTypes
    <3>3. CASE ~CandTicket(d)
      BY <1>3, <3>3 DEF CandConnect, CandPaper, CandOpen, CandVerdict, CandLost
    <3> QED
      BY <3>1, <3>2, <3>3
  <2> QED
    BY <1>t, <1>e, <2>1, <2>2, <2>3, ExamineeKept
<1>4. ASSUME NEW d \in Candidates, CandAnswer(d)
      PROVE  Examinee(c)'
  <2>1. /\ UNCHANGED threadvars
        /\ cpc[d] = "answer"
        /\ \E pc \in {"verdict", "answer"} : cpc' = [cpc EXCEPT ![d] = pc]
        /\ typed' = [typed EXCEPT ![d] = typed[d] + 1]
        /\ stream' = [stream EXCEPT ![d] = Append(stream[d], typed'[d])]
    BY <1>4 DEF CandAnswer
  <2>2. Killed(c)' <=> Killed(c)
    BY <1>t, <2>1 DEF ExamTypes, Killed
  <2>3. CASE d # c \/ tpc[c] = "none"
    <3>1. d # c => typed'[c] = typed[c] /\ stream'[c] = stream[c]
      BY <1>t, <2>1 DEF ExamTypes
    <3> QED
      BY <1>t, <1>e, <2>1, <2>2, <2>3, <3>1, ExamineeKept
  <2>4. CASE d = c /\ tpc[c] # "none"
    <3>1. /\ typed'[c] = typed[c] + 1 /\ stream'[c] = Append(stream[c], typed[c] + 1)
          /\ stream[c] \in Seq(Nat) /\ ~Killed(c)
      BY <1>t, <2>1, <2>4 DEF ExamTypes, Killed
    <3>2. Torn(c) \/ InStep(c)
      BY <1>e, <2>4, <3>1 DEF Examinee
    <3>3. Torn(c) => Torn(c)'
      <4>1. stream[c] # <<>> => stream'[c] # <<>> /\ Head(stream'[c]) = Head(stream[c])
        <5>1. ASSUME stream[c] # <<>>
              PROVE  stream'[c] # <<>> /\ stream'[c][1] = stream[c][1] /\ stream'[c] \in Seq(Nat)
          <6>1. typed[c] + 1 \in Nat
            BY <1>n
          <6>2. 1 \in 1..Len(stream[c])
            BY <3>1, <5>1, Taking
          <6> QED
            BY <3>1, <6>1, <6>2, Adding
        <5> QED
          BY <3>1, <5>1, Taking
      <4> QED
        BY <2>1, <4>1 DEF Torn
    <3>4. InStep(c) => InStep(c)'
      <4>1. ASSUME NEW a \in Nat, a <= typed[c] + 1, stream[c] = Span(a, typed[c] + 1)
            PROVE  stream'[c] = Span(a, typed[c] + 1 + 1)
        <5>1. typed[c] + 1 \in Nat
          BY <1>n
        <5>2. Append(Span(a, typed[c] + 1), typed[c] + 1) = Span(a, typed[c] + 1 + 1)
          BY <4>1, <5>1, SpanMore, Zenon
        <5> QED
          BY <3>1, <4>1, <5>2
      <4>2. CASE /\ tpc[c] = "recv" /\ got[c] < NoOfQues /\ got[c] <= typed[c]
                 /\ stream[c] = Span(got[c] + 1, typed[c] + 1)
        <5>1. got[c] + 1 \in Nat /\ got[c] + 1 <= typed[c] + 1 /\ got[c] <= typed'[c]
          BY <1>n, <3>1, <4>2
        <5>2. stream'[c] = Span(got[c] + 1, typed'[c] + 1)
          BY <3>1, <4>1, <4>2, <5>1
        <5> QED
          BY <2>1, <4>2, <5>1, <5>2 DEF InStep
      <4>3. CASE /\ tpc[c] \in {"push", "store"} /\ got[c] < NoOfQues /\ got[c] < typed[c]
                 /\ item[c] = got[c] + 1 /\ stream[c] = Span(got[c] + 2, typed[c] + 1)
        <5>1. got[c] + 2 \in Nat /\ got[c] + 2 <= typed[c] + 1 /\ got[c] < typed'[c]
          <6>1. \A g, n \in Nat : g < n => g + 2 \in Nat /\ g + 2 <= n + 1 /\ g < n + 1
            OBVIOUS
          <6> QED
            BY <1>n, <3>1, <4>3, <6>1
        <5>2. stream'[c] = Span(got[c] + 2, typed'[c] + 1)
          BY <3>1, <4>1, <4>3, <5>1
        <5> QED
          BY <2>1, <4>3, <5>1, <5>2 DEF InStep
      <4>4. CASE tpc[c] \in {"check", "done"} /\ got[c] = NoOfQues
        BY <2>1, <4>4 DEF InStep
      <4> QED
        BY <4>2, <4>3, <4>4 DEF InStep
    <3>5. Torn(c)' \/ InStep(c)'
      BY <3>2, <3>3, <3>4
    <3> QED
      BY <2>1, <2>4, <3>5 DEF Examinee
  <2> QED
    BY <2>3, <2>4
<1>5. ASSUME NEW d \in Candidates, CandKill(d)
      PROVE  Examinee(c)'
  <2>1. /\ UNCHANGED <<stream, threadvars>> /\ cpc' = [cpc EXCEPT ![d] = "killed"]
        /\ typed' = [typed EXCEPT ![d] = 0]
    BY <1>5 DEF CandKill
  <2>2. Killed(c)' \/ ((Killed(c)' <=> Killed(c)) /\ typed'[c] = typed[c])
    BY <1>t, <2>1 DEF ExamTypes, Killed
  <2> QED
    BY <1>t, <1>e, <2>1, <2>2, ExamineeKept
<1>6. ASSUME NEW d \in Candidates, ThreadStep(d), d # c
      PROVE  Examinee(c)'
  <2>1. UNCHANGED <<cpc, typed>>
    BY <1>6 DEF ThreadStep, ThreadRecv, ThreadPush, ThreadStore, ThreadCheck
  <2>2. tpc'[c] = tpc[c] /\ got'[c] = got[c] /\ item'[c] = item[c]
    BY <1>6, <1>t DEF ExamTypes, ThreadStep, ThreadRecv, ThreadPush, ThreadStore, ThreadCheck
  <2>3. stream'[c] = stream[c] /\ ticket'[c] = ticket[c]
    BY <1>6, <1>t DEF ExamTypes, ThreadStep, ThreadRecv, ThreadPush, ThreadStore, ThreadCheck
  <2>4. ASSUME NEW t \in Tickets
        PROVE  Answers'[t] = Answers[t] \/ Answers'[t] = Append(Answers[t], <<d, item[d]>>)
    <3>1. CASE ThreadStore(d)
      <4>1. Answers' = [Answers EXCEPT ![ticket[d]] = Append(Answers[ticket[d]], <<d, item[d]>>)]
        BY <3>1 DEF ThreadStore
      <4> QED
        BY <1>t, <4>1 DEF ExamTypes
    <3>2. CASE ~ThreadStore(d)
      BY <1>6, <3>2 DEF ThreadStep, ThreadRecv, ThreadPush, ThreadCheck
    <3> QED
      BY <3>1, <3>2
  <2>5. item[d] \in Nat
    BY <1>t DEF ExamTypes
  <2>6. Killed(c)' <=> Killed(c)
    BY <2>1 DEF Killed
  <2>7. \A t \in Tickets :
          \/ Answers'[t] = Answers[t]
          \/ \E h \in Candidates \ {c}, v \in Nat : Answers'[t] = Append(Answers[t], <<h, v>>)
    BY <1>6, <2>4, <2>5
  <2> QED
    BY <1>t, <1>e, <2>1, <2>2, <2>3, <2>6, <2>7, ExamineeKept
<1>7. CASE ThreadStep(c)
  <2>1. UNCHANGED <<cpc, typed, ticket>> /\ (Killed(c)' <=> Killed(c))
    BY <1>7 DEF ThreadStep, ThreadRecv, ThreadPush, ThreadStore, ThreadCheck, Killed
  <2>2. tpc[c] # "none" /\ tpc'[c] # "none"
    BY <1>7, <1>t DEF ExamTypes, ThreadAt, ThreadStep, ThreadRecv, ThreadPush, ThreadStore,
                      ThreadCheck
  <2> SUFFICES ASSUME ~Killed(c) PROVE Torn(c)' \/ InStep(c)'
    BY <2>1, <2>2 DEF Examinee
  <2>3. Torn(c) \/ InStep(c)
    BY <1>e, <2>2 DEF Examinee
  <2>4. CASE ThreadRecv(c)
    <3>1. /\ UNCHANGED <<Answers, got>> /\ tpc[c] = "recv" /\ stream[c] # <<>>
      BY <2>4 DEF ThreadRecv, ThreadAt
    <3>2. tpc'[c] = "push" /\ item'[c] = Head(stream[c]) /\ stream'[c] = Tail(stream[c])
      BY <2>4, <1>t, <3>1 DEF ThreadRecv, ExamTypes
    <3>3. Torn(c) => Torn(c)'
      BY <2>1, <3>1, <3>2 DEF Torn
    <3>4. ASSUME InStep(c)
          PROVE  InStep(c)'
      <4>1. /\ got[c] < NoOfQues /\ got[c] <= typed[c]
            /\ stream[c] = Span(got[c] + 1, typed[c] + 1) /\ KeptOf(Answers[ticket[c]], c, got[c])
        BY <3>1, <3>4 DEF InStep
      <4>2. got[c] + 1 \in Nat /\ typed[c] + 1 \in Nat
        BY <1>n
      <4>3. got[c] # typed[c]
        BY <3>1, <4>1, <4>2, SpanNone
      <4>4. got[c] < typed[c] /\ got[c] + 1 < typed[c] + 1
        BY <1>n, <4>1, <4>3
      <4>5. item'[c] = got[c] + 1 /\ stream'[c] = Span(got[c] + 1 + 1, typed[c] + 1)
        <5>1. /\ Head(Span(got[c] + 1, typed[c] + 1)) = got[c] + 1
              /\ Tail(Span(got[c] + 1, typed[c] + 1)) = Span(got[c] + 1 + 1, typed[c] + 1)
          BY <4>2, <4>4, SpanLess
        <5> QED
          BY <3>2, <4>1, <5>1
      <4>6. got[c] + 1 + 1 = got[c] + 2
        BY <1>n
      <4> QED
        BY <2>1, <3>1, <3>2, <4>1, <4>4, <4>5, <4>6 DEF InStep
    <3> QED
      BY <2>3, <3>3, <3>4
  <2>5. CASE ThreadPush(c)
    <3>1. UNCHANGED <<Answers, got, item, stream>> /\ tpc[c] = "push" /\ tpc'[c] = "store"
      BY <2>5, <1>t DEF ThreadPush, ThreadAt, ExamTypes
    <3> QED
      BY <2>1, <2>3, <3>1 DEF Torn, InStep
  <2>6. CASE ThreadStore(c)
    <3> DEFINE s == Answers[ticket[c]]
    <3>1. /\ UNCHANGED stream /\ tpc[c] = "store" /\ got'[c] = got[c] + 1
          /\ tpc'[c] = IF got[c] + 1 = NoOfQues THEN "check" ELSE "recv"
      BY <2>6, <1>t DEF ThreadStore, ThreadAt, ExamTypes, LastQues
    <3>2. Answers' = [Answers EXCEPT ![ticket[c]] = Append(s, <<c, item[c]>>)]
      BY <2>6 DEF ThreadStore
    <3>3. Answers'[ticket'[c]] = Append(s, <<c, item[c]>>)
      BY <1>t, <1>n, <2>1, <3>2 DEF ExamTypes
    <3>4. s \in Seq(Entries) /\ <<c, item[c]>> \in Entries
      BY <1>t, <1>n DEF ExamTypes, Entries
    <3> HIDE DEF s
    <3>5. ASSUME Torn(c)
          PROVE  Torn(c)'
      <4> DEFINE u == Append(s, <<c, item[c]>>)
      <4>1. /\ Len(s) \in Nat /\ Len(u) = Len(s) + 1 /\ \A k \in 1..Len(s) : u[k] = s[k]
            /\ u[Len(s) + 1] = <<c, item[c]>>
        BY <3>4, Adding
      <4>2. item[c] = Rest \/ \E k \in 1..Len(s) : s[k] = <<c, Rest>>
        BY <3>1, <3>5 DEF Torn, s
      <4> HIDE DEF u
      <4>3. \E k \in 1..Len(u) : u[k] = <<c, Rest>>
        <5>1. CASE item[c] = Rest
          <6>1. Len(s) + 1 \in 1..Len(u)
            BY <4>1
          <6> QED
            BY <4>1, <5>1, <6>1
        <5>2. ASSUME NEW k \in 1..Len(s), s[k] = <<c, Rest>>
              PROVE  k \in 1..Len(u) /\ u[k] = <<c, Rest>>
          BY <4>1, <5>2
        <5> QED
          BY <4>2, <5>1, <5>2
      <4> QED
        BY <3>3, <4>3 DEF Torn, u
    <3>6. ASSUME InStep(c)
          PROVE  InStep(c)'
      <4>1. /\ got[c] < NoOfQues /\ got[c] < typed[c] /\ item[c] = got[c] + 1
            /\ stream[c] = Span(got[c] + 2, typed[c] + 1) /\ KeptOf(s, c, got[c])
        BY <3>1, <3>6 DEF InStep, s
      <4>2. KeptOf(Answers'[ticket'[c]], c, got'[c])
        BY <1>n, <3>1, <3>3, <3>4, <4>1, KeptStored
      <4>3. got[c] + 2 = got'[c] + 1 /\ got'[c] <= typed[c] /\ got'[c] <= NoOfQues
        BY <1>n, <3>1, <4>1
      <4>4. CASE got'[c] = NoOfQues
        BY <3>1, <4>2, <4>4 DEF InStep
      <4>5. CASE got'[c] # NoOfQues
        <5>1. tpc'[c] = "recv" /\ got'[c] < NoOfQues
          BY <1>n, <3>1, <4>3, <4>5
        <5>2. stream'[c] = Span(got'[c] + 1, typed'[c] + 1)
          BY <2>1, <3>1, <4>1, <4>3
        <5> QED
          BY <2>1, <4>2, <4>3, <5>1, <5>2 DEF InStep
      <4> QED
        BY <4>4, <4>5
    <3> QED
      BY <2>3, <3>5, <3>6
  <2>7. CASE ThreadCheck(c)
    <3>1. UNCHANGED <<Answers, got, item, stream>> /\ tpc[c] = "check" /\ tpc'[c] = "done"
      BY <2>7, <1>t DEF ThreadCheck, ThreadAt, ExamTypes
    <3> QED
      BY <2>1, <2>3, <3>1 DEF Torn, InStep
  <2> QED
    BY <1>7, <2>4, <2>5, <2>6, <2>7 DEF ThreadStep
<1> QED
  BY <1>1, <1>2, <1>3, <1>4, <1>5, <1>6, <1>7 DEF ExamNext, MainStep, CandStep

\* At the end of the loop all of it is in the map.
LEMMA DoneMeansKept == ExamInv => AnswersKept
<1> SUFFICES ASSUME ExamInv, NEW c \in Candidates
             PROVE  LET s == Answers[ticket[c]]
                        own == {k \in DOMAIN s : s[k][1] = c}
                    IN  tpc[c] = "done" /\ ~Killed(c) /\ ~raced /\ (\A k \in own : s[k][2] # Rest)
                        => /\ {s[k][2] : k \in own} = 1..NoOfQues
                           /\ \A j, k \in own : j < k => s[j][2] < s[k][2]
  BY DEF AnswersKept
<1> DEFINE s == Answers[ticket[c]]
           own == {k \in DOMAIN s : s[k][1] = c}
<1> SUFFICES ASSUME tpc[c] = "done", ~Killed(c), ~raced, \A k \in own : s[k][2] # Rest
             PROVE  /\ {s[k][2] : k \in own} = 1..NoOfQues
                    /\ \A j, k \in own : j < k => s[j][2] < s[k][2]
  OBVIOUS
<1>1. Torn(c) \/ InStep(c)
  BY DEF ExamInv, Examined, Examinee
<1>2. DOMAIN s = 1..Len(s) /\ \A k \in 1..Len(s) : s[k] \in Entries
  BY DEF ExamInv, ExamTypes
<1>3. ~Torn(c)
  <2>1. ASSUME NEW k \in 1..Len(s), s[k] = <<c, Rest>>
        PROVE  FALSE
    BY <1>2, <2>1
  <2> QED
    BY <2>1 DEF Torn
<1>4. KeptOf(s, c, NoOfQues)
  BY <1>1, <1>3 DEF InStep
<1> HIDE DEF s
<1>5. \A k \in own : s[k][2] \in 1..NoOfQues
  BY <1>2, <1>4 DEF KeptOf
<1>6. ASSUME NEW v \in 1..NoOfQues
      PROVE  \E k \in own : v = s[k][2]
  <2>1. PICK k \in 1..Len(s) : s[k] = <<c, v>>
    BY <1>4 DEF KeptOf
  <2> QED
    BY <1>2, <2>1
<1>7. \A j, k \in own : j < k => s[j][2] < s[k][2]
  BY <1>2, <1>4 DEF KeptOf
<1> HIDE DEF own
<1> QED
  BY <1>5, <1>6, <1>7

\* The invariant of the examination hall holds for any candidates and any number
\* of questions.
THEOREM ExamInvariant == ExamSpec => []ExamInv
<1>1. ExamInv /\ [ExamNext]_examvars => ExamInv'
  <2> SUFFICES ASSUME ExamInv, [ExamNext]_examvars PROVE ExamInv'
    OBVIOUS
  <2> QED
    BY StepTypes, StepAdmitted, StepSent, StepExamined DEF ExamInv
<1> QED
  BY InitExam, <1>1, PTL DEF ExamSpec

\* All answers of a candidate are kept, in order, whatever other threads and the
\* main thread did meanwhile, as long as it was not ended, its ticket was read
\* alone (EC.cpp:161) and no two operations on the map overlapped, be it for
\* different tickets, of which one comes first (EC.cpp:45).
THEOREM AnswersAreKept == ExamSpec => []AnswersKept
  BY ExamInvariant, DoneMeansKept, PTL

=============================================================================
