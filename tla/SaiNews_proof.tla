---------------------------- MODULE SaiNews_proof ----------------------------
(***************************************************************************)
(* SaiNews implements NewsWire: for any number of reporters and any bound on  *)
(* the repeats, the two threads read out what was sent, in order and in turn. *)
(***************************************************************************)
EXTENDS SaiNews, SequenceTheorems, TLAPS

Texts == Reporters \union {Stale}

Printed == [by : Threads, text : Texts \union {Silence}]

TypeOK ==
    /\ backlog \in Seq(Reporters)
    /\ epc \in {"off", "accept", "test", "doc", "news", "ended"}
    /\ epc \in {"test", "doc", "news"} => cur \in Reporters
    /\ line \in Seq(Texts) /\ sent \in Seq(Texts) /\ readout \in Seq(Printed)
    /\ tpc \in [Threads -> {"turn", "wait", "recv", "print", "post"}]
    /\ which \in {0, 1} /\ mutex \in {0, 1}
    /\ buffer \in Texts \union {Silence}

\* The semaphore lets one thread in; and nobody gets as far as the semaphore
\* out of turn, whose turn it is being the parity of what was read out.
Inside(t) == tpc[t] \in {"recv", "print", "post"}

OneInside ==
    /\ \A t, u \in Threads : Inside(t) /\ Inside(u) => t = u
    /\ mutex = 1 => \A t \in Threads : ~Inside(t)

InTurn ==
    /\ \A t \in Threads : tpc[t] \in {"wait", "recv", "print"} => Turn(t)
    /\ which = 1 <=> Len(readout) % 2 = 0

\* Texts taken into the buffer: all that were read out, and the one about to be.
Taken == Len(readout) + (IF \E t \in Threads : tpc[t] = "print" THEN 1 ELSE 0)

\* The line holds what was sent and not yet taken; more is taken than was sent
\* only after the editor has ended.
LineIsRest ==
    IF Taken <= Len(sent)
    THEN /\ Len(line) = Len(sent) - Taken
         /\ \A i \in 1 .. Len(line) : line[i] = sent[Taken + i]
    ELSE line = <<>> /\ epc = "ended"

\* The buffer holds the text taken last.
BufferIsLast ==
    buffer = IF Taken = 0 \/ Len(sent) = 0 THEN Silence
             ELSE IF Taken <= Len(sent) THEN sent[Taken] ELSE sent[Len(sent)]

WireInv == TypeOK /\ OneInside /\ InTurn /\ LineIsRest /\ BufferIsLast

-----------------------------------------------------------------------------
\* The parts of the state a reader's audience can tell apart.  Reporters and
\* document writers, and the news reader's starting and ending, leave them alone.
newsvars == <<epc, backlog, cur, sent, line, tpc, which, mutex, buffer, readout>>

LEMMA StepKinds ==
  ASSUME [Next]_vars
  PROVE  \/ UNCHANGED newsvars
         \/ \E r \in Reporters : ReporterConnect(r)
         \/ EditorStart \/ EditorAccept \/ EditorTest \/ EditorDoc \/ EditorNews \/ EditorKill
         \/ \E t \in Threads : ReaderStep(t)
<1> USE DEF vars, newsvars, reportervars, editorvars, readervars, writervars
<1>1. CASE NewsStart \/ NewsAccept \/ NewsKill
  BY <1>1 DEF NewsStart, NewsAccept, NewsKill
<1>2. ASSUME NEW r \in Reporters, ReporterSend(r) \/ ReporterKill(r)
      PROVE  UNCHANGED newsvars
  BY <1>2 DEF ReporterSend, ReporterKill
<1>3. ASSUME NEW w \in Writers, WriterConnect(w) \/ WriterStep(w) \/ WriterKill(w)
      PROVE  UNCHANGED newsvars
  BY <1>3 DEF WriterConnect, WriterStep, WriterRecvFd, WriterCopy, WriterKill
<1>4. CASE UNCHANGED vars
  BY <1>4
<1> QED
  BY <1>1, <1>2, <1>3, <1>4, Zenon DEF Next, EditorStep

\* Taking from a sequence and adding to it.
LEMMA Taking ==
  ASSUME NEW S, NEW s \in Seq(S), s # <<>>
  PROVE  /\ Head(s) \in S /\ Head(s) = s[1] /\ Tail(s) \in Seq(S)
         /\ Len(s) \in Nat \ {0} /\ Len(Tail(s)) = Len(s) - 1
         /\ \A i \in 1 .. Len(Tail(s)) : Tail(s)[i] = s[i + 1]
  BY HeadTailProperties

LEMMA Adding ==
  ASSUME NEW S, NEW s \in Seq(S), NEW e \in S
  PROVE  /\ Append(s, e) \in Seq(S) /\ Len(s) \in Nat /\ Len(Append(s, e)) = Len(s) + 1
         /\ \A i \in 1 .. Len(s) : Append(s, e)[i] = s[i]
         /\ Append(s, e)[Len(s) + 1] = e
  BY AppendProperties

\* The speakers alternate.
LEMMA NextParity ==
  ASSUME NEW n \in Nat
  PROVE  (n + 1) % 2 = 0 <=> ~(n % 2 = 0)
  OBVIOUS

\* Nothing has been sent at first, and nobody is inside.
LEMMA InitWireInv == Init => WireInv
<1> SUFFICES ASSUME Init PROVE WireInv
  OBVIOUS
<1>1. \A S : <<>> \in Seq(S) /\ Len(<<>>) = 0
  OBVIOUS
<1>2. TypeOK
  BY <1>1 DEF Init, TypeOK
<1>3. OneInside /\ InTurn
  BY <1>1 DEF Init, OneInside, InTurn, Inside, Turn
<1>4. Taken = 0
  BY <1>1 DEF Init, Taken
<1>5. LineIsRest /\ BufferIsLast
  BY <1>1, <1>4 DEF Init, LineIsRest, BufferIsLast
<1> QED
  BY <1>2, <1>3, <1>5 DEF WireInv

\* Every step keeps the types; the semaphore stays a flag because only who is
\* inside posts.
LEMMA StepTypes ==
  ASSUME WireInv, [Next]_vars
  PROVE  TypeOK'
<1> USE DEF WireInv, TypeOK
<1>1. CASE UNCHANGED newsvars
  BY <1>1 DEF newsvars
<1>2. ASSUME NEW r \in Reporters, ReporterConnect(r)
      PROVE  TypeOK'
  <2>1. Append(backlog, r) \in Seq(Reporters)
    BY Adding
  <2> QED
    BY <1>2, <2>1 DEF ReporterConnect, readervars
<1>3. CASE EditorStart
  BY <1>3 DEF EditorStart, readervars
<1>4. CASE EditorAccept
  <2>1. Head(backlog) \in Reporters /\ Tail(backlog) \in Seq(Reporters)
    BY <1>4, Taking DEF EditorAccept
  <2> QED
    BY <1>4, <2>1 DEF EditorAccept, readervars
<1>5. CASE EditorTest
  BY <1>5 DEF EditorTest, readervars
<1>6. CASE EditorDoc
  BY <1>6 DEF EditorDoc, readervars
<1>7. CASE EditorNews
  <2> DEFINE text == IF unread[cur] = "rest" THEN cur ELSE Stale
  <2>1. text \in Texts
    BY <1>7 DEF EditorNews, Texts
  <2>2. Append(line, text) \in Seq(Texts) /\ Append(sent, text) \in Seq(Texts)
    BY <2>1, Adding
  <2> QED
    BY <1>7, <2>2 DEF EditorNews, readervars
<1>8. CASE EditorKill
  BY <1>8 DEF EditorKill, readervars
<1>9. ASSUME NEW t \in Threads, ReaderStep(t)
      PROVE  TypeOK'
  <2>1. CASE ReaderTurn(t)
    BY <2>1 DEF ReaderTurn, Goto, editorvars
  <2>2. CASE ReaderWait(t)
    BY <2>2 DEF ReaderWait, Goto, editorvars
  <2>3. CASE ReaderRecv(t)
    <3>1. line # <<>> => Head(line) \in Texts /\ Tail(line) \in Seq(Texts)
      BY Taking
    <3> QED
      BY <2>3, <3>1 DEF ReaderRecv, Goto, editorvars
  <2>4. CASE ReaderPrint(t)
    <3>1. Append(readout, [by |-> t, text |-> buffer]) \in Seq(Printed)
      BY Adding DEF Printed
    <3> QED
      BY <2>4, <3>1 DEF ReaderPrint, Goto, editorvars
  <2>5. CASE ReaderPost(t)
    <3>1. mutex = 0
      BY <2>5 DEF ReaderPost, OneInside, Inside
    <3> QED
      BY <2>5, <3>1 DEF ReaderPost, Goto, editorvars
  <2> QED
    BY <1>9, <2>1, <2>2, <2>3, <2>4, <2>5 DEF ReaderStep
<1> QED
  BY <1>1, <1>2, <1>3, <1>4, <1>5, <1>6, <1>7, <1>8, <1>9, StepKinds

\* Every step keeps the threads one inside at a time, and in turn.
LEMMA StepTurns ==
  ASSUME WireInv, [Next]_vars
  PROVE  OneInside' /\ InTurn'
<1> USE DEF WireInv, TypeOK
<1>t. TypeOK'
  BY StepTypes
<1>u. UNCHANGED <<tpc, which, mutex, readout>> => OneInside' /\ InTurn'
  BY DEF OneInside, InTurn, Inside, Turn
<1>1. CASE UNCHANGED newsvars
  BY <1>1, <1>u DEF newsvars
<1>2. ASSUME NEW r \in Reporters, ReporterConnect(r)
      PROVE  OneInside' /\ InTurn'
  BY <1>2, <1>u DEF ReporterConnect, readervars
<1>3. CASE EditorStart \/ EditorAccept \/ EditorTest
  BY <1>3, <1>u DEF EditorStart, EditorAccept, EditorTest, readervars
<1>4. CASE EditorDoc \/ EditorNews \/ EditorKill
  BY <1>4, <1>u DEF EditorDoc, EditorNews, EditorKill, readervars
<1>5. ASSUME NEW t \in Threads, ReaderStep(t)
      PROVE  OneInside' /\ InTurn'
  <2>1. CASE ReaderTurn(t)
    BY <2>1 DEF ReaderTurn, Goto, OneInside, InTurn, Inside, Turn
  <2>2. CASE ReaderWait(t)
    <3>1. mutex = 1 /\ mutex' = 0
      BY <2>2 DEF ReaderWait
    <3> QED
      BY <2>2, <3>1 DEF ReaderWait, Goto, OneInside, InTurn, Inside, Turn
  <2>3. CASE ReaderRecv(t)
    BY <2>3 DEF ReaderRecv, Goto, OneInside, InTurn, Inside, Turn
  <2>4. CASE ReaderPrint(t)
    <3>1. Turn(t) /\ \A u \in Threads \ {t} : tpc[u] = "turn"
      BY <2>4 DEF ReaderPrint, OneInside, InTurn, Inside, Turn, Threads
    <3>2. Len(readout) \in Nat /\ Len(readout') = Len(readout) + 1
      BY <2>4, Adding DEF ReaderPrint, Printed
    <3>3. which' = 1 <=> Len(readout') % 2 = 0
      <4>1. (Len(readout) + 1) % 2 = 0 <=> ~(Len(readout) % 2 = 0)
        BY <3>2, NextParity
      <4>2. which' = 1 <=> which = 0
        BY <2>4, <3>1 DEF ReaderPrint, Turn, Threads
      <4> QED
        BY <3>2, <4>1, <4>2 DEF InTurn
    <3> QED
      BY <2>4, <3>1, <3>3 DEF ReaderPrint, Goto, OneInside, InTurn, Inside, Turn
  <2>5. CASE ReaderPost(t)
    BY <2>5 DEF ReaderPost, Goto, OneInside, InTurn, Inside, Turn
  <2> QED
    BY <1>5, <2>1, <2>2, <2>3, <2>4, <2>5 DEF ReaderStep
<1> QED
  BY <1>1, <1>2, <1>3, <1>4, <1>5, StepKinds

\* Every step but receiving leaves what was taken as it is.
LEMMA SameTaken ==
  ASSUME UNCHANGED <<tpc, readout>>
  PROVE  Taken' = Taken
  BY DEF Taken

\* Every step keeps the line the rest of what was sent, and the buffer the text
\* taken last.
LEMMA StepLine ==
  ASSUME WireInv, [Next]_vars
  PROVE  LineIsRest' /\ BufferIsLast'
<1> USE DEF WireInv, TypeOK
<1>t. TypeOK'
  BY StepTypes
<1>n. /\ Len(readout) \in Nat /\ Len(sent) \in Nat /\ Len(line) \in Nat
      /\ Taken \in Nat
  <2>1. Len(readout) \in Nat /\ Len(sent) \in Nat /\ Len(line) \in Nat
    OBVIOUS
  <2> QED
    BY <2>1 DEF Taken
<1>u. UNCHANGED <<epc, tpc, readout, sent, line, buffer>> => LineIsRest' /\ BufferIsLast'
  BY SameTaken DEF LineIsRest, BufferIsLast
<1>e. epc # "ended" /\ UNCHANGED <<tpc, readout, sent, line, buffer>>
        => LineIsRest' /\ BufferIsLast'
  BY SameTaken DEF LineIsRest, BufferIsLast
<1>1. CASE UNCHANGED newsvars
  BY <1>1, <1>u DEF newsvars
<1>2. ASSUME NEW r \in Reporters, ReporterConnect(r)
      PROVE  LineIsRest' /\ BufferIsLast'
  BY <1>2, <1>u DEF ReporterConnect, readervars
<1>3. CASE EditorStart \/ EditorAccept \/ EditorTest
  BY <1>3, <1>e DEF EditorStart, EditorAccept, EditorTest, readervars
<1>4. CASE EditorDoc \/ EditorKill
  BY <1>4, <1>e DEF EditorDoc, EditorKill, readervars
<1>5. CASE EditorNews
  <2> DEFINE text == IF unread[cur] = "rest" THEN cur ELSE Stale
  <2>1. CASE wire # "open"
    BY <1>5, <2>1, <1>e DEF EditorNews, readervars
  <2>2. CASE wire = "open"
    <3>1. text \in Texts
      BY <1>5 DEF EditorNews, Texts
    <3>2. line' = Append(line, text) /\ sent' = Append(sent, text)
      BY <1>5, <2>2 DEF EditorNews
    <3>3. epc # "ended" /\ UNCHANGED <<tpc, readout, buffer>>
      BY <1>5 DEF EditorNews, readervars
    <3>4. Taken <= Len(sent) /\ Taken' = Taken
      BY <3>3, SameTaken DEF LineIsRest
    <3> HIDE DEF text
    <3>5. /\ Len(line') = Len(line) + 1 /\ line'[Len(line) + 1] = text
          /\ \A i \in 1 .. Len(line) : line'[i] = line[i]
      BY <3>1, <3>2, Adding
    <3>6. /\ Len(sent') = Len(sent) + 1 /\ sent'[Len(sent) + 1] = text
          /\ \A i \in 1 .. Len(sent) : sent'[i] = sent[i]
      BY <3>1, <3>2, Adding
    <3>7. /\ Len(line) = Len(sent) - Taken
          /\ \A i \in 1 .. Len(line) : line[i] = sent[Taken + i]
      BY <3>4 DEF LineIsRest
    <3>8. LineIsRest'
      <4>1. ASSUME NEW i \in 1 .. Len(line')
            PROVE  line'[i] = sent'[Taken + i]
        <5>1. CASE i = Len(line) + 1
          BY <1>n, <3>5, <3>6, <3>7, <5>1
        <5>2. CASE i # Len(line) + 1
          <6>1. i \in 1 .. Len(line)
            BY <1>n, <3>5, <5>2
          <6>2. Taken + i \in 1 .. Len(sent)
            BY <1>n, <3>7, <6>1
          <6> QED
            BY <3>5, <3>6, <3>7, <6>1, <6>2
        <5> QED
          BY <5>1, <5>2
      <4> QED
        BY <1>n, <3>4, <3>5, <3>6, <3>7, <4>1 DEF LineIsRest
    <3>9. BufferIsLast'
      BY <1>n, <3>3, <3>4, <3>6 DEF BufferIsLast
    <3> QED
      BY <3>8, <3>9
  <2> QED
    BY <2>1, <2>2
<1>6. ASSUME NEW t \in Threads, ReaderStep(t)
      PROVE  LineIsRest' /\ BufferIsLast'
  <2>1. CASE ReaderTurn(t) \/ ReaderWait(t) \/ ReaderPost(t)
    <3>1. UNCHANGED <<epc, readout, sent, line, buffer>>
      BY <2>1 DEF ReaderTurn, ReaderWait, ReaderPost, editorvars
    <3>2. \A u \in Threads : tpc[u] = "print" <=> tpc'[u] = "print"
      BY <2>1 DEF ReaderTurn, ReaderWait, ReaderPost, Goto
    <3>3. Taken' = Taken
      BY <3>1, <3>2 DEF Taken
    <3> QED
      BY <3>1, <3>3 DEF LineIsRest, BufferIsLast
  <2>2. CASE ReaderRecv(t)
    <3>1. UNCHANGED <<epc, sent, readout>> /\ tpc[t] = "recv" /\ tpc'[t] = "print"
      BY <2>2 DEF ReaderRecv, Goto, editorvars
    <3>2. \A u \in Threads : tpc[u] # "print"
      BY <3>1 DEF OneInside, Inside
    <3>3. Taken = Len(readout) /\ Taken' = Taken + 1
      BY <1>n, <3>1, <3>2 DEF Taken
    <3>4. CASE line # <<>>
      <4>1. buffer' = Head(line) /\ line' = Tail(line)
        BY <2>2, <3>4 DEF ReaderRecv
      <4>2. /\ buffer' = line[1] /\ Len(line) > 0 /\ Len(line') = Len(line) - 1
            /\ \A i \in 1 .. Len(line') : line'[i] = line[i + 1]
        BY <1>n, <3>4, <4>1, Taking
      <4>3. /\ Taken <= Len(sent) /\ Len(line) = Len(sent) - Taken
            /\ \A i \in 1 .. Len(line) : line[i] = sent[Taken + i]
        BY <3>4 DEF LineIsRest
      <4>4. LineIsRest'
        <5>1. ASSUME NEW i \in 1 .. Len(line')
              PROVE  line'[i] = sent[Taken + 1 + i]
          <6>1. i + 1 \in 1 .. Len(line) /\ Taken + (i + 1) = Taken + 1 + i
            BY <1>n, <4>2
          <6> QED
            BY <4>2, <4>3, <6>1
        <5> QED
          BY <1>n, <3>1, <3>3, <4>2, <4>3, <5>1 DEF LineIsRest
      <4>5. BufferIsLast'
        <5>1. buffer' = sent[Taken + 1]
          BY <1>n, <4>2, <4>3
        <5> QED
          BY <1>n, <3>1, <3>3, <4>2, <4>3, <5>1 DEF BufferIsLast
      <4> QED
        BY <4>4, <4>5
    <3>5. CASE line = <<>>
      <4>1. epc = "ended" /\ UNCHANGED <<buffer, line>>
        BY <2>2, <3>5 DEF ReaderRecv
      <4>2. Taken >= Len(sent) /\ Len(line) = 0
        BY <1>n, <3>5 DEF LineIsRest
      <4>3. LineIsRest'
        BY <1>n, <3>1, <3>3, <3>5, <4>1, <4>2 DEF LineIsRest
      <4>4. BufferIsLast'
        BY <1>n, <3>1, <3>3, <4>1, <4>2 DEF BufferIsLast
      <4> QED
        BY <4>3, <4>4
    <3> QED
      BY <3>4, <3>5
  <2>3. CASE ReaderPrint(t)
    <3>1. /\ UNCHANGED <<epc, sent, line, buffer>>
          /\ tpc[t] = "print" /\ \A u \in Threads : tpc'[u] # "print"
      BY <2>3 DEF ReaderPrint, Goto, editorvars, OneInside, Inside
    <3>2. Len(readout') = Len(readout) + 1
      BY <2>3, Adding DEF ReaderPrint, Printed
    <3>3. Taken' = Taken
      BY <1>n, <3>1, <3>2 DEF Taken
    <3> QED
      BY <3>1, <3>3 DEF LineIsRest, BufferIsLast
  <2> QED
    BY <1>6, <2>1, <2>2, <2>3 DEF ReaderStep
<1> QED
  BY <1>1, <1>2, <1>3, <1>4, <1>5, <1>6, StepKinds

-----------------------------------------------------------------------------
\* At every moment the two threads share one turn, one buffer and one line
\* without losing or repeating a text (news_reader.c:32).
THEOREM WireInvariant == Spec => []WireInv
<1>1. Init => WireInv
  BY InitWireInv
<1>2. WireInv /\ [Next]_vars => WireInv'
  BY StepTypes, StepTurns, StepLine DEF WireInv
<1> QED
  BY <1>1, <1>2, PTL DEF Spec

\* A thread that prints is the speaker whose turn it is, and what it prints is
\* the next text sent, or a repetition once the editor has gone.
LEMMA PrintRefines ==
  ASSUME WireInv, NEW t \in Threads, ReaderPrint(t)
  PROVE  Wire!ReadNext \/ Wire!Repeat
<1> USE DEF WireInv, TypeOK
<1>1. /\ UNCHANGED <<epc, sent>> /\ tpc[t] = "print"
      /\ readout' = Append(readout, [by |-> t, text |-> buffer])
  BY DEF ReaderPrint, editorvars
<1>2. t = Wire!Speaker
  <2>1. Turn(t)
    BY <1>1 DEF InTurn
  <2> QED
    BY <2>1 DEF InTurn, Turn, Threads, Wire!Speaker
<1>3. Len(readout) \in Nat /\ Len(sent) \in Nat /\ Taken = Len(readout) + 1
  <2>1. Len(readout) \in Nat /\ Len(sent) \in Nat
    OBVIOUS
  <2> QED
    BY <1>1, <2>1 DEF Taken
<1>4. CASE Taken <= Len(sent)
  <2>1. buffer = sent[Len(readout) + 1]
    BY <1>3, <1>4 DEF BufferIsLast
  <2> QED
    BY <1>1, <1>2, <1>3, <1>4, <2>1 DEF Wire!ReadNext, Wire!Say
<1>5. CASE ~(Taken <= Len(sent))
  <2>1. epc = "ended" /\ Len(readout) >= Len(sent)
    BY <1>3, <1>5 DEF LineIsRest
  <2>2. buffer = IF sent = <<>> THEN Silence ELSE sent[Len(sent)]
    <3>1. sent = <<>> <=> Len(sent) = 0
      BY EmptySeq
    <3> QED
      BY <1>3, <1>5, <3>1 DEF BufferIsLast
  <2> QED
    BY <1>1, <1>2, <2>1, <2>2 DEF Wire!Repeat, Wire!Say
<1> QED
  BY <1>4, <1>5

\* Every step is a step of the wire, or nothing the audience sees.
LEMMA StepRefines ==
  ASSUME WireInv, [Next]_vars
  PROVE  [Wire!Next]_<<sent, readout, epc # "ended">>
<1> USE DEF WireInv, TypeOK
<1> DEFINE Same == UNCHANGED <<sent, readout, epc # "ended">>
<1>1. CASE UNCHANGED newsvars
  BY <1>1 DEF newsvars
<1>2. ASSUME NEW r \in Reporters, ReporterConnect(r)
      PROVE  Same
  BY <1>2 DEF ReporterConnect, readervars
<1>3. CASE EditorStart \/ EditorAccept \/ EditorTest
  BY <1>3 DEF EditorStart, EditorAccept, EditorTest, readervars
<1>4. CASE EditorDoc \/ EditorKill
  <2>1. epc # "ended" /\ UNCHANGED <<sent, readout>>
    BY <1>4 DEF EditorDoc, EditorKill, readervars
  <2>2. CASE epc' = "ended"
    BY <2>1, <2>2 DEF Wire!Next, Wire!SignOff
  <2>3. CASE epc' # "ended"
    BY <2>1, <2>3
  <2> QED
    BY <2>2, <2>3
<1>5. CASE EditorNews
  <2> DEFINE text == IF unread[cur] = "rest" THEN cur ELSE Stale
  <2>1. epc # "ended" /\ readout' = readout
    BY <1>5 DEF EditorNews, readervars
  <2>2. CASE wire = "open"
    <3>1. text \in Reporters \union {Stale}
      BY <1>5 DEF EditorNews
    <3>2. sent' = Append(sent, text) /\ epc' # "ended"
      BY <1>5, <2>2 DEF EditorNews
    <3>3. Wire!Publish(text)
      BY <2>1, <3>2 DEF Wire!Publish
    <3> QED
      BY <3>1, <3>3 DEF Wire!Next
  <2>3. CASE wire = "fin"
    BY <1>5, <2>1, <2>3 DEF EditorNews
  <2>4. CASE wire \notin {"open", "fin"}
    <3>1. sent' = sent /\ epc' = "ended"
      BY <1>5, <2>4 DEF EditorNews
    <3> QED
      BY <2>1, <3>1 DEF Wire!Next, Wire!SignOff
  <2> QED
    BY <2>2, <2>3, <2>4
<1>6. ASSUME NEW t \in Threads, ReaderStep(t)
      PROVE  Wire!Next \/ Same
  <2>1. CASE ReaderPrint(t)
    BY <2>1, PrintRefines DEF Wire!Next
  <2>2. CASE ReaderTurn(t) \/ ReaderWait(t) \/ ReaderRecv(t) \/ ReaderPost(t)
    BY <2>2 DEF ReaderTurn, ReaderWait, ReaderRecv, ReaderPost, editorvars
  <2> QED
    BY <1>6, <2>1, <2>2 DEF ReaderStep
<1> QED
  BY <1>1, <1>2, <1>3, <1>4, <1>5, <1>6, StepKinds

\* The busy wait on which and the semaphore (news_reader.c:32) implement the
\* wire: what is sent is read out once, in order and in turn, by two threads
\* with one buffer, and repeated only after the editor has ended.
THEOREM ImplementsWire == Spec => ReadInTurn
<1>1. Init => Wire!Init
  BY DEF Init, Wire!Init
<1>2. WireInv /\ [Next]_vars => [Wire!Next]_<<sent, readout, epc # "ended">>
  BY StepRefines
<1> QED
  BY <1>1, <1>2, WireInvariant, PTL DEF Spec, ReadInTurn, Wire!Spec

=============================================================================
