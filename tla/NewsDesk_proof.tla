---------------------------- MODULE NewsDesk_proof ----------------------------
(***************************************************************************)
(* Theorems about NewsDesk: what the editor publishes and the document       *)
(* writer files as long as nobody reads the pipe out of turn, and where the  *)
(* three programs can stop, for any size of report and of pipe.              *)
(***************************************************************************)
EXTENDS NewsDesk, WellFoundedInduction, SequenceTheorems, TLAPS

(* The invariant *)

Cell == [id : 1 .. MaxReports, kind : Kinds, pos : 1 .. BodyCells + 1]
TextCell == Cell \union {Junk}
Messages == [type : {1, 2}, text : Seq(TextCell), id : 1 .. MaxReports]

DeskTypes ==
    /\ conn \in [Slots -> [state : {"idle", "open", "sent", "left"},
                           id : 0 .. MaxReports, kind : Kinds \cup {"none"}]]
    /\ \A s \in Slots : conn[s].state = "sent" => conn[s].id > 0 /\ conn[s].kind \in Kinds
    /\ sent \in 0 .. MaxReports
    /\ rpc \in {"poll", "accept", "write"} /\ todo \subseteq Slots

PipeTypes ==
    /\ fifo \in Seq(Cell)
    /\ head \in Seq(Cell) /\ fullS \in Seq(TextCell) /\ published \in Seq(Messages)
    /\ epc \in {"poll", "head", "body", "publish", "listen", "accept", "sendfd", "dead"}
    /\ which \in {1, 2}
    /\ epc \in {"body", "publish"} => Len(head) = 1

SocketTypes ==
    /\ listening \in BOOLEAN /\ passed \in BOOLEAN
    /\ backlog \in Seq({"alive", "dead"}) /\ peer \in {"none", "alive", "dead"}
    /\ dpc \in {"connect", "recvfd", "read", "append", "spent"}
    /\ read \in Seq(Cell) /\ doc \in Seq(Cell)
    /\ owed \in BOOLEAN /\ raced \in BOOLEAN

\* What the desk is busy with: sockets poll found busy, and a report it holds
\* exactly while it writes it.
DeskBusy ==
    /\ \A s \in todo : conn[s].state # "idle"
    /\ rpc = "accept" => todo # {}
    /\ IF rpc = "write" THEN held \in Reports ELSE held = NoReport

\* Whatever was read from it, the pipe holds the rest of each report it holds
\* a part of, and after a report the beginning of one.
Followed(s) ==
    \A i \in 1 .. Len(s) : \A d \in 0 .. BodyCells + 1 - s[i].pos :
        /\ i + d <= Len(s)
        /\ s[i + d] = [id |-> s[i].id, kind |-> s[i].kind, pos |-> s[i].pos + d]

Restarted(s) ==
    \A i \in 1 .. Len(s) - 1 : s[i].pos = BodyCells + 1 => s[i + 1].pos = 1

Stream == Followed(fifo) /\ Restarted(fifo)

\* The document writer's connection, and the descriptor it leads to.
AliveConnection == peer = "alive" \/ Contains(backlog, "alive")

Connected ==
    /\ peer # "none" => epc = "sendfd"
    /\ AliveConnection => dpc = "recvfd" /\ ~passed
    /\ passed => dpc = "recvfd"
    /\ epc = "accept" => listening

\* Is the pipe's first cell the second of a report?  An editor that is gone may
\* have left it at either.
Behind == owed \/ epc \in {"body", "listen", "accept", "sendfd"}

InStep ==
    /\ fifo # <<>> /\ ~Behind /\ epc # "dead" => fifo[1].pos = 1
    /\ Behind => fifo # <<>> /\ fifo[1].pos = 2
    /\ owed => epc \in {"poll", "head"}
    /\ passed \/ dpc = "read" => owed
    /\ epc = "body" => /\ fifo[1].kind = "news"
                       /\ head = <<[fifo[1] EXCEPT !.pos = 1]>>
    /\ owed \/ epc \in {"listen", "accept", "sendfd"} => fifo[1].kind = "doc"

WholeBody(t) == \E r \in Reports : r.kind = "doc" /\ t = Body(r)

\* A string of whole texts behind what was there by chance: WholeTexts before
\* it is cut.
Unbroken(t) ==
    \A p \in DOMAIN t :
        LET News(q) == [id |-> t[p].id, kind |-> "news", pos |-> q]
        IN  \/ t[p] = Junk
            \/ /\ t[p] = News(t[p].pos)
               /\ t[p].pos > 1 => p > 1 /\ t[p - 1] = News(t[p].pos - 1)
               /\ t[p].pos < TextCells[t[p].id] => p < Len(t) /\ t[p + 1] = News(t[p].pos + 1)

EndsWith(t, id) == t # <<>> /\ t[Len(t)].id = id

Correct(m) ==
    /\ WholeTexts(m.text)
    /\ Len(m.text) < MessageCells => EndsWith(m.text, m.id)

Texts ==
    /\ Unbroken(fullS)
    /\ epc = "publish" => EndsWith(fullS, head[1].id)
    /\ \A k \in DOMAIN published : Correct(published[k])

Nth(s, k) == SubSeq(s, (k - 1) * BodyCells + 1, k * BodyCells)

Filed(s) ==
    \E n \in Nat : Len(s) = n * BodyCells /\ \A k \in 1 .. n : WholeBody(Nth(s, k))

Documents ==
    /\ IF dpc = "append" THEN WholeBody(read) ELSE read = <<>>
    /\ Filed(doc)

DeskInv ==
    /\ DeskTypes /\ PipeTypes /\ SocketTypes /\ DeskBusy /\ Stream /\ Connected
    /\ ~raced => InStep /\ Texts /\ Documents

-----------------------------------------------------------------------------
(* Reports and cells *)

\* A report takes a cell more than its body, and a cell knows its place.
LEMMA CellsOfReport ==
  ASSUME NEW r \in Reports
  PROVE  /\ Cells(r) \in Seq(Cell) /\ Len(Cells(r)) = BodyCells + 1
         /\ \A p \in 1 .. BodyCells + 1 : Cells(r)[p] = [id |-> r.id, kind |-> r.kind, pos |-> p]
         /\ Body(r) \in Seq(Cell) /\ Len(Body(r)) = BodyCells
         /\ \A p \in 1 .. BodyCells : Body(r)[p] = [id |-> r.id, kind |-> r.kind, pos |-> p + 1]
<1>1. BodyCells \in Nat \ {0} /\ BodyCells + 1 \in Nat
  BY SizesAssumption
<1>2. \A p \in 1 .. BodyCells + 1 : [id |-> r.id, kind |-> r.kind, pos |-> p] \in Cell
  BY DEF Reports, Cell
<1>3. /\ Cells(r) \in [1 .. BodyCells + 1 -> Cell]
      /\ \A p \in 1 .. BodyCells + 1 : Cells(r)[p] = [id |-> r.id, kind |-> r.kind, pos |-> p]
  BY <1>2 DEF Cells
<1>4. Cells(r) \in Seq(Cell) /\ Len(Cells(r)) = BodyCells + 1
  <2>1. Cells(r) \in Seq(Cell)
    BY <1>1, <1>3, SeqDef
  <2> QED
    BY <1>1, <1>3, <2>1, LenProperties
<1>5. Cells(r) # <<>>
  BY <1>1, <1>4
<1>6. /\ Body(r) \in Seq(Cell) /\ Len(Body(r)) = BodyCells
      /\ \A p \in 1 .. BodyCells : Body(r)[p] = Cells(r)[p + 1]
  BY <1>1, <1>4, <1>5, HeadTailProperties DEF Body
<1>7. \A p \in 1 .. BodyCells : p + 1 \in 1 .. BodyCells + 1
  BY <1>1
<1> QED
  BY <1>3, <1>4, <1>6, <1>7

\* The two ends of a queue that is cut in two.
LEMMA Cut ==
  ASSUME NEW s \in Seq(Cell), NEW n \in 0 .. Len(s)
  PROVE  /\ SubSeq(s, 1, n) \in Seq(Cell) /\ Len(SubSeq(s, 1, n)) = n
         /\ \A i \in 1 .. n : SubSeq(s, 1, n)[i] = s[i]
         /\ SubSeq(s, n + 1, Len(s)) \in Seq(Cell)
         /\ Len(SubSeq(s, n + 1, Len(s))) = Len(s) - n
         /\ \A i \in 1 .. Len(s) - n : SubSeq(s, n + 1, Len(s))[i] = s[i + n]
<1>1. Len(s) \in Nat /\ n \in Nat /\ n <= Len(s)
  BY LenProperties
<1>2. \A i \in 1 .. Len(s) : s[i] \in Cell
  BY ElementOfSeq
<1>3. /\ \A i \in 1 .. n : s[i] \in Cell
      /\ \A i \in n + 1 .. Len(s) : s[i] \in Cell
  BY <1>1, <1>2
<1>4. /\ SubSeq(s, 1, n) \in Seq(Cell)
      /\ Len(SubSeq(s, 1, n)) = IF 1 <= n THEN n - 1 + 1 ELSE 0
      /\ \A i \in 1 .. n - 1 + 1 : SubSeq(s, 1, n)[i] = s[1 + i - 1]
  BY <1>1, <1>3, SubSeqProperties
<1>5. /\ SubSeq(s, n + 1, Len(s)) \in Seq(Cell)
      /\ Len(SubSeq(s, n + 1, Len(s))) = IF n + 1 <= Len(s) THEN Len(s) - (n + 1) + 1 ELSE 0
      /\ \A i \in 1 .. Len(s) - (n + 1) + 1 : SubSeq(s, n + 1, Len(s))[i] = s[n + 1 + i - 1]
  BY <1>1, <1>3, SubSeqProperties
<1>6. /\ Len(SubSeq(s, 1, n)) = n
      /\ \A i \in 1 .. n : 1 + i - 1 = i /\ i \in 1 .. n - 1 + 1
      /\ Len(SubSeq(s, n + 1, Len(s))) = Len(s) - n
      /\ \A i \in 1 .. Len(s) - n : n + 1 + i - 1 = i + n /\ i \in 1 .. Len(s) - (n + 1) + 1
  BY <1>1, <1>4, <1>5
<1> QED
  BY <1>4, <1>5, <1>6

\* What is behind a cell stays behind it when cells before it are read.
LEMMA RestFollows ==
  ASSUME NEW s \in Seq(Cell), Followed(s), Restarted(s), NEW n \in Nat,
         NEW t \in Seq(Cell), Len(t) = Len(s) - n, \A i \in 1 .. Len(t) : t[i] = s[i + n]
  PROVE  Followed(t) /\ Restarted(t)
<1>1. Len(s) \in Nat /\ Len(t) \in Nat
  BY LenProperties
<1>2. ASSUME NEW i \in 1 .. Len(t), NEW d \in 0 .. BodyCells + 1 - t[i].pos
      PROVE  i + d <= Len(t) /\ t[i + d] = [id |-> t[i].id, kind |-> t[i].kind, pos |-> t[i].pos + d]
  <2>1. i + n \in 1 .. Len(s) /\ t[i] = s[i + n]
    BY <1>1
  <2>2. /\ (i + n) + d <= Len(s)
        /\ s[(i + n) + d] = [id |-> t[i].id, kind |-> t[i].kind, pos |-> t[i].pos + d]
    BY <2>1 DEF Followed
  <2>3. t[i] \in Cell /\ d \in Nat
    BY ElementOfSeq
  <2>4. i + d \in 1 .. Len(t) /\ (i + n) + d = (i + d) + n
    BY <1>1, <2>2, <2>3
  <2> QED
    BY <2>2, <2>4
<1>3. ASSUME NEW i \in 1 .. Len(t) - 1, t[i].pos = BodyCells + 1
      PROVE  t[i + 1].pos = 1
  <2>1. i \in 1 .. Len(t) /\ i + 1 \in 1 .. Len(t) /\ i + n \in 1 .. Len(s) - 1
    BY <1>1
  <2>2. t[i] = s[i + n] /\ t[i + 1] = s[(i + n) + 1]
    BY <2>1
  <2> QED
    BY <1>3, <2>1, <2>2 DEF Restarted
<1> QED
  BY <1>2, <1>3 DEF Followed, Restarted

\* And when a report is written behind it.
LEMMA GrownFollows ==
  ASSUME NEW s \in Seq(Cell), Followed(s), Restarted(s), NEW r \in Reports
  PROVE  /\ s \o Cells(r) \in Seq(Cell)
         /\ Followed(s \o Cells(r)) /\ Restarted(s \o Cells(r))
         /\ Len(s \o Cells(r)) = Len(s) + BodyCells + 1
         /\ \A i \in 1 .. Len(s) : (s \o Cells(r))[i] = s[i]
         /\ (s \o Cells(r))[Len(s) + 1].pos = 1
<1> DEFINE c == Cells(r)
           t == s \o c
<1>1. /\ c \in Seq(Cell) /\ Len(c) = BodyCells + 1
      /\ \A p \in 1 .. BodyCells + 1 : c[p] = [id |-> r.id, kind |-> r.kind, pos |-> p]
      /\ BodyCells \in Nat \ {0} /\ Len(s) \in Nat
  BY CellsOfReport, SizesAssumption
<1>a. c \in Seq(Cell) /\ Len(c) = BodyCells + 1
  BY <1>1
<1> HIDE DEF c
<1>b. /\ t \in Seq(Cell) /\ Len(t) = Len(s) + Len(c)
      /\ \A i \in 1 .. Len(s) + Len(c) : t[i] = IF i <= Len(s) THEN s[i] ELSE c[i - Len(s)]
  BY <1>a, ConcatProperties
<1> HIDE DEF t
<1>2. /\ t \in Seq(Cell) /\ Len(t) = Len(s) + BodyCells + 1
      /\ \A i \in 1 .. Len(s) + BodyCells + 1 : t[i] = IF i <= Len(s) THEN s[i] ELSE c[i - Len(s)]
  BY <1>1, <1>a, <1>b
<1>3. /\ \A i \in 1 .. Len(s) : t[i] = s[i]
      /\ \A p \in 1 .. BodyCells + 1 : t[Len(s) + p] = [id |-> r.id, kind |-> r.kind, pos |-> p]
      /\ \A p \in 1 .. BodyCells + 1 : [id |-> r.id, kind |-> r.kind, pos |-> p].pos = p
      /\ \A i \in 1 .. Len(t) : i \in 1 .. Len(s) \/ i - Len(s) \in 1 .. BodyCells + 1
  BY <1>1, <1>2
<1>4. \A i \in 1 .. Len(s) : s[i] \in Cell
  BY ElementOfSeq
<1>5. ASSUME NEW i \in 1 .. Len(t), NEW d \in 0 .. BodyCells + 1 - t[i].pos
      PROVE  i + d <= Len(t) /\ t[i + d] = [id |-> t[i].id, kind |-> t[i].kind, pos |-> t[i].pos + d]
  <2>1. CASE i \in 1 .. Len(s)
    <3>1. t[i] = s[i] /\ s[i].pos \in 1 .. BodyCells + 1
      BY <1>3, <1>4, <2>1 DEF Cell
    <3>2. /\ i + d <= Len(s)
          /\ s[i + d] = [id |-> t[i].id, kind |-> t[i].kind, pos |-> t[i].pos + d]
      <4>1. d \in 0 .. BodyCells + 1 - s[i].pos
        BY <3>1
      <4> QED
        BY <2>1, <3>1, <4>1 DEF Followed
    <3>3. i + d \in 1 .. Len(s)
      BY <1>1, <2>1, <3>1, <3>2
    <3> QED
      BY <1>1, <1>2, <1>3, <3>2, <3>3
  <2>2. CASE i - Len(s) \in 1 .. BodyCells + 1
    <3> DEFINE p == i - Len(s)
    <3>1. p \in 1 .. BodyCells + 1 /\ i = Len(s) + p
      BY <1>1, <1>2, <2>2
    <3> HIDE DEF p
    <3>2. t[i] = [id |-> r.id, kind |-> r.kind, pos |-> p]
      BY <1>3, <3>1
    <3>3. d \in 0 .. BodyCells + 1 - p
      BY <3>2
    <3>4. p + d \in 1 .. BodyCells + 1 /\ i + d = Len(s) + (p + d)
      BY <1>1, <3>1, <3>3
    <3>5. t[i + d] = [id |-> r.id, kind |-> r.kind, pos |-> p + d]
      BY <1>3, <3>4
    <3> QED
      BY <1>1, <1>2, <3>2, <3>4, <3>5
  <2> QED
    BY <1>3, <2>1, <2>2
<1>6. ASSUME NEW i \in 1 .. Len(t) - 1, t[i].pos = BodyCells + 1
      PROVE  t[i + 1].pos = 1
  <2>1. i \in 1 .. Len(t) /\ i \in Nat /\ i + 1 <= Len(s) + BodyCells + 1
    BY <1>1, <1>2
  <2>2. CASE i + 1 <= Len(s)
    <3>1. i \in 1 .. Len(s) /\ i + 1 \in 1 .. Len(s) /\ i \in 1 .. Len(s) - 1
      BY <1>1, <2>1, <2>2
    <3> QED
      BY <1>3, <1>6, <3>1 DEF Restarted
  <2>3. CASE i = Len(s)
    <3>1. 1 \in 1 .. BodyCells + 1
      BY <1>1
    <3> QED
      BY <1>3, <2>3, <3>1
  <2>4. CASE i > Len(s)
    <3>1. i - Len(s) \in 1 .. BodyCells + 1 /\ i - Len(s) # BodyCells + 1 /\ i = Len(s) + (i - Len(s))
      BY <1>1, <2>1, <2>4
    <3>2. t[i].pos = i - Len(s)
      BY <1>3, <3>1
    <3> QED
      BY <1>6, <3>1, <3>2
  <2> QED
    BY <1>1, <2>1, <2>2, <2>3, <2>4
<1>7. 1 \in 1 .. BodyCells + 1
  BY <1>1
<1>8. t[Len(s) + 1].pos = 1
  BY <1>3, <1>7
<1>9. Followed(t) /\ Restarted(t)
  BY <1>5, <1>6 DEF Followed, Restarted
<1>10. Len(t) = Len(s) + BodyCells + 1
  BY <1>1, <1>2, SizesAssumption
<1> QED
  BY <1>2, <1>3, <1>8, <1>9, <1>10 DEF t, c

\* Behind the first cell of a report comes its second.
LEMMA SecondCell ==
  ASSUME NEW s \in Seq(Cell), s # <<>>, Followed(s), s[1].pos = 1
  PROVE  /\ Tail(s) \in Seq(Cell) /\ Tail(s) # <<>>
         /\ Tail(s)[1] = [id |-> s[1].id, kind |-> s[1].kind, pos |-> 2]
<1>1. /\ Len(s) \in Nat \ {0} /\ BodyCells \in Nat \ {0} /\ s[1] \in Cell
  BY SizesAssumption, EmptySeq, LenProperties, ElementOfSeq
<1>2. 1 \in 1 .. Len(s) /\ 1 \in 0 .. BodyCells + 1 - s[1].pos
  BY <1>1
<1>3. /\ 1 + 1 <= Len(s)
      /\ s[1 + 1] = [id |-> s[1].id, kind |-> s[1].kind, pos |-> s[1].pos + 1]
  BY <1>2 DEF Followed
<1>4. /\ Tail(s) \in Seq(Cell) /\ Len(Tail(s)) = Len(s) - 1
      /\ \A i \in 1 .. Len(Tail(s)) : Tail(s)[i] = s[i + 1]
  BY HeadTailProperties
<1>5. s[1 + 1] = [id |-> s[1].id, kind |-> s[1].kind, pos |-> 2]
  BY <1>3
<1>6. Len(Tail(s)) >= 1 /\ 1 \in 1 .. Len(Tail(s))
  BY <1>1, <1>3, <1>4
<1>7. Tail(s)[1] = s[1 + 1]
  BY <1>4, <1>6
<1>8. Tail(s) # <<>>
  <2>1. Len(<<>>) = 0 /\ ~(0 >= 1)
    OBVIOUS
  <2>2. Len(Tail(s)) # Len(<<>>)
    BY <1>6, <2>1, Zenon
  <2> QED
    BY <2>2, Zenon
<1> QED
  BY <1>4, <1>5, <1>7, <1>8

\* From the second cell of a report on, its body is there to be read, and
\* what is behind it is the beginning of a report.
LEMMA BodyInFront ==
  ASSUME NEW s \in Seq(Cell), s # <<>>, Followed(s), Restarted(s), s[1].pos = 2
  PROVE  /\ [id |-> s[1].id, kind |-> s[1].kind] \in Reports
         /\ BodyCells <= Len(s)
         /\ SubSeq(s, 1, BodyCells) = Body([id |-> s[1].id, kind |-> s[1].kind])
         /\ BodyCells < Len(s) => s[BodyCells + 1].pos = 1
<1> DEFINE r == [id |-> s[1].id, kind |-> s[1].kind]
<1>1. /\ Len(s) \in Nat \ {0} /\ BodyCells \in Nat \ {0} /\ s[1] \in Cell
  BY SizesAssumption, EmptySeq, LenProperties, ElementOfSeq
<1>2. r \in Reports /\ r.id = s[1].id /\ r.kind = s[1].kind
  BY <1>1 DEF Cell, Reports
<1> HIDE DEF r
<1>3. ASSUME NEW p \in 1 .. BodyCells
      PROVE  p <= Len(s) /\ s[p] = [id |-> r.id, kind |-> r.kind, pos |-> p + 1]
  <2>1. p - 1 \in 0 .. BodyCells + 1 - s[1].pos /\ 1 \in 1 .. Len(s)
    BY <1>1
  <2>2. /\ 1 + (p - 1) <= Len(s)
        /\ s[1 + (p - 1)] = [id |-> s[1].id, kind |-> s[1].kind, pos |-> s[1].pos + (p - 1)]
    BY <2>1 DEF Followed
  <2>3. 1 + (p - 1) = p /\ s[1].pos + (p - 1) = p + 1
    BY <1>1
  <2> QED
    BY <1>2, <2>2, <2>3
<1>4. BodyCells <= Len(s) /\ s[BodyCells].pos = BodyCells + 1
  <2>1. BodyCells \in 1 .. BodyCells
    BY <1>1
  <2>2. /\ BodyCells <= Len(s)
        /\ s[BodyCells] = [id |-> r.id, kind |-> r.kind, pos |-> BodyCells + 1]
    BY <1>3, <2>1
  <2> QED
    BY <2>2
<1>5. SubSeq(s, 1, BodyCells) = Body(r)
  <2>1. /\ SubSeq(s, 1, BodyCells) \in Seq(Cell) /\ Len(SubSeq(s, 1, BodyCells)) = BodyCells
        /\ \A i \in 1 .. BodyCells : SubSeq(s, 1, BodyCells)[i] = s[i]
    <3>1. BodyCells \in 0 .. Len(s)
      BY <1>1, <1>4
    <3> QED
      BY <3>1, Cut
  <2>2. /\ Body(r) \in Seq(Cell) /\ Len(Body(r)) = BodyCells
        /\ \A p \in 1 .. BodyCells : Body(r)[p] = [id |-> r.id, kind |-> r.kind, pos |-> p + 1]
    BY <1>2, CellsOfReport
  <2> QED
    BY <1>3, <2>1, <2>2, SeqEqual
<1>6. ASSUME BodyCells < Len(s)
      PROVE  s[BodyCells + 1].pos = 1
  <2>1. BodyCells \in 1 .. Len(s) - 1
    BY <1>1, <1>6
  <2> QED
    BY <1>4, <2>1 DEF Restarted
<1> QED
  BY <1>2, <1>4, <1>5, <1>6 DEF r

\* The two bytes and the rest make the report.
LEMMA HeadAndBody ==
  ASSUME NEW r \in Reports
  PROVE  <<[id |-> r.id, kind |-> r.kind, pos |-> 1]>> \o Body(r) = Cells(r)
<1> DEFINE h == <<[id |-> r.id, kind |-> r.kind, pos |-> 1]>>
           b == Body(r)
<1>1. /\ Cells(r) \in Seq(Cell) /\ Len(Cells(r)) = BodyCells + 1
      /\ \A p \in 1 .. BodyCells + 1 : Cells(r)[p] = [id |-> r.id, kind |-> r.kind, pos |-> p]
      /\ b \in Seq(Cell) /\ Len(b) = BodyCells /\ BodyCells \in Nat \ {0}
      /\ \A p \in 1 .. BodyCells : b[p] = [id |-> r.id, kind |-> r.kind, pos |-> p + 1]
  BY CellsOfReport, SizesAssumption
<1>2. h \in Seq(Cell) /\ Len(h) = 1 /\ h[1] = [id |-> r.id, kind |-> r.kind, pos |-> 1]
  <2>1. [id |-> r.id, kind |-> r.kind, pos |-> 1] \in Cell
    BY <1>1 DEF Reports, Cell
  <2> QED
    BY <2>1
<1> HIDE DEF h, b
<1>3. /\ h \o b \in Seq(Cell) /\ Len(h \o b) = Len(h) + Len(b)
      /\ \A i \in 1 .. Len(h) + Len(b) : (h \o b)[i] = IF i <= Len(h) THEN h[i] ELSE b[i - Len(h)]
  <2>1. h \in Seq(Cell) /\ b \in Seq(Cell)
    BY <1>1, <1>2
  <2> QED
    BY <2>1, ConcatProperties
<1>4. ASSUME NEW i \in 1 .. BodyCells + 1
      PROVE  (h \o b)[i] = [id |-> r.id, kind |-> r.kind, pos |-> i]
  <2>1. CASE i = 1
    BY <1>1, <1>2, <1>3, <2>1
  <2>2. CASE i # 1
    <3>1. i - 1 \in 1 .. BodyCells /\ (i - 1) + 1 = i /\ ~(i <= 1) /\ i \in 1 .. 1 + BodyCells
      BY <1>1, <2>2
    <3>2. (h \o b)[i] = b[i - 1]
      BY <1>1, <1>2, <1>3, <3>1
    <3> QED
      BY <1>1, <3>1, <3>2
  <2> QED
    BY <2>1, <2>2
<1>5. Len(h \o b) = BodyCells + 1
  BY <1>1, <1>2, <1>3
<1>6. h \o b = Cells(r)
  BY <1>1, <1>3, <1>4, <1>5, SeqEqual
<1> QED
  BY <1>6 DEF h, b

-----------------------------------------------------------------------------
(* Texts and messages *)

LEMMA LeastNumber ==
  ASSUME NEW S \in SUBSET Nat, S # {}
  PROVE  Min(S) \in S
<1> DEFINE LessThan == {ss \in Nat \X Nat : ss[1] < ss[2]}
<1>1. IsWellFoundedOn(LessThan, Nat)
  BY NatLessThanWellFounded, Zenon DEF OpToRel
<1>2. PICK n \in S : \A m \in S : ~(<<m, n>> \in LessThan)
  <2> HIDE DEF LessThan
  <2> QED
    BY <1>1, WFMin
<1>3. ASSUME NEW m \in S
      PROVE  n <= m
  <2>1. m \in Nat /\ n \in Nat
    OBVIOUS
  <2>2. m < n => <<m, n>> \in LessThan
    BY <2>1, Zenon
  <2> HIDE DEF LessThan
  <2>3. ~(m < n)
    BY <1>2, <2>2
  <2> QED
    BY <2>1, <2>3
<1> QED
  BY <1>3 DEF Min

\* Whatever was read is taken as cells of a text.
LEMMA TextTyped ==
  ASSUME NEW s \in Seq(Cell)
  PROVE  TextOf(s) \in Seq(TextCell)
<1> DEFINE ends == {p \in DOMAIN s : s[p].pos = TextCells[s[p].id]}
<1>1. Len(s) \in Nat /\ DOMAIN s = 1 .. Len(s)
  BY LenProperties
<1>2. s \in Seq(TextCell)
  <2>1. s \in [1 .. Len(s) -> Cell]
    BY <1>1, ElementOfSeq, LenProperties
  <2>2. s \in [1 .. Len(s) -> TextCell]
    BY <2>1 DEF TextCell
  <2> QED
    BY <1>1, <2>2, SeqDef
<1>3. ends \in SUBSET Nat /\ ends \subseteq 1 .. Len(s)
  BY <1>1
<1> HIDE DEF ends
<1>4. ASSUME ends # {}
      PROVE  SubSeq(s, 1, Min(ends)) \in Seq(TextCell)
  <2>1. Min(ends) \in 1 .. Len(s)
    BY <1>3, <1>4, LeastNumber
  <2>2. SubSeq(s, 1, Min(ends)) \in Seq(Cell) /\ \A i \in 1 .. Min(ends) : s[i] \in TextCell
    BY <1>1, <1>2, <2>1, Cut, ElementOfSeq
  <2> QED
    BY <1>1, <1>2, <2>1, <2>2, SubSeqProperties
<1> QED
  BY <1>2, <1>4 DEF TextOf, ends

\* Of a whole report the text is taken, and nothing behind it.
LEMMA TextOfReport ==
  ASSUME NEW r \in Reports
  PROVE  /\ TextOf(Cells(r)) \in Seq(TextCell)
         /\ Len(TextOf(Cells(r))) = TextCells[r.id] /\ TextCells[r.id] \in 2 .. BodyCells + 1
         /\ \A p \in 1 .. TextCells[r.id] :
               TextOf(Cells(r))[p] = [id |-> r.id, kind |-> r.kind, pos |-> p]
<1> DEFINE s == Cells(r)
           n == TextCells[r.id]
           ends == {p \in DOMAIN s : s[p].pos = TextCells[s[p].id]}
<1>1. /\ s \in Seq(Cell) /\ Len(s) = BodyCells + 1
      /\ \A p \in 1 .. BodyCells + 1 : s[p] = [id |-> r.id, kind |-> r.kind, pos |-> p]
      /\ BodyCells \in Nat \ {0} /\ DOMAIN s = 1 .. BodyCells + 1
  BY CellsOfReport, SizesAssumption, LenProperties
<1>2. n \in 2 .. BodyCells + 1
  BY TextCellsAssumption DEF Reports
<1> HIDE DEF s, n
<1>3. \A p \in 1 .. BodyCells + 1 : s[p].pos = p /\ TextCells[s[p].id] = n
  BY <1>1 DEF n
<1>4. n \in 1 .. BodyCells + 1
  BY <1>1, <1>2
<1>5. ends = {n}
  BY <1>1, <1>3, <1>4
<1>6. Min(ends) = n
  <2>1. {n} \in SUBSET Nat /\ {n} # {}
    BY <1>1, <1>4
  <2> QED
    BY <1>5, <2>1, LeastNumber
<1> HIDE DEF ends
<1>7. TextOf(s) = SubSeq(s, 1, n)
  BY <1>5, <1>6 DEF TextOf, ends
<1>8. n \in 0 .. Len(s)
  BY <1>1, <1>4
<1>9. Len(TextOf(s)) = n /\ \A i \in 1 .. n : TextOf(s)[i] = s[i]
  BY <1>1, <1>7, <1>8, Cut
<1>10. \A i \in 1 .. n : i \in 1 .. BodyCells + 1
  BY <1>1, <1>4
<1>11. TextOf(s) \in Seq(TextCell)
  BY <1>1, TextTyped
<1> QED
  BY <1>1, <1>2, <1>9, <1>10, <1>11 DEF s, n

\* A news text behind whole texts: strcat.
LEMMA TextJoined ==
  ASSUME NEW s \in Seq(TextCell), Unbroken(s), NEW r \in Reports, r.kind = "news",
         NEW t \in Seq(TextCell), Len(t) = TextCells[r.id], TextCells[r.id] \in Nat \ {0},
         \A p \in 1 .. Len(t) : t[p] = [id |-> r.id, kind |-> r.kind, pos |-> p]
  PROVE  s \o t \in Seq(TextCell) /\ Unbroken(s \o t) /\ EndsWith(s \o t, r.id)
<1> DEFINE u == s \o t
           l == Len(s)
           n == Len(t)
           News(i, q) == [id |-> u[i].id, kind |-> "news", pos |-> q]
<1>1. /\ l \in Nat /\ n \in Nat \ {0} /\ n = TextCells[r.id]
      /\ u \in Seq(TextCell) /\ Len(u) = l + n /\ DOMAIN u = 1 .. l + n /\ DOMAIN s = 1 .. l
      /\ \A i \in 1 .. l + n : u[i] = IF i <= l THEN s[i] ELSE t[i - l]
  <2>1. u \in Seq(TextCell) /\ Len(u) = l + n /\ \A i \in 1 .. l + n : u[i] = IF i <= l THEN s[i] ELSE t[i - l]
    BY ConcatProperties
  <2> QED
    BY <2>1, LenProperties
<1>2. \A p \in 1 .. n : t[p] = [id |-> r.id, kind |-> "news", pos |-> p]
  OBVIOUS
<1> HIDE DEF u, l, n
<1>3. /\ \A i \in 1 .. l : u[i] = s[i]
      /\ \A p \in 1 .. n : u[l + p] = [id |-> r.id, kind |-> "news", pos |-> p]
  <2>1. ASSUME NEW i \in 1 .. l
        PROVE  u[i] = s[i]
    <3>1. i \in 1 .. l + n /\ i <= l
      BY <1>1
    <3> QED
      BY <1>1, <3>1
  <2>2. ASSUME NEW p \in 1 .. n
        PROVE  u[l + p] = t[p]
    <3>1. l + p \in 1 .. l + n /\ ~(l + p <= l) /\ (l + p) - l = p
      BY <1>1
    <3> QED
      BY <1>1, <3>1
  <2> QED
    BY <1>2, <2>1, <2>2
<1>4. ASSUME NEW i \in 1 .. l, u[i] # Junk
      PROVE  /\ u[i] = News(i, u[i].pos)
             /\ u[i].pos > 1 => i > 1 /\ u[i - 1] = News(i, u[i].pos - 1)
             /\ u[i].pos < TextCells[u[i].id] => i < l + n /\ u[i + 1] = News(i, u[i].pos + 1)
  <2>1. u[i] = s[i] /\ s[i] # Junk /\ i \in DOMAIN s
    BY <1>1, <1>3, <1>4
  <2>2. /\ s[i] = [id |-> s[i].id, kind |-> "news", pos |-> s[i].pos]
        /\ s[i].pos > 1 => i > 1 /\ s[i - 1] = [id |-> s[i].id, kind |-> "news", pos |-> s[i].pos - 1]
        /\ s[i].pos < TextCells[s[i].id] =>
              i < l /\ s[i + 1] = [id |-> s[i].id, kind |-> "news", pos |-> s[i].pos + 1]
    BY <2>1 DEF Unbroken, l
  <2>3. i > 1 => i - 1 \in 1 .. l
    BY <1>1
  <2>4. i < l => i + 1 \in 1 .. l /\ i < l + n
    BY <1>1
  <2> QED
    BY <1>3, <2>1, <2>2, <2>3, <2>4
<1>5. ASSUME NEW i \in l + 1 .. l + n
      PROVE  /\ u[i] = News(i, u[i].pos)
             /\ u[i].pos > 1 => i > 1 /\ u[i - 1] = News(i, u[i].pos - 1)
             /\ u[i].pos < TextCells[u[i].id] => i < l + n /\ u[i + 1] = News(i, u[i].pos + 1)
  <2> DEFINE p == i - l
  <2>1. p \in 1 .. n /\ i = l + p /\ i \in Nat
    BY <1>1
  <2>2. u[i] = [id |-> r.id, kind |-> "news", pos |-> p]
    BY <1>3, <2>1
  <2> HIDE DEF p
  <2>3. u[i].id = r.id /\ u[i].pos = p
    BY <2>2
  <2>4. p > 1 => p - 1 \in 1 .. n /\ i - 1 = l + (p - 1) /\ i > 1
    BY <1>1, <2>1
  <2>5. p < n => p + 1 \in 1 .. n /\ i + 1 = l + (p + 1) /\ i < l + n
    BY <1>1, <2>1
  <2> QED
    BY <1>1, <1>3, <2>2, <2>3, <2>4, <2>5
<1>6. Unbroken(u)
  <2>1. \A i \in 1 .. l + n : i \in 1 .. l \/ i \in l + 1 .. l + n
    BY <1>1
  <2> QED
    BY <1>1, <1>4, <1>5, <2>1 DEF Unbroken
<1>7. EndsWith(u, r.id)
  <2>1. u # <<>> /\ n \in 1 .. n /\ Len(u) = l + n
    BY <1>1
  <2>2. u[l + n] = [id |-> r.id, kind |-> "news", pos |-> n]
    BY <1>3, <2>1
  <2> QED
    BY <2>1, <2>2 DEF EndsWith
<1> QED
  BY <1>1, <1>6, <1>7 DEF u

\* The message is what strncpy takes of FullS: its beginning, and all of it if
\* that is less than a message holds.
LEMMA MessageCut ==
  ASSUME fullS \in Seq(TextCell)
  PROVE  /\ Message \in Seq(TextCell) /\ Len(Message) \in Nat
         /\ Len(Message) <= MessageCells /\ Len(Message) <= Len(fullS)
         /\ DOMAIN Message = 1 .. Len(Message)
         /\ Len(Message) < Len(fullS) => Len(Message) = MessageCells
         /\ Len(Message) = Len(fullS) => Message = fullS
         /\ \A i \in 1 .. Len(Message) : Message[i] = fullS[i]
<1> DEFINE n == IF Len(fullS) < MessageCells THEN Len(fullS) ELSE MessageCells
<1>1. Len(fullS) \in Nat /\ MessageCells \in Nat
  BY LenProperties, SizesAssumption DEF MessageCells
<1>2. /\ n \in Nat /\ n <= Len(fullS) /\ n <= MessageCells
      /\ n < Len(fullS) => n = MessageCells
  BY <1>1
<1>3. Message = SubSeq(fullS, 1, n)
  BY DEF Message
<1> HIDE DEF n
<1>4. \A i \in 1 .. n : fullS[i] \in TextCell /\ 1 + i - 1 = i
  BY <1>1, <1>2, ElementOfSeq
<1>5. /\ Message \in Seq(TextCell) /\ Len(Message) = IF 1 <= n THEN n - 1 + 1 ELSE 0
      /\ \A i \in 1 .. n - 1 + 1 : Message[i] = fullS[1 + i - 1]
  BY <1>2, <1>3, <1>4, SubSeqProperties
<1>6. Len(Message) = n /\ n - 1 + 1 = n
  BY <1>2, <1>5
<1>7. \A i \in 1 .. n : Message[i] = fullS[i]
  BY <1>4, <1>5, <1>6
<1>8. n = Len(fullS) => Message = fullS
  BY <1>5, <1>6, <1>7, SeqEqual
<1> QED
  BY <1>2, <1>5, <1>6, <1>7, <1>8, LenProperties

\* So it is made of whole texts but where it is cut.
LEMMA MessageWhole ==
  ASSUME fullS \in Seq(TextCell), Unbroken(fullS)
  PROVE  WholeTexts(Message)
<1> DEFINE m == Message
<1>1. /\ Len(m) \in Nat /\ Len(fullS) \in Nat /\ Len(m) <= Len(fullS)
      /\ DOMAIN m = 1 .. Len(m) /\ DOMAIN fullS = 1 .. Len(fullS)
      /\ Len(m) < Len(fullS) => Len(m) = MessageCells
      /\ \A i \in 1 .. Len(m) : m[i] = fullS[i]
  BY MessageCut, LenProperties
<1> HIDE DEF m
<1>2. ASSUME NEW p \in DOMAIN m, m[p] # Junk
      PROVE  /\ m[p] = [id |-> m[p].id, kind |-> "news", pos |-> m[p].pos]
             /\ m[p].pos > 1 => p > 1 /\ m[p - 1] = [id |-> m[p].id, kind |-> "news", pos |-> m[p].pos - 1]
             /\ m[p].pos < TextCells[m[p].id] =>
                  IF p = Len(m) THEN p = MessageCells
                  ELSE m[p + 1] = [id |-> m[p].id, kind |-> "news", pos |-> m[p].pos + 1]
  <2>1. p \in 1 .. Len(m) /\ p \in DOMAIN fullS /\ m[p] = fullS[p] /\ fullS[p] # Junk
    BY <1>1, <1>2
  <2>2. /\ m[p] = [id |-> m[p].id, kind |-> "news", pos |-> m[p].pos]
        /\ m[p].pos > 1 => p > 1 /\ fullS[p - 1] = [id |-> m[p].id, kind |-> "news", pos |-> m[p].pos - 1]
        /\ m[p].pos < TextCells[m[p].id] =>
              p < Len(fullS) /\ fullS[p + 1] = [id |-> m[p].id, kind |-> "news", pos |-> m[p].pos + 1]
    BY <2>1 DEF Unbroken
  <2>3. p > 1 => p - 1 \in 1 .. Len(m)
    BY <1>1, <2>1
  <2>4. p # Len(m) => p + 1 \in 1 .. Len(m)
    BY <1>1, <2>1
  <2>5. p = Len(m) /\ p < Len(fullS) => p = MessageCells
    BY <1>1
  <2> QED
    BY <1>1, <2>2, <2>3, <2>4, <2>5
<1> QED
  BY <1>2 DEF WholeTexts, m

-----------------------------------------------------------------------------
(* Every step keeps the invariant *)

\* Nothing is sent, opened or promised before the programs run.
LEMMA InitDeskInv == Init => DeskInv
<1> SUFFICES ASSUME Init PROVE DeskInv
  OBVIOUS
<1>1. /\ <<>> \in Seq(Cell) /\ <<>> \in Seq({"alive", "dead"}) /\ <<>> \in Seq(Messages)
      /\ Len(<<>>) = 0 /\ DOMAIN <<>> = {}
  OBVIOUS
<1>j. fullS \in Seq(TextCell) /\ \A p \in DOMAIN fullS : fullS[p] = Junk
  <2>1. PICK n \in 0 .. MaxJunk : fullS = [p \in 1 .. n |-> Junk]
    BY DEF Init
  <2>2. n \in Nat /\ fullS \in [1 .. n -> TextCell]
    BY <2>1, BoundsAssumption DEF TextCell
  <2> QED
    BY <2>1, <2>2, SeqDef
<1>2. DeskTypes /\ DeskBusy
  BY BoundsAssumption DEF Init, Idle, DeskTypes, DeskBusy
<1>3. PipeTypes /\ SocketTypes
  BY <1>1, <1>j DEF Init, PipeTypes, SocketTypes
<1>4. Stream
  BY DEF Init, Stream, Followed, Restarted
<1>5. Connected
  BY DEF Init, Connected, AliveConnection, Contains
<1>6. InStep /\ Texts
  BY <1>1, <1>j DEF Init, InStep, Behind, Texts, Unbroken
<1>7. Filed(<<>>)
  <2>1. 0 \in Nat /\ Len(<<>>) = 0 * BodyCells /\ 1 .. 0 = {}
    BY SizesAssumption
  <2> QED
    BY <2>1 DEF Filed
<1>8. Documents
  BY <1>7 DEF Init, Documents
<1> QED
  BY <1>2, <1>3, <1>4, <1>5, <1>6, <1>8 DEF DeskInv

\* The desk takes the least of the sockets that are left.
LEMMA SlotInTodo ==
  ASSUME DeskTypes, todo # {}
  PROVE  Slot \in todo
<1>1. todo \subseteq Nat
  BY SlotsAssumption DEF DeskTypes
<1> DEFINE LessThan == {ss \in Nat \X Nat : ss[1] < ss[2]}
<1>2. IsWellFoundedOn(LessThan, Nat)
  BY NatLessThanWellFounded, Zenon DEF OpToRel
<1>3. PICK s \in todo : \A t \in todo : ~(<<t, s>> \in LessThan)
  <2> HIDE DEF LessThan
  <2> QED
    BY <1>1, <1>2, WFMin
<1>4. ASSUME NEW t \in todo
      PROVE  s <= t
  <2>1. s \in Nat /\ t \in Nat
    BY <1>1
  <2>2. t < s => <<t, s>> \in LessThan
    BY <2>1, Zenon
  <2> HIDE DEF LessThan
  <2>3. ~(t < s)
    BY <1>3, <2>2
  <2> QED
    BY <2>1, <2>3
<1> QED
  BY <1>4 DEF Slot

\* Reporters and the desk.
LEMMA StepDesk ==
  ASSUME DeskTypes, DeskBusy, [Next]_vars
  PROVE  DeskTypes' /\ DeskBusy'
<1> USE BoundsAssumption DEF DeskTypes, DeskBusy
<1>u. UNCHANGED <<conn, sent, deskvars>> => DeskTypes' /\ DeskBusy'
  BY DEF deskvars
<1>1. ASSUME NEW s \in Slots, ReporterConnect(s) \/ ReporterLeave(s)
      PROVE  DeskTypes' /\ DeskBusy'
  <2>1. /\ UNCHANGED <<sent, rpc, todo, held>>
        /\ \E st \in {"open", "left"} : conn' = [conn EXCEPT ![s].state = st]
    BY <1>1 DEF ReporterConnect, ReporterLeave, deskvars
  <2> QED
    BY <2>1
<1>2. ASSUME NEW s \in Slots, ReporterSend(s)
      PROVE  DeskTypes' /\ DeskBusy'
  <2>1. /\ UNCHANGED <<rpc, todo, held>> /\ sent' = sent + 1 /\ sent < MaxReports
        /\ \E k \in Kinds : conn' = [conn EXCEPT ![s] = [state |-> "sent", id |-> sent + 1, kind |-> k]]
    BY <1>2 DEF ReporterSend, deskvars
  <2> QED
    BY <2>1
<1>3. CASE DeskStep
  <2>1. CASE DeskPoll
    BY <2>1 DEF DeskPoll
  <2>2. CASE DeskReceive
    <3>1. Slot \in todo /\ Slot \in Slots
      BY <2>2, SlotInTodo DEF DeskReceive
    <3>2. held' \in Reports
      BY <2>2, <3>1 DEF DeskReceive, Reports
    <3>3. /\ \A s \in Slots : conn'[s] = IF s = Slot THEN Idle ELSE conn[s]
          /\ conn' \in [Slots -> [state : {"idle", "open", "sent", "left"},
                                  id : 0 .. MaxReports, kind : Kinds \cup {"none"}]]
      BY <2>2, <3>1 DEF DeskReceive, Idle
    <3> QED
      BY <2>2, <3>1, <3>2, <3>3 DEF DeskReceive, Idle
  <2>3. CASE DeskWrite
    BY <2>3 DEF DeskWrite
  <2> QED
    BY <1>3, <2>1, <2>2, <2>3 DEF DeskStep
<1>4. CASE EditorStep
  BY <1>4, <1>u DEF EditorStep, EditorPoll, EditorHead, EditorBody, EditorPublish,
                    EditorListen, EditorAccept, EditorAcceptFails, EditorSendFd,
                    EditorKilled
<1>5. CASE WriterStep \/ WriterRestart
  BY <1>5, <1>u DEF WriterStep, WriterConnect, WriterRecvFd, WriterRefused, WriterRead,
                    WriterAppend, WriterRestart
<1>6. CASE UNCHANGED vars
  BY <1>6, <1>u DEF vars
<1> QED
  BY <1>1, <1>2, <1>3, <1>4, <1>5, <1>6 DEF Next

\* A read returns what there is, up to what was asked for.
LEMMA Read ==
  ASSUME PipeTypes, Stream
  PROVE  LET n == Readable(BodyCells)
             rest == SubSeq(fifo, n + 1, Len(fifo))
         IN  /\ n \in 0 .. Len(fifo) /\ SubSeq(fifo, 1, n) \in Seq(Cell)
             /\ rest \in Seq(Cell) /\ Followed(rest) /\ Restarted(rest)
<1> DEFINE n == Readable(BodyCells)
           rest == SubSeq(fifo, n + 1, Len(fifo))
<1>1. fifo \in Seq(Cell) /\ Len(fifo) \in Nat /\ BodyCells \in Nat
  BY SizesAssumption, LenProperties DEF PipeTypes
<1>2. n \in 0 .. Len(fifo) /\ n \in Nat
  BY <1>1 DEF Readable
<1> HIDE DEF n
<1>3. /\ SubSeq(fifo, 1, n) \in Seq(Cell) /\ rest \in Seq(Cell)
      /\ Len(rest) = Len(fifo) - n /\ \A i \in 1 .. Len(fifo) - n : rest[i] = fifo[i + n]
  BY <1>1, <1>2, Cut
<1> HIDE DEF rest
<1>4. Followed(rest) /\ Restarted(rest)
  BY <1>1, <1>2, <1>3, RestFollows DEF Stream
<1> QED
  BY <1>2, <1>3, <1>4 DEF n, rest

LEMMA TailFollows ==
  ASSUME PipeTypes, Stream, fifo # <<>>
  PROVE  /\ Tail(fifo) \in Seq(Cell) /\ Head(fifo) \in Cell /\ Head(fifo) = fifo[1]
         /\ Followed(Tail(fifo)) /\ Restarted(Tail(fifo))
<1>1. fifo \in Seq(Cell) /\ Len(fifo) \in Nat
  BY LenProperties DEF PipeTypes
<1>2. /\ Head(fifo) \in Cell /\ Tail(fifo) \in Seq(Cell) /\ Len(Tail(fifo)) = Len(fifo) - 1
      /\ \A i \in 1 .. Len(Tail(fifo)) : Tail(fifo)[i] = fifo[i + 1]
  BY <1>1, HeadTailProperties
<1>3. Head(fifo) = fifo[1]
  BY <1>1
<1> QED
  BY <1>1, <1>2, <1>3, RestFollows DEF Stream

\* The pipe, the editor and what it has published.
LEMMA StepPipe ==
  ASSUME DeskTypes, DeskBusy, PipeTypes, Stream, [Next]_vars
  PROVE  PipeTypes' /\ Stream'
<1>u. UNCHANGED <<fifo, epc, head, fullS, which, published>> => PipeTypes' /\ Stream'
  BY DEF PipeTypes, Stream
<1>e. <<>> \in Seq(Cell)
  OBVIOUS
<1>1. ASSUME NEW s \in Slots, ReporterConnect(s) \/ ReporterSend(s) \/ ReporterLeave(s)
      PROVE  UNCHANGED <<fifo, epc, head, fullS, which, published>>
  BY <1>1 DEF ReporterConnect, ReporterSend, ReporterLeave, editorvars
<1>2. CASE DeskStep
  <2>1. CASE DeskPoll \/ DeskReceive
    BY <2>1, <1>u DEF DeskPoll, DeskReceive, editorvars
  <2>2. CASE DeskWrite
    <3>1. held \in Reports
      BY <2>2 DEF DeskWrite, DeskBusy
    <3>2. fifo' \in Seq(Cell) /\ Followed(fifo') /\ Restarted(fifo')
      BY <2>2, <3>1, GrownFollows DEF DeskWrite, PipeTypes, Stream
    <3> QED
      BY <2>2, <3>2 DEF DeskWrite, PipeTypes, Stream, editorvars
  <2> QED
    BY <1>2, <2>1, <2>2 DEF DeskStep
<1>3. CASE EditorStep
  <2>1. CASE EditorHead
    <3>1. fifo' = Tail(fifo) /\ fifo # <<>> /\ UNCHANGED <<fullS, which, published>>
      BY <2>1 DEF EditorHead
    <3>2. /\ epc' \in {"listen", "body"} /\ head' \in {<<>>, <<Head(fifo)>>}
      BY <2>1 DEF EditorHead
    <3>3. <<Head(fifo)>> \in Seq(Cell) /\ Len(<<Head(fifo)>>) = 1 /\ <<>> \in Seq(Cell)
      BY <3>1, TailFollows
    <3>4. epc' = "body" => head' = <<Head(fifo)>>
      BY <2>1 DEF EditorHead
    <3>5. head' \in Seq(Cell) /\ (epc' \in {"body", "publish"} => Len(head') = 1)
      BY <3>2, <3>3, <3>4
    <3>6. fifo' \in Seq(Cell) /\ Followed(fifo') /\ Restarted(fifo')
      BY <3>1, TailFollows
    <3> QED
      BY <3>1, <3>2, <3>5, <3>6 DEF PipeTypes, Stream
  <2>2. CASE EditorBody
    <3> DEFINE n == Readable(BodyCells)
               cells == head \o SubSeq(fifo, 1, n)
    <3>1. /\ fifo' = SubSeq(fifo, n + 1, Len(fifo)) /\ epc = "body"
          /\ \E old \in {<<>>, fullS} : fullS' = old \o TextOf(cells)
          /\ epc' \in {"publish", "dead"} /\ UNCHANGED <<head, which, published>>
      BY <2>2 DEF EditorBody
    <3>2. fifo' \in Seq(Cell) /\ Followed(fifo') /\ Restarted(fifo') /\ cells \in Seq(Cell)
      BY <3>1, Read, ConcatProperties DEF PipeTypes
    <3> HIDE DEF cells
    <3>3. TextOf(cells) \in Seq(TextCell)
      BY <3>2, TextTyped
    <3>4. fullS' \in Seq(TextCell)
      <4>1. <<>> \in Seq(TextCell) /\ fullS \in Seq(TextCell)
        BY DEF PipeTypes
      <4> QED
        BY <3>1, <3>3, <4>1, ConcatProperties
    <3> QED
      BY <3>1, <3>2, <3>4 DEF PipeTypes, Stream
  <2>3. CASE EditorPublish
    <3> DEFINE m == [type |-> which, text |-> Message, id |-> head[1].id]
    <3>1. Message \in Seq(TextCell)
      BY MessageCut DEF PipeTypes
    <3>2. head[1] \in Cell
      <4>1. head \in Seq(Cell) /\ Len(head) = 1
        BY <2>3 DEF EditorPublish, PipeTypes
      <4>2. 1 \in 1 .. Len(head)
        BY <4>1
      <4> QED
        BY <4>1, <4>2, ElementOfSeq
    <3>3. m \in Messages
      BY <3>1, <3>2 DEF Messages, PipeTypes, Cell
    <3> HIDE DEF m
    <3>4. Append(published, m) \in Seq(Messages)
      BY <3>3, AppendProperties DEF PipeTypes
    <3> QED
      BY <2>3, <1>e, <3>4 DEF EditorPublish, PipeTypes, Stream, m
  <2>4. CASE EditorPoll \/ EditorListen \/ EditorAccept \/ EditorAcceptFails \/ EditorSendFd \/ EditorKilled
    BY <2>4 DEF EditorPoll, EditorListen, EditorAccept, EditorAcceptFails, EditorSendFd, EditorKilled,
                PipeTypes, Stream
  <2> QED
    BY <1>3, <2>1, <2>2, <2>3, <2>4 DEF EditorStep
<1>4. CASE WriterStep \/ WriterRestart
  <2>1. CASE WriterRead
    BY <2>1, Read DEF WriterRead, PipeTypes, Stream, editorvars
  <2>2. CASE WriterConnect \/ WriterRecvFd \/ WriterRefused \/ WriterAppend \/ WriterRestart
    BY <2>2, <1>u DEF WriterConnect, WriterRecvFd, WriterRefused, WriterAppend,
                      WriterRestart, editorvars
  <2> QED
    BY <1>4, <2>1, <2>2 DEF WriterStep
<1>5. CASE UNCHANGED vars
  BY <1>5, <1>u DEF vars, editorvars
<1> QED
  BY <1>u, <1>1, <1>2, <1>3, <1>4, <1>5 DEF Next

\* The sockets and the document writer.
LEMMA StepSockets ==
  ASSUME PipeTypes, SocketTypes, Stream, [Next]_vars
  PROVE  SocketTypes'
<1> USE DEF SocketTypes
<1>u. UNCHANGED <<sockvars, writervars, history>> => SocketTypes'
  BY DEF sockvars, writervars, history
<1>e. <<>> \in Seq(Cell) /\ <<>> \in Seq({"alive", "dead"})
  OBVIOUS
<1>1. ASSUME NEW s \in Slots, ReporterConnect(s) \/ ReporterSend(s) \/ ReporterLeave(s)
      PROVE  SocketTypes'
  BY <1>1, <1>u DEF ReporterConnect, ReporterSend, ReporterLeave
<1>2. CASE DeskStep
  BY <1>2, <1>u DEF DeskStep, DeskPoll, DeskReceive, DeskWrite
<1>3. CASE EditorStep
  <2>1. CASE EditorHead
    BY <2>1 DEF EditorHead, sockvars, writervars
  <2>2. CASE EditorListen
    BY <2>2, <1>e DEF EditorListen, writervars, history
  <2>3. CASE EditorAccept
    <3>1. Head(backlog) \in {"alive", "dead"} /\ Tail(backlog) \in Seq({"alive", "dead"})
      BY <2>3, HeadTailProperties DEF EditorAccept
    <3> QED
      BY <2>3, <3>1 DEF EditorAccept, writervars, history
  <2>4. CASE EditorAcceptFails \/ EditorSendFd \/ EditorKilled
    BY <2>4, <1>e DEF EditorAcceptFails, EditorSendFd, EditorKilled, writervars, history
  <2>5. CASE EditorPoll \/ EditorBody \/ EditorPublish
    BY <2>5, <1>u DEF EditorPoll, EditorBody, EditorPublish
  <2> QED
    BY <1>3, <2>1, <2>2, <2>3, <2>4, <2>5 DEF EditorStep
<1>4. CASE WriterStep
  <2>1. CASE WriterConnect
    <3>1. Append(backlog, "alive") \in Seq({"alive", "dead"})
      BY AppendProperties
    <3> QED
      BY <2>1, <3>1 DEF WriterConnect, history
  <2>2. CASE WriterRecvFd \/ WriterRefused
    BY <2>2 DEF WriterRecvFd, WriterRefused, sockvars, history
  <2>3. CASE WriterRead
    BY <2>3, Read DEF WriterRead, sockvars
  <2>4. CASE WriterAppend
    <3>1. doc \o read \in Seq(Cell)
      BY ConcatProperties
    <3> QED
      BY <2>4, <3>1, <1>e DEF WriterAppend, sockvars, history
  <2> QED
    BY <1>4, <2>1, <2>2, <2>3, <2>4 DEF WriterStep
<1>5. CASE WriterRestart
  <2>1. [i \in DOMAIN backlog |-> "dead"] \in Seq({"alive", "dead"})
    <3>1. DOMAIN backlog = 1 .. Len(backlog) /\ Len(backlog) \in Nat
      BY LenProperties
    <3>2. [i \in DOMAIN backlog |-> "dead"] \in [1 .. Len(backlog) -> {"alive", "dead"}]
      BY <3>1
    <3> QED
      BY <3>1, <3>2, SeqDef
  <2> QED
    BY <1>5, <1>e, <2>1 DEF WriterRestart
<1>6. CASE UNCHANGED vars
  BY <1>6, <1>u DEF vars
<1> QED
  BY <1>1, <1>2, <1>3, <1>4, <1>5, <1>6 DEF Next

\* A report is written behind what the pipe holds.
LEMMA PipeGrows ==
  ASSUME DeskBusy, PipeTypes, Stream, DeskWrite
  PROVE  /\ fifo' # <<>>
         /\ fifo # <<>> => fifo'[1] = fifo[1]
         /\ fifo = <<>> => fifo'[1].pos = 1
<1>1. held \in Reports /\ fifo' = fifo \o Cells(held)
  BY DEF DeskWrite, DeskBusy
<1>2. fifo \in Seq(Cell) /\ Len(fifo) \in Nat /\ BodyCells \in Nat
  BY LenProperties, SizesAssumption DEF PipeTypes
<1>3. /\ fifo' \in Seq(Cell) /\ Len(fifo') = Len(fifo) + BodyCells + 1
      /\ \A i \in 1 .. Len(fifo) : fifo'[i] = fifo[i]
      /\ fifo'[Len(fifo) + 1].pos = 1
  BY <1>1, <1>2, GrownFollows DEF Stream
<1>4. fifo' # <<>>
  <2>1. Len(fifo') # 0 /\ Len(<<>>) = 0
    BY <1>2, <1>3
  <2> QED
    BY <2>1, Zenon
<1>5. ASSUME fifo # <<>>
      PROVE  fifo'[1] = fifo[1]
  <2>1. 1 \in 1 .. Len(fifo)
    BY <1>2, <1>5, EmptySeq
  <2> QED
    BY <1>3, <2>1
<1>6. ASSUME fifo = <<>>
      PROVE  fifo'[1].pos = 1
  <2>1. Len(fifo) + 1 = 1
    BY <1>6
  <2> QED
    BY <1>3, <2>1
<1> QED
  BY <1>4, <1>5, <1>6

\* One connection leads to the writer at a time, and none after the
\* descriptor has been passed over it.
LEMMA StepConnected ==
  ASSUME SocketTypes, Connected, [Next]_vars
  PROVE  Connected'
<1> USE DEF Connected
<1>t. backlog \in Seq({"alive", "dead"})
  BY DEF SocketTypes
<1>u. UNCHANGED <<peer, epc, backlog, dpc, passed, listening>> => Connected'
  BY DEF AliveConnection
<1>1. ASSUME NEW s \in Slots, ReporterConnect(s) \/ ReporterSend(s) \/ ReporterLeave(s)
      PROVE  Connected'
  BY <1>1, <1>u DEF ReporterConnect, ReporterSend, ReporterLeave, editorvars, sockvars, writervars
<1>2. CASE DeskStep
  BY <1>2, <1>u DEF DeskStep, DeskPoll, DeskReceive, DeskWrite, editorvars, sockvars, writervars
<1>3. CASE EditorStep
  <2>1. CASE EditorPoll \/ EditorHead \/ EditorBody \/ EditorPublish
    <3>1. /\ UNCHANGED <<peer, backlog, dpc, passed, listening>>
          /\ epc' # "accept" /\ epc # "sendfd"
      BY <2>1 DEF EditorPoll, EditorHead, EditorBody, EditorPublish, sockvars, writervars
    <3> QED
      BY <3>1 DEF AliveConnection
  <2>2. CASE EditorListen
    <3>1. ~Contains(<<>>, "alive")
      BY DEF Contains
    <3> QED
      BY <2>2, <3>1 DEF EditorListen, AliveConnection, writervars
  <2>3. CASE EditorAccept
    <3>1. /\ UNCHANGED <<dpc, passed, listening>> /\ epc' = "sendfd" /\ backlog # <<>>
          /\ peer' = Head(backlog) /\ backlog' = Tail(backlog)
      BY <2>3 DEF EditorAccept, writervars
    <3>2. /\ Len(backlog) \in Nat \ {0} /\ Len(Tail(backlog)) = Len(backlog) - 1
          /\ \A i \in 1 .. Len(Tail(backlog)) : Tail(backlog)[i] = backlog[i + 1]
          /\ Head(backlog) = backlog[1]
      BY <1>t, <3>1, HeadTailProperties, EmptySeq
    <3>3. /\ \A i \in 1 .. Len(Tail(backlog)) : i + 1 \in 1 .. Len(backlog)
          /\ 1 \in 1 .. Len(backlog)
      BY <3>2
    <3>4. AliveConnection' => AliveConnection
      BY <3>1, <3>2, <3>3 DEF AliveConnection, Contains
    <3> QED
      BY <3>1, <3>4
  <2>4. CASE EditorSendFd
    <3>1. ~Contains(<<>>, "alive")
      BY DEF Contains
    <3> QED
      BY <2>4, <3>1 DEF EditorSendFd, AliveConnection, writervars
  <2>5. CASE EditorKilled \/ EditorAcceptFails
    <3>1. ~Contains(<<>>, "alive")
      BY DEF Contains
    <3> QED
      BY <2>5, <3>1 DEF EditorKilled, EditorAcceptFails, AliveConnection, writervars
  <2> QED
    BY <1>3, <2>1, <2>2, <2>3, <2>4, <2>5 DEF EditorStep
<1>4. CASE WriterStep
  <2>1. CASE WriterConnect
    BY <2>1 DEF WriterConnect, editorvars
  <2>2. CASE WriterRecvFd
    BY <2>2 DEF WriterRecvFd, AliveConnection, editorvars
  <2>3. CASE WriterRefused
    BY <2>3 DEF WriterRefused, AliveConnection, editorvars, sockvars
  <2>4. CASE WriterRead
    BY <2>4 DEF WriterRead, AliveConnection, editorvars, sockvars
  <2>5. CASE WriterAppend
    BY <2>5 DEF WriterAppend, AliveConnection, editorvars, sockvars
  <2> QED
    BY <1>4, <2>1, <2>2, <2>3, <2>4, <2>5 DEF WriterStep
<1>5. CASE WriterRestart
  <2>1. /\ dpc' = "connect" /\ ~passed' /\ peer' # "alive" /\ UNCHANGED <<epc, listening>>
        /\ peer = "none" => peer' = "none"
        /\ backlog' = [i \in DOMAIN backlog |-> "dead"]
    BY <1>5 DEF WriterRestart, editorvars
  <2>2. ~Contains(backlog', "alive")
    <3>1. DOMAIN backlog = 1 .. Len(backlog) /\ Len(backlog) \in Nat
      BY <1>t, LenProperties
    <3>2. backlog' \in [1 .. Len(backlog) -> {"dead"}]
      BY <2>1, <3>1
    <3>3. Len(backlog') = Len(backlog)
      BY <3>1, <3>2, SeqDef, LenProperties
    <3> QED
      BY <3>2, <3>3 DEF Contains
  <2> QED
    BY <2>1, <2>2 DEF AliveConnection
<1>6. CASE UNCHANGED vars
  BY <1>6, <1>u DEF vars, editorvars, sockvars, writervars
<1> QED
  BY <1>1, <1>2, <1>3, <1>4, <1>5, <1>6 DEF Next

\* In step, whoever reads a body reads the whole body of one report, and
\* leaves the pipe at the beginning of the next.
LEMMA ReadsBody ==
  ASSUME PipeTypes, Stream, InStep, Behind
  PROVE  LET r == [id |-> fifo[1].id, kind |-> fifo[1].kind]
             n == Readable(BodyCells)
             rest == SubSeq(fifo, n + 1, Len(fifo))
         IN  /\ r \in Reports /\ SubSeq(fifo, 1, n) = Body(r) /\ n = BodyCells
             /\ rest # <<>> => rest[1].pos = 1
<1> DEFINE r == [id |-> fifo[1].id, kind |-> fifo[1].kind]
           n == Readable(BodyCells)
           rest == SubSeq(fifo, n + 1, Len(fifo))
<1>1. fifo \in Seq(Cell) /\ Len(fifo) \in Nat /\ BodyCells \in Nat \ {0}
  BY SizesAssumption, LenProperties DEF PipeTypes
<1>2. fifo # <<>> /\ fifo[1].pos = 2
  BY DEF InStep
<1>3. /\ r \in Reports /\ BodyCells <= Len(fifo) /\ SubSeq(fifo, 1, BodyCells) = Body(r)
      /\ BodyCells < Len(fifo) => fifo[BodyCells + 1].pos = 1
  BY <1>1, <1>2, BodyInFront DEF Stream
<1> HIDE DEF r
<1>4. n = BodyCells
  BY <1>1, <1>3 DEF Readable
<1> HIDE DEF n
<1>5. /\ rest \in Seq(Cell) /\ Len(rest) = Len(fifo) - BodyCells
      /\ \A i \in 1 .. Len(fifo) - BodyCells : rest[i] = fifo[i + BodyCells]
  <2>1. BodyCells \in 0 .. Len(fifo)
    BY <1>1, <1>3
  <2> QED
    BY <1>1, <1>4, <2>1, Cut
<1> HIDE DEF rest
<1>6. ASSUME rest # <<>>
      PROVE  rest[1].pos = 1
  <2>1. Len(rest) \in Nat \ {0}
    BY <1>5, <1>6, EmptySeq
  <2>2. BodyCells < Len(fifo) /\ 1 \in 1 .. Len(fifo) - BodyCells /\ 1 + BodyCells = BodyCells + 1
    BY <1>1, <1>5, <2>1
  <2> QED
    BY <1>3, <1>5, <2>2
<1> QED
  BY <1>3, <1>4, <1>6 DEF r, n, rest

\* The editor and the writer take turns at the pipe as long as no step races:
\* after the first cell of a document, the next to read is the writer.
LEMMA StepInStep ==
  ASSUME DeskInv, ~raced, [Next]_vars, ~raced'
  PROVE  InStep'
<1> USE DEF DeskInv
<1>t. InStep /\ Connected /\ DeskBusy /\ PipeTypes /\ Stream
  OBVIOUS
<1>b. owed \in BOOLEAN /\ passed \in BOOLEAN
  BY DEF SocketTypes
<1>u. UNCHANGED <<fifo, epc, head, passed, dpc, owed>> => InStep'
  BY <1>t DEF InStep, Behind
<1> HIDE DEF DeskInv
<1> USE DEF InStep, Behind
<1>1. ASSUME NEW s \in Slots, ReporterConnect(s) \/ ReporterSend(s) \/ ReporterLeave(s)
      PROVE  InStep'
  <2>1. UNCHANGED <<fifo, epc, head, passed, dpc, owed>>
    BY <1>1 DEF ReporterConnect, ReporterSend, ReporterLeave, editorvars, sockvars, writervars, history
  <2> QED
    BY <2>1, <1>u
<1>2. CASE DeskStep
  <2>1. CASE DeskPoll \/ DeskReceive
    <3>1. UNCHANGED <<fifo, epc, head, passed, dpc, owed>>
      BY <2>1 DEF DeskPoll, DeskReceive, editorvars, sockvars, writervars, history
    <3> QED
      BY <3>1, <1>u
  <2>2. CASE DeskWrite
    <3>1. UNCHANGED <<epc, head, passed, dpc, owed>>
      BY <2>2 DEF DeskWrite, editorvars, sockvars, writervars, history
    <3>2. /\ fifo' # <<>>
          /\ fifo # <<>> => fifo'[1] = fifo[1]
          /\ fifo = <<>> => fifo'[1].pos = 1
      BY <2>2, <1>t, PipeGrows
    <3> QED
      BY <1>t, <3>1, <3>2
  <2> QED
    BY <1>2, <2>1, <2>2 DEF DeskStep
<1>3. CASE EditorStep
  <2>1. CASE EditorHead
    <3>1. /\ epc = "head" /\ fifo # <<>> /\ fifo' = Tail(fifo) /\ ~owed
          /\ UNCHANGED <<passed, dpc, owed>>
          /\ \/ IsDocument(Head(fifo)) /\ epc' = "listen"
             \/ ~IsDocument(Head(fifo)) /\ epc' = "body" /\ head' = <<Head(fifo)>>
      BY <2>1 DEF EditorHead, sockvars, writervars
    <3>2. fifo[1].pos = 1 /\ fifo[1] \in Cell /\ Head(fifo) = fifo[1]
      BY <1>t, <3>1, TailFollows
    <3>3. fifo' # <<>> /\ fifo'[1] = [id |-> fifo[1].id, kind |-> fifo[1].kind, pos |-> 2]
      BY <1>t, <3>1, <3>2, SecondCell DEF PipeTypes, Stream
    <3>4. /\ fifo'[1].pos = 2 /\ fifo'[1].kind = fifo[1].kind
          /\ [fifo'[1] EXCEPT !.pos = 1] = fifo[1]
          /\ fifo[1].kind \in {"news", "doc"}
      BY <3>2, <3>3 DEF Cell, Kinds
    <3>5. IsDocument(Head(fifo)) <=> fifo[1].kind = "doc"
      BY <3>2 DEF IsDocument
    <3> QED
      BY <1>t, <3>1, <3>2, <3>3, <3>4, <3>5
  <2>2. CASE EditorBody
    <3>1. /\ epc = "body" /\ epc' \in {"publish", "dead"} /\ UNCHANGED <<passed, dpc, owed>>
          /\ fifo' = SubSeq(fifo, Readable(BodyCells) + 1, Len(fifo))
      BY <2>2 DEF EditorBody, sockvars, writervars, history
    <3>2. fifo' # <<>> => fifo'[1].pos = 1
      BY <1>t, <3>1, ReadsBody
    <3> QED
      BY <1>t, <3>1, <3>2
  <2>3. CASE EditorPoll
    <3>1. /\ epc = "poll" /\ epc' = "head" /\ UNCHANGED <<fifo, head, passed, dpc, owed>>
      BY <2>3 DEF EditorPoll, sockvars, writervars, history
    <3> QED
      BY <1>t, <3>1
  <2>4. CASE EditorPublish
    <3>1. /\ epc = "publish" /\ epc' = "poll" /\ UNCHANGED <<fifo, passed, dpc, owed>>
      BY <2>4 DEF EditorPublish, sockvars, writervars, history
    <3> QED
      BY <1>t, <3>1
  <2>5. CASE EditorListen \/ EditorAccept
    <3>1. /\ epc \in {"listen", "accept"} /\ epc' \in {"accept", "sendfd"}
          /\ UNCHANGED <<fifo, head, passed, dpc, owed>>
      BY <2>5 DEF EditorListen, EditorAccept, writervars, history
    <3> QED
      BY <1>t, <3>1
  <2>6. CASE EditorSendFd
    <3>1. /\ epc = "sendfd" /\ epc' = "poll" /\ owed' /\ UNCHANGED <<fifo, head, dpc>>
      BY <2>6 DEF EditorSendFd, writervars
    <3> QED
      BY <1>t, <3>1
  <2>7. CASE EditorKilled \/ EditorAcceptFails
    <3>1. /\ epc \in {"accept", "sendfd"} /\ epc' = "dead"
          /\ UNCHANGED <<fifo, head, passed, dpc, owed>>
      BY <2>7 DEF EditorKilled, EditorAcceptFails, writervars, history
    <3> QED
      BY <1>t, <3>1
  <2> QED
    BY <1>3, <2>1, <2>2, <2>3, <2>4, <2>5, <2>6, <2>7 DEF EditorStep
<1>4. CASE WriterStep
  <2>1. CASE WriterRead
    <3>1. /\ dpc = "read" /\ dpc' = "append" /\ ~owed' /\ UNCHANGED <<epc, head, passed>>
          /\ fifo' = SubSeq(fifo, Readable(BodyCells) + 1, Len(fifo))
      BY <2>1 DEF WriterRead, editorvars, sockvars
    <3>2. owed /\ Behind /\ ~passed
      BY <1>t, <1>b, <3>1 DEF Connected
    <3>3. fifo' # <<>> => fifo'[1].pos = 1
      BY <1>t, <3>1, <3>2, ReadsBody
    <3> QED
      BY <1>t, <3>1, <3>2, <3>3
  <2>2. CASE WriterRecvFd
    <3>1. /\ passed /\ ~passed' /\ dpc' = "read" /\ UNCHANGED <<fifo, epc, head, owed>>
      BY <2>2 DEF WriterRecvFd, editorvars, history
    <3> QED
      BY <1>t, <3>1
  <2>3. CASE WriterConnect \/ WriterRefused \/ WriterAppend
    <3>1. dpc' # "read" /\ UNCHANGED <<fifo, epc, head, passed, owed>>
      BY <2>3 DEF WriterConnect, WriterRefused, WriterAppend, editorvars, sockvars, history
    <3> QED
      BY <1>t, <3>1
  <2> QED
    BY <1>4, <2>1, <2>2, <2>3 DEF WriterStep
<1>5. CASE WriterRestart
  <2>1. dpc' = "connect" /\ ~passed' /\ ~owed /\ ~owed' /\ UNCHANGED <<fifo, epc, head>>
    BY <1>5 DEF WriterRestart, editorvars
  <2> QED
    BY <1>t, <2>1
<1>6. CASE UNCHANGED vars
  BY <1>6, <1>u DEF vars, editorvars, sockvars, writervars, history
<1> QED
  BY <1>1, <1>2, <1>3, <1>4, <1>5, <1>6 DEF Next

\* The editor puts whole news texts together.
LEMMA StepTexts ==
  ASSUME DeskInv, ~raced, [Next]_vars
  PROVE  Texts'
<1> USE DEF DeskInv
<1>t. InStep /\ Texts /\ PipeTypes /\ Stream
  OBVIOUS
<1> HIDE DEF DeskInv
<1>u. UNCHANGED <<epc, head, fullS, published>> => Texts'
  BY <1>t DEF Texts, Correct, Unbroken, EndsWith, WholeTexts
<1>v. UNCHANGED <<fullS, published>> /\ epc' # "publish" => Texts'
  BY <1>t DEF Texts, Correct, Unbroken, EndsWith, WholeTexts
<1>1. ASSUME NEW s \in Slots, ReporterConnect(s) \/ ReporterSend(s) \/ ReporterLeave(s)
      PROVE  Texts'
  <2>1. UNCHANGED <<epc, head, fullS, published>>
    BY <1>1 DEF ReporterConnect, ReporterSend, ReporterLeave, editorvars
  <2> QED
    BY <2>1, <1>u
<1>2. CASE DeskStep
  <2>1. UNCHANGED <<epc, head, fullS, published>>
    BY <1>2 DEF DeskStep, DeskPoll, DeskReceive, DeskWrite, editorvars
  <2> QED
    BY <2>1, <1>u
<1>3. CASE EditorStep
  <2>1. CASE EditorBody
    <3> DEFINE r == [id |-> fifo[1].id, kind |-> fifo[1].kind]
               cells == head \o SubSeq(fifo, 1, Readable(BodyCells))
    <3>1. /\ epc = "body" /\ UNCHANGED <<head, published>>
          /\ \E old \in {<<>>, fullS} : fullS' = old \o TextOf(cells)
      BY <2>1 DEF EditorBody
    <3>2. Behind /\ fifo[1].kind = "news" /\ head = <<[fifo[1] EXCEPT !.pos = 1]>> /\ fifo # <<>>
      BY <1>t, <3>1 DEF InStep, Behind
    <3>3. r \in Reports /\ SubSeq(fifo, 1, Readable(BodyCells)) = Body(r)
      BY <1>t, <3>2, ReadsBody
    <3>4. head = <<[id |-> r.id, kind |-> r.kind, pos |-> 1]>>
      <4>1. fifo[1] \in Cell
        BY <1>t, <3>2, TailFollows
      <4> QED
        BY <3>2, <4>1 DEF Cell
    <3>5. r.kind = "news"
      BY <3>2
    <3> HIDE DEF r
    <3>e. head[1].id = r.id
      BY <3>4
    <3>c. cells = Cells(r)
      <4>1. cells = <<[id |-> r.id, kind |-> r.kind, pos |-> 1]>> \o Body(r)
        BY <3>3, <3>4
      <4> QED
        BY <3>3, <4>1, HeadAndBody
    <3> HIDE DEF cells
    <3> DEFINE t == TextOf(cells)
    <3>6. /\ t \in Seq(TextCell) /\ Len(t) = TextCells[r.id] /\ TextCells[r.id] \in Nat \ {0}
          /\ \A p \in 1 .. Len(t) : t[p] = [id |-> r.id, kind |-> r.kind, pos |-> p]
      BY <3>3, <3>c, TextOfReport, SizesAssumption
    <3> HIDE DEF t
    <3>7. /\ <<>> \in Seq(TextCell) /\ Unbroken(<<>>)
          /\ fullS \in Seq(TextCell) /\ Unbroken(fullS)
      BY <1>t DEF PipeTypes, Texts, Unbroken
    <3>8. Unbroken(fullS') /\ EndsWith(fullS', r.id)
      <4>1. PICK old \in {<<>>, fullS} : fullS' = old \o t
        BY <3>1 DEF t
      <4>2. old \in Seq(TextCell) /\ Unbroken(old)
        BY <3>7
      <4> QED
        BY <3>3, <3>5, <3>6, <4>1, <4>2, TextJoined
    <3>9. head'[1].id = r.id
      BY <3>1, <3>e
    <3>10. \A k \in DOMAIN published' : Correct(published'[k])
      BY <1>t, <3>1 DEF Texts
    <3> QED
      BY <3>8, <3>9, <3>10 DEF Texts, Unbroken, EndsWith, Correct, WholeTexts
  <2>2. CASE EditorPublish
    <3> DEFINE m == [type |-> which, text |-> Message, id |-> head[1].id]
    <3>1. epc = "publish" /\ epc' = "poll" /\ published' = Append(published, m) /\ UNCHANGED fullS
      BY <2>2 DEF EditorPublish
    <3>2. fullS \in Seq(TextCell) /\ Unbroken(fullS) /\ EndsWith(fullS, head[1].id)
      BY <1>t, <3>1 DEF Texts, PipeTypes
    <3>3. m.text = Message /\ m.id = head[1].id
      OBVIOUS
    <3>4. WholeTexts(Message)
      BY <3>2, MessageWhole
    <3>5. Len(Message) < MessageCells => EndsWith(Message, head[1].id)
      <4>1. Len(Message) < MessageCells => Message = fullS
        BY <3>2, MessageCut, LenProperties
      <4> QED
        BY <3>2, <4>1
    <3>6. Correct(m)
      BY <3>3, <3>4, <3>5 DEF Correct
    <3> HIDE DEF m
    <3>7. published \in Seq(Messages)
      BY <1>t DEF PipeTypes
    <3>8. /\ DOMAIN published' = 1 .. Len(published) + 1 /\ DOMAIN published = 1 .. Len(published)
          /\ Len(published) \in Nat /\ published'[Len(published) + 1] = m
          /\ \A k \in 1 .. Len(published) : published'[k] = published[k]
      BY <3>1, <3>7
    <3>9. ASSUME NEW k \in DOMAIN published'
          PROVE  Correct(published'[k])
      <4>1. CASE k \in 1 .. Len(published)
        BY <1>t, <3>8, <4>1 DEF Texts
      <4>2. CASE k = Len(published) + 1
        BY <3>6, <3>8, <4>2
      <4> QED
        BY <3>8, <4>1, <4>2
    <3>10. Unbroken(fullS')
      BY <3>1, <3>2
    <3> QED
      BY <3>1, <3>9, <3>10 DEF Texts, Unbroken, Correct, WholeTexts, EndsWith
  <2>3. CASE EditorPoll \/ EditorHead \/ EditorListen \/ EditorAccept \/ EditorAcceptFails
               \/ EditorSendFd \/ EditorKilled
    <3>1. UNCHANGED <<fullS, published>> /\ epc' # "publish"
      BY <2>3 DEF EditorPoll, EditorHead, EditorListen, EditorAccept, EditorAcceptFails,
                  EditorSendFd, EditorKilled
    <3> QED
      BY <3>1, <1>v
  <2> QED
    BY <1>3, <2>1, <2>2, <2>3 DEF EditorStep
<1>4. CASE WriterStep \/ WriterRestart \/ UNCHANGED vars
  <2>1. UNCHANGED <<epc, head, fullS, published>>
    BY <1>4 DEF WriterStep, WriterConnect, WriterRecvFd, WriterRefused, WriterRead,
                WriterAppend, WriterRestart, editorvars, vars
  <2> QED
    BY <2>1, <1>u
<1> QED
  BY <1>1, <1>2, <1>3, <1>4 DEF Next

-----------------------------------------------------------------------------
(* The document file *)

\* Multiples of the size of a body.
LEMMA Multiples ==
  ASSUME NEW b \in Nat \ {0}, NEW k \in Nat, NEW n \in Nat
  PROVE  /\ n * b \in Nat /\ (n + 1) * b = n * b + b
         /\ k <= n => k * b <= n * b
         /\ k < n => k * b + b <= n * b
<1>1. n * b \in Nat /\ k * b \in Nat /\ (n + 1) * b = n * b + b
  OBVIOUS
<1>2. ASSUME k <= n
      PROVE  k * b <= n * b
  <2>1. n - k \in Nat /\ (n - k) * b \in Nat
    BY <1>2
  <2>2. (n - k) * b = n * b - k * b
    BY <1>2
  <2> QED
    BY <1>1, <2>1, <2>2
<1>3. ASSUME k < n
      PROVE  k * b + b <= n * b
  <2>1. n - (k + 1) \in Nat /\ (n - (k + 1)) * b \in Nat
    BY <1>3
  <2>2. (n - (k + 1)) * b = n * b - (k + 1) * b /\ (k + 1) * b = k * b + b
    BY <1>3
  <2> QED
    BY <1>1, <2>1, <2>2
<1> QED
  BY <1>1, <1>2, <1>3

\* A whole body more.
LEMMA FiledGrows ==
  ASSUME NEW s \in Seq(Cell), NEW t \in Seq(Cell), Filed(s), WholeBody(t)
  PROVE  Filed(s \o t)
<1>1. PICK n \in Nat : Len(s) = n * BodyCells /\ \A k \in 1 .. n : WholeBody(Nth(s, k))
  BY DEF Filed
<1>2. Len(t) = BodyCells /\ BodyCells \in Nat \ {0} /\ n * BodyCells \in Nat
  <2>1. BodyCells \in Nat \ {0}
    BY SizesAssumption
  <2>2. n * BodyCells \in Nat
    BY <2>1, Multiples
  <2>3. PICK r \in Reports : t = Body(r)
    BY DEF WholeBody
  <2> QED
    BY <2>1, <2>2, <2>3, CellsOfReport
<1>3. Len(s \o t) = (n + 1) * BodyCells
  <2>1. Len(s \o t) = Len(s) + Len(t)
    BY ConcatProperties
  <2>2. (n + 1) * BodyCells = n * BodyCells + BodyCells
    BY <1>2, Multiples
  <2> QED
    BY <1>1, <1>2, <2>1, <2>2
<1>4. ASSUME NEW k \in 1 .. n + 1
      PROVE  WholeBody(Nth(s \o t, k))
  <2> DEFINE lo == (k - 1) * BodyCells + 1
             hi == k * BodyCells
  <2>1. k \in Nat /\ k - 1 \in Nat /\ (k - 1) + 1 = k
    OBVIOUS
  <2>2. /\ (k - 1) * BodyCells \in Nat /\ k * BodyCells \in Nat
        /\ hi = (k - 1) * BodyCells + BodyCells
    <3>1. (k - 1) * BodyCells \in Nat /\ ((k - 1) + 1) * BodyCells = (k - 1) * BodyCells + BodyCells
      BY <1>2, <2>1, Multiples
    <3> QED
      BY <1>2, <2>1, <3>1
  <2>3. CASE k \in 1 .. n
    <3>1. k * BodyCells <= n * BodyCells
      BY <1>2, <2>1, <2>3, Multiples
    <3>2. lo \in 1 .. Len(s) /\ hi \in 1 .. Len(s)
      <4> HIDE DEF hi
      <4>1. hi <= n * BodyCells
        BY <3>1 DEF hi
      <4> QED
        BY <1>1, <1>2, <2>2, <4>1
    <3> HIDE DEF lo, hi
    <3>3. SubSeq(s \o t, lo, hi) = SubSeq(s, lo, hi)
      BY <3>2, SubSeqOfConcat1
    <3> QED
      BY <1>1, <2>3, <3>3 DEF Nth, lo, hi
  <2>4. CASE k = n + 1
    <3>1. k - 1 = n
      BY <2>4
    <3>2. lo = Len(s) + 1 /\ hi = Len(s) + BodyCells
      BY <1>1, <2>2, <3>1
    <3> HIDE DEF lo, hi
    <3>3. /\ lo \in Len(s) + 1 .. Len(s) + Len(t) /\ hi \in Len(s) + 1 .. Len(s) + Len(t)
          /\ lo - Len(s) = 1 /\ hi - Len(s) = Len(t)
      BY <1>1, <1>2, <3>2
    <3>4. SubSeq(s \o t, lo, hi) = SubSeq(t, 1, Len(t))
      BY <3>3, SubSeqOfConcat2
    <3>5. SubSeq(t, 1, Len(t)) = t
      BY SubSeqFull
    <3> QED
      BY <3>4, <3>5 DEF Nth, lo, hi
  <2> QED
    BY <2>3, <2>4
<1> QED
  BY <1>3, <1>4 DEF Filed

\* The writer reads whole bodies and appends what it has read.
LEMMA StepDocuments ==
  ASSUME DeskInv, ~raced, [Next]_vars, ~raced'
  PROVE  Documents'
<1> USE DEF DeskInv
<1>t. InStep /\ Documents /\ PipeTypes /\ Stream
  OBVIOUS
<1>s. read \in Seq(Cell) /\ doc \in Seq(Cell)
  BY DEF SocketTypes
<1> HIDE DEF DeskInv
<1>u. UNCHANGED <<dpc, read, doc>> => Documents'
  BY <1>t DEF Documents
<1>1. ASSUME NEW s \in Slots, ReporterConnect(s) \/ ReporterSend(s) \/ ReporterLeave(s)
      PROVE  Documents'
  <2>1. UNCHANGED <<dpc, read, doc>>
    BY <1>1 DEF ReporterConnect, ReporterSend, ReporterLeave, writervars
  <2> QED
    BY <2>1, <1>u
<1>2. CASE DeskStep \/ EditorStep
  <2>1. UNCHANGED <<dpc, read, doc>>
    BY <1>2 DEF DeskStep, DeskPoll, DeskReceive, DeskWrite, EditorStep, EditorPoll, EditorHead,
                EditorBody, EditorPublish, EditorListen, EditorAccept, EditorAcceptFails, EditorSendFd,
                EditorKilled, writervars
  <2> QED
    BY <2>1, <1>u
<1>3. CASE WriterStep
  <2>1. CASE WriterRead
    <3> DEFINE r == [id |-> fifo[1].id, kind |-> fifo[1].kind]
    <3>1. /\ dpc = "read" /\ dpc' = "append" /\ UNCHANGED doc
          /\ read' = SubSeq(fifo, 1, Readable(BodyCells))
      BY <2>1 DEF WriterRead
    <3>2. Behind /\ r.kind = "doc"
      BY <1>t, <3>1 DEF InStep, Behind
    <3>3. r \in Reports /\ read' = Body(r)
      BY <1>t, <3>1, <3>2, ReadsBody
    <3> HIDE DEF r
    <3>4. WholeBody(read')
      BY <3>2, <3>3 DEF WholeBody
    <3> QED
      BY <1>t, <3>1, <3>4 DEF Documents
  <2>2. CASE WriterAppend
    <3>1. dpc = "append" /\ dpc' = "spent" /\ doc' = doc \o read /\ read' = <<>>
      BY <2>2 DEF WriterAppend
    <3>2. Filed(doc \o read)
      BY <1>t, <1>s, <3>1, FiledGrows DEF Documents
    <3> QED
      BY <3>1, <3>2 DEF Documents
  <2>3. CASE WriterConnect \/ WriterRecvFd \/ WriterRefused
    <3>1. dpc # "append" /\ dpc' # "append" /\ UNCHANGED <<read, doc>>
      BY <2>3 DEF WriterConnect, WriterRecvFd, WriterRefused
    <3> QED
      BY <1>t, <3>1 DEF Documents
  <2> QED
    BY <1>3, <2>1, <2>2, <2>3 DEF WriterStep
<1>4. CASE WriterRestart
  <2>1. dpc' = "connect" /\ read' = <<>> /\ UNCHANGED doc
    BY <1>4 DEF WriterRestart
  <2> QED
    BY <1>t, <2>1 DEF Documents
<1>5. CASE UNCHANGED vars
  BY <1>5, <1>u DEF vars, writervars
<1> QED
  BY <1>1, <1>2, <1>3, <1>4, <1>5 DEF Next

-----------------------------------------------------------------------------
\* A race stays a race.
LEMMA RacedStays ==
  ASSUME SocketTypes, [Next]_vars, raced
  PROVE  raced'
<1>1. ASSUME NEW s \in Slots, ReporterConnect(s) \/ ReporterSend(s) \/ ReporterLeave(s)
      PROVE  raced'
  BY <1>1 DEF ReporterConnect, ReporterSend, ReporterLeave, history
<1>2. CASE DeskStep \/ EditorStep
  BY <1>2 DEF DeskStep, DeskPoll, DeskReceive, DeskWrite, EditorStep, EditorPoll, EditorHead,
              EditorBody, EditorPublish, EditorListen, EditorAccept, EditorAcceptFails, EditorSendFd,
              EditorKilled, history
<1>3. CASE WriterStep \/ WriterRestart
  BY <1>3 DEF WriterStep, WriterConnect, WriterRecvFd, WriterRefused, WriterRead,
              WriterAppend, WriterRestart, history
<1>4. CASE UNCHANGED vars
  BY <1>4 DEF vars, history
<1> QED
  BY <1>1, <1>2, <1>3, <1>4 DEF Next

\* Desk, pipe, editor and writer in every reachable state.
THEOREM DeskInvariant == Spec => []DeskInv
<1>1. Init => DeskInv
  BY InitDeskInv
<1>2. ASSUME DeskInv, [Next]_vars
      PROVE  DeskInv'
  <2>1. /\ DeskTypes' /\ PipeTypes' /\ SocketTypes' /\ DeskBusy' /\ Stream' /\ Connected'
    BY <1>2, StepDesk, StepPipe, StepSockets, StepConnected DEF DeskInv
  <2>2. ASSUME ~raced'
        PROVE  InStep' /\ Texts' /\ Documents'
    <3>1. ~raced
      BY <1>2, <2>2, RacedStays DEF DeskInv
    <3> QED
      BY <1>2, <2>2, <3>1, StepInStep, StepTexts, StepDocuments
  <2> QED
    BY <2>1, <2>2 DEF DeskInv
<1> QED
  BY <1>1, <1>2, PTL DEF Spec

\* As long as the document writer gets its bytes before the editor reads
\* again, a message to the readers is made of whole news texts, cut only at its
\* own end, and ends with the report it was made of unless older texts have
\* filled it, for any lengths of the texts and whatever FullS held at first
\* (editor.c:155-209).
THEOREM WholeReportsPublished == Spec => []PublishesWholeReports
<1>1. DeskInv => PublishesWholeReports
  BY DEF DeskInv, Texts, Correct, EndsWith, PublishesWholeReports, Last
<1> QED
  BY <1>1, DeskInvariant, PTL

\* A number of whole bodies is what the property counts.
LEMMA FiledMeansWhole ==
  ASSUME NEW s \in Seq(Cell), Filed(s)
  PROVE  /\ Len(s) % BodyCells = 0
         /\ \A k \in 1 .. Len(s) \div BodyCells : WholeBody(Nth(s, k))
<1>1. PICK n \in Nat : Len(s) = n * BodyCells /\ \A k \in 1 .. n : WholeBody(Nth(s, k))
  BY DEF Filed
<1> DEFINE q == Len(s) \div BodyCells
           m == Len(s) % BodyCells
<1>2. BodyCells \in Nat \ {0} /\ Len(s) \in Nat
  BY SizesAssumption, LenProperties
<1>3. q \in Nat /\ m \in 0 .. BodyCells - 1 /\ Len(s) = q * BodyCells + m
  BY <1>2
<1> HIDE DEF q, m
<1>4. n * BodyCells = q * BodyCells + m /\ q * BodyCells \in Nat /\ n * BodyCells \in Nat
  BY <1>1, <1>2, <1>3, Multiples
<1>5. q = n
  <2>1. CASE q < n
    <3>1. q * BodyCells + BodyCells <= n * BodyCells
      BY <1>2, <1>3, <2>1, Multiples
    <3> QED
      BY <1>2, <1>3, <1>4, <3>1
  <2>2. CASE n < q
    <3>1. n * BodyCells + BodyCells <= q * BodyCells
      BY <1>2, <1>3, <2>2, Multiples
    <3> QED
      BY <1>2, <1>3, <1>4, <3>1
  <2> QED
    BY <1>3, <2>1, <2>2
<1>6. m = 0
  BY <1>3, <1>4, <1>5
<1> QED
  BY <1>1, <1>5, <1>6 DEF q, m

\* And the document file is made of whole document bodies, in any number
\* (D.c:163-170).
THEOREM WholeDocumentsFiled == Spec => []DocumentsWhole
<1>1. DeskInv => DocumentsWhole
  <2> SUFFICES ASSUME DeskInv, ~raced
               PROVE  /\ Len(doc) % BodyCells = 0
                      /\ \A k \in 1 .. Len(doc) \div BodyCells : WholeBody(Nth(doc, k))
    BY DEF DocumentsWhole, WholeBody, Nth
  <2> QED
    BY FiledMeansWhole DEF DeskInv, SocketTypes, Documents
<1> QED
  BY <1>1, DeskInvariant, PTL

\* The editor's second read of a report never waits: the desk's one write has
\* brought both parts (R.c:98, editor.c:155-202).
THEOREM SecondReadNeverWaits == Spec => []NeverWaitsMidReport
<1>1. DeskInv => NeverWaitsMidReport
  <2> SUFFICES ASSUME DeskInv, ~raced, epc = "body"
               PROVE  Len(fifo) >= BodyCells
    BY DEF NeverWaitsMidReport
  <2>1. fifo # <<>> /\ fifo[1].pos = 2
    BY DEF DeskInv, InStep, Behind
  <2>2. BodyCells <= Len(fifo) /\ Len(fifo) \in Nat
    BY <2>1, BodyInFront, LenProperties DEF DeskInv, PipeTypes, Stream
  <2> QED
    BY <2>2, SizesAssumption
<1> QED
  BY <1>1, DeskInvariant, PTL

\* Where all three programs are held up with work left, a reporter holds the
\* desk, or the editor waits for a writer that will not come, or the editor is
\* gone: the pipe and the sockets alone never lock them up, raced or not
\* (R.c:85-92, editor.c:185, D.c:158).
THEOREM StallsAreKnown == Spec => []StallsOnlyAsKnown
<1>1. DeskInv => StallsOnlyAsKnown
  <2> SUFFICES ASSUME DeskInv, DeskBlocked, EditorBlocked, WriterBlocked, Outstanding,
                      ~DeskHeldUp, epc # "dead"
               PROVE  WaitsForSpentWriter
    BY DEF StallsOnlyAsKnown
  <2> USE DEF DeskInv
  <2>1. ASSUME fifo = <<>>
        PROVE  FALSE
    <3>1. CASE rpc = "poll"
      BY <2>1, <3>1 DEF DeskBlocked, Outstanding, DeskBusy
    <3>2. CASE rpc = "accept"
      <4>1. Slot \in todo /\ Slot \in Slots
        BY <3>2, SlotInTodo DEF DeskBusy, DeskTypes
      <4>2. conn[Slot].state \in {"idle", "open", "left", "sent"} /\ conn[Slot].state # "idle"
        BY <4>1 DEF DeskBusy, DeskTypes
      <4> QED
        BY <3>2, <4>2 DEF DeskBlocked, DeskHeldUp
    <3>3. CASE rpc = "write"
      <4>1. Len(fifo) + BodyCells + 1 > FifoCap /\ Len(fifo) = 0
        BY <2>1, <3>3 DEF DeskBlocked
      <4> QED
        BY <4>1, SizesAssumption
    <3> QED
      BY <3>1, <3>2, <3>3 DEF DeskTypes
  <2>2. epc = "accept" /\ backlog = <<>>
    BY <2>1 DEF EditorBlocked
  <2>3. ~Contains(backlog, "alive") /\ peer = "none" /\ listening
    BY <2>2 DEF Contains, Connected
  <2> QED
    BY <2>1, <2>2, <2>3 DEF WriterBlocked, WaitsForSpentWriter
<1> QED
  BY <1>1, DeskInvariant, PTL
=============================================================================
