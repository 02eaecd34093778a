------------------------------ MODULE NewsDesk ------------------------------
(***************************************************************************)
(* src/Mid Th/q3 New: the report desk R.c, the editor editor.c and the       *)
(* document writer D.c, around the named pipe "Rep".                         *)
(*                                                                          *)
(* Reporters connect to the desk and send one report of 200 bytes, which     *)
(* the desk writes to the pipe in one write.  The editor reads two bytes and *)
(* then the other 198, and puts the report into the message queue for one    *)
(* reader or the other.  When the two bytes are "/d" it leaves the rest in   *)
(* the pipe and passes the pipe's descriptor over the Unix socket "mysocket" *)
(* to the document writer, which reads 198 bytes and appends them to a file. *)
(* The pipe is a sequence of cells of two bytes.  A report's text, as a C      *)
(* string, ends in one of its cells; FullS and a message hold as much as a   *)
(* report, and what does not fit runs over FullS and is not in the message.  *)
(***************************************************************************)
EXTENDS Naturals, Sequences, FiniteSets, SequencesExt

CONSTANTS
    Slots,        \* the desk's listening sockets, in polling order: 1 .. 3
    BodyCells,    \* cells of a report after its first: 99
    TextCells,    \* the cells a report's text takes, its end included
    FifoCap,      \* cells the pipe holds: 32768
    MaxJunk,      \* bound: cells FullS holds by chance at first
    MaxReports,   \* bound: reports sent by reporters
    MaxRestarts   \* bound: restarts of the document writer

ASSUME SlotsAssumption == Slots \subseteq Nat /\ IsFiniteSet(Slots)
ASSUME SizesAssumption == BodyCells \in Nat \ {0} /\ FifoCap \in Nat /\ FifoCap > BodyCells
\* A report is not an empty line.
ASSUME TextCellsAssumption == TextCells \in [1 .. MaxReports -> 2 .. BodyCells + 1]
ASSUME BoundsAssumption == MaxJunk \in Nat /\ MaxReports \in Nat /\ MaxRestarts \in Nat

VARIABLES
    conn,         \* the reporter's connection in each slot
    sent,         \* reports sent so far
    rpc, todo,    \* the desk: next statement, sockets poll reported
    held,         \* the report the desk has received
    fifo,         \* the pipe "Rep"
    epc,          \* the editor: next statement
    head,         \* the two bytes it has read of a report: at most one cell
    fullS,        \* the string in its array FullS, and beyond it
    which,        \* whichnewsreader
    published,    \* the messages sent to the readers, and of which report
    listening,    \* "mysocket" is bound and listening
    backlog,      \* connections waiting there: is the writer of each alive?
    peer,         \* the connection the editor has accepted
    dpc,          \* the document writer: next statement
    passed,       \* a descriptor is on its way to it
    read,         \* the cells it has read
    doc,          \* docwrite.txt
    restarts,     \* restarts of the document writer so far
    owed,         \* history: the writer has been promised the next read
    raced         \* history: the editor read first, or the writer was ended between
                  \* the promise and the end of its write to the file

deskvars == <<rpc, todo, held>>
editorvars == <<epc, head, fullS, which, published>>
sockvars == <<listening, backlog, peer, passed>>
writervars == <<dpc, read, doc, restarts>>
history == <<owed, raced>>
vars == <<conn, sent, deskvars, fifo, editorvars, sockvars, writervars, history>>

Kinds == {"news", "doc"}
Idle == [state |-> "idle", id |-> 0, kind |-> "none"]
NoReport == [id |-> 0, kind |-> "none"]

\* The 200 bytes of a report: the cell with its first two characters ("/d" for
\* a document) and the others.
Cells(r) == [p \in 1 .. BodyCells + 1 |-> [id |-> r.id, kind |-> r.kind, pos |-> p]]
Body(r) == Tail(Cells(r))

MessageCells == BodyCells + 1   \* sizeof FullS, sizeof M.message
Junk == [id |-> 0, kind |-> "junk", pos |-> 1]

\* The string in cells that were read: up to the first that ends a text.
TextOf(cells) ==
    LET ends == {p \in DOMAIN cells : cells[p].pos = TextCells[cells[p].id]}
    IN  IF ends = {} THEN cells ELSE SubSeq(cells, 1, Min(ends))

\* A read of at most n cells: what there is, up to n.
Readable(n) == IF Len(fifo) < n THEN Len(fifo) ELSE n

Init ==
    /\ conn = [s \in Slots |-> Idle] /\ sent = 0
    /\ rpc = "poll" /\ todo = {} /\ held = NoReport
    /\ fifo = <<>>
    /\ epc = "poll" /\ head = <<>> /\ which = 1 /\ published = <<>>
    /\ \E n \in 0 .. MaxJunk : fullS = [p \in 1 .. n |-> Junk]
    /\ listening = FALSE /\ backlog = <<>> /\ peer = "none" /\ passed = FALSE
    /\ dpc = "connect" /\ read = <<>> /\ doc = <<>> /\ restarts = 0
    /\ owed = FALSE /\ raced = FALSE

-----------------------------------------------------------------------------
(* Reporters *)

ReporterConnect(s) ==
    /\ conn[s].state = "idle"
    /\ conn' = [conn EXCEPT ![s].state = "open"]
    /\ UNCHANGED <<sent, deskvars, fifo, editorvars, sockvars, writervars, history>>

ReporterSend(s) ==              \* fgets, send of all 200 bytes, exit
    /\ conn[s].state = "open" /\ sent < MaxReports
    /\ \E k \in Kinds :
          conn' = [conn EXCEPT ![s] = [state |-> "sent", id |-> sent + 1, kind |-> k]]
    /\ sent' = sent + 1
    /\ UNCHANGED <<deskvars, fifo, editorvars, sockvars, writervars, history>>

ReporterLeave(s) ==             \* ended at its prompt
    /\ conn[s].state = "open"
    /\ conn' = [conn EXCEPT ![s].state = "left"]
    /\ UNCHANGED <<sent, deskvars, fifo, editorvars, sockvars, writervars, history>>

-----------------------------------------------------------------------------
(* The report desk *)

DeskPollAll ==                  \* seeded bug: revents is not looked at
    /\ rpc = "poll"
    /\ \E s \in Slots : conn[s].state # "idle"
    /\ todo' = Slots
    /\ rpc' = "accept"
    /\ UNCHANGED <<conn, sent, held, fifo, editorvars, sockvars, writervars, history>>

DeskPoll ==
    /\ rpc = "poll"
    /\ todo' = {s \in Slots : conn[s].state # "idle"}
    /\ todo' # {}
    /\ rpc' = "accept"
    /\ UNCHANGED <<conn, sent, held, fifo, editorvars, sockvars, writervars, history>>

Slot == CHOOSE s \in todo : \A t \in todo : s <= t

\* accept, then recv until it returns something: on a connection that was
\* closed without a report it returns 0 for ever.
DeskReceive ==
    /\ rpc = "accept" /\ todo # {}
    /\ conn[Slot].state = "sent"
    /\ held' = [id |-> conn[Slot].id, kind |-> conn[Slot].kind]
    /\ conn' = [conn EXCEPT ![Slot] = Idle]
    /\ todo' = todo \ {Slot}
    /\ rpc' = "write"
    /\ UNCHANGED <<sent, fifo, editorvars, sockvars, writervars, history>>

\* write(fd, s, 200): at most PIPE_BUF bytes, so all or nothing.
DeskWrite ==
    /\ rpc = "write"
    /\ Len(fifo) + BodyCells + 1 <= FifoCap
    /\ fifo' = fifo \o Cells(held)
    /\ held' = NoReport
    /\ rpc' = IF todo = {} THEN "poll" ELSE "accept"
    /\ UNCHANGED <<conn, sent, todo, editorvars, sockvars, writervars, history>>

DeskStep == DeskPoll \/ DeskReceive \/ DeskWrite

-----------------------------------------------------------------------------
(* The editor *)

EditorPoll ==
    /\ epc = "poll" /\ fifo # <<>>
    /\ epc' = "head"
    /\ UNCHANGED <<conn, sent, deskvars, fifo, head, fullS, which, published,
                   sockvars, writervars, history>>

IsDocument(c) == c.kind = "doc" /\ c.pos = 1

EditorHead ==                   \* read(.., s, 2), s[0]=='/' && s[1]=='d'
    /\ epc = "head" /\ fifo # <<>>
    /\ fifo' = Tail(fifo)
    /\ IF IsDocument(Head(fifo))
       THEN epc' = "listen" /\ head' = <<>>
       ELSE epc' = "body" /\ head' = <<Head(fifo)>>
    /\ raced' = (raced \/ owed)
    /\ UNCHANGED <<conn, sent, deskvars, fullS, which, published, sockvars,
                   writervars, owed>>

EditorBodyShort ==              \* seeded bug: one cell too few
    /\ epc = "body" /\ fifo # <<>>
    /\ LET n == Readable(BodyCells - 1)
           text == TextOf(head \o SubSeq(fifo, 1, n))
       IN  /\ fifo' = SubSeq(fifo, n + 1, Len(fifo))
           /\ \E old \in {<<>>, fullS} : fullS' = old \o text
    /\ \/ epc' = "publish"
       \/ epc' = "dead" /\ Len(fullS') > MessageCells
    /\ UNCHANGED <<conn, sent, deskvars, head, which, published, sockvars, writervars, history>>

\* read(.., ss, 198) blocks only while the pipe is empty.  FullS was never
\* initialised: strcat finds an empty string in it, or what was there.  If the
\* texts need more than its 200 bytes they run over what is beyond it, which may
\* be what the editor polls, or the end of its stack.
EditorBody ==
    /\ epc = "body" /\ fifo # <<>>
    /\ LET n == Readable(BodyCells)
           text == TextOf(head \o SubSeq(fifo, 1, n))
       IN  /\ fifo' = SubSeq(fifo, n + 1, Len(fifo))
           /\ \E old \in {<<>>, fullS} : fullS' = old \o text
    /\ \/ epc' = "publish"
       \/ epc' = "dead" /\ Len(fullS') > MessageCells
    /\ UNCHANGED <<conn, sent, deskvars, head, which, published, sockvars, writervars, history>>

\* strncpy of sizeof(M.message) - 1
Message == SubSeq(fullS, 1, IF Len(fullS) < MessageCells THEN Len(fullS) ELSE MessageCells)

EditorPublish ==                \* msgsnd and the toggle
    /\ epc = "publish"
    /\ published' = Append(published, [type |-> which, text |-> Message, id |-> head[1].id])
    /\ head' = <<>>
    /\ which' = IF which = 1 THEN 2 ELSE 1
    /\ epc' = "poll"
    /\ UNCHANGED <<conn, sent, deskvars, fifo, fullS, sockvars, writervars, history>>

EditorListen ==                 \* socket, unlink, bind, listen
    /\ epc = "listen"
    /\ listening' = TRUE /\ backlog' = <<>>
    /\ epc' = "accept"
    /\ UNCHANGED <<conn, sent, deskvars, fifo, head, fullS, which, published,
                   peer, passed, writervars, history>>

EditorAccept ==
    /\ epc = "accept" /\ backlog # <<>>
    /\ peer' = Head(backlog) /\ backlog' = Tail(backlog)
    /\ epc' = "sendfd"
    /\ UNCHANGED <<conn, sent, deskvars, fifo, head, fullS, which, published,
                   listening, passed, writervars, history>>

\* The length passed to accept is not initialised: if negative, accept fails
\* and the editor exits.
EditorAcceptFails ==
    /\ epc = "accept" /\ backlog # <<>>
    /\ epc' = "dead"
    /\ listening' = FALSE /\ backlog' = <<>>
    /\ UNCHANGED <<conn, sent, deskvars, fifo, head, fullS, which, published,
                   peer, passed, writervars, history>>

EditorSendFd ==                 \* send_fd, close(usfd)
    /\ epc = "sendfd" /\ peer = "alive"
    /\ passed' = TRUE /\ owed' = TRUE
    /\ peer' = "none" /\ listening' = FALSE /\ backlog' = <<>>
    /\ epc' = "poll"
    /\ UNCHANGED <<conn, sent, deskvars, fifo, head, fullS, which, published,
                   writervars, raced>>

EditorKilled ==                 \* sendmsg to a writer that is gone: SIGPIPE
    /\ epc = "sendfd" /\ peer = "dead"
    /\ epc' = "dead"
    /\ peer' = "none" /\ listening' = FALSE /\ backlog' = <<>>
    /\ UNCHANGED <<conn, sent, deskvars, fifo, head, fullS, which, published,
                   passed, writervars, history>>

EditorStep ==
    \/ EditorPoll \/ EditorHead \/ EditorBody \/ EditorPublish
    \/ EditorListen \/ EditorAccept \/ EditorAcceptFails \/ EditorSendFd \/ EditorKilled

-----------------------------------------------------------------------------
(* The document writer *)

WriterConnect ==                \* retried until it succeeds
    /\ dpc = "connect" /\ listening
    /\ backlog' = Append(backlog, "alive")
    /\ dpc' = "recvfd"
    /\ UNCHANGED <<conn, sent, deskvars, fifo, editorvars, listening, peer,
                   passed, read, doc, restarts, history>>

WriterRecvFd ==
    /\ dpc = "recvfd" /\ passed
    /\ passed' = FALSE
    /\ dpc' = "read"
    /\ UNCHANGED <<conn, sent, deskvars, fifo, editorvars, listening, backlog,
                   peer, read, doc, restarts, history>>

\* Its connection was still in the backlog when the editor ended: recv_fd
\* returns -1, and so do read and write after it.
WriterRefused ==
    /\ dpc = "recvfd" /\ ~passed /\ peer # "alive"
    /\ ~Contains(backlog, "alive")
    /\ dpc' = "spent"
    /\ UNCHANGED <<conn, sent, deskvars, fifo, editorvars, sockvars, read, doc,
                   restarts, history>>

WriterReadWithHead ==           \* seeded bug: 200 bytes, the size of a report
    /\ dpc = "read" /\ fifo # <<>>
    /\ LET n == Readable(BodyCells + 1)
       IN  /\ read' = SubSeq(fifo, 1, n)
           /\ fifo' = SubSeq(fifo, n + 1, Len(fifo))
    /\ owed' = FALSE
    /\ dpc' = "append"
    /\ UNCHANGED <<conn, sent, deskvars, editorvars, sockvars, doc, restarts, raced>>

WriterRead ==                   \* read(t, s, 198)
    /\ dpc = "read" /\ fifo # <<>>
    /\ LET n == Readable(BodyCells)
       IN  /\ read' = SubSeq(fifo, 1, n)
           /\ fifo' = SubSeq(fifo, n + 1, Len(fifo))
    /\ owed' = FALSE
    /\ dpc' = "append"
    /\ UNCHANGED <<conn, sent, deskvars, editorvars, sockvars, doc, restarts, raced>>

\* write, close(t); the next connect is on the socket that is connected
\* already: EISCONN, for ever.
WriterAppend ==
    /\ dpc = "append"
    /\ doc' = doc \o read /\ read' = <<>>
    /\ dpc' = "spent"
    /\ UNCHANGED <<conn, sent, deskvars, fifo, editorvars, sockvars, restarts, history>>

\* Its user ends it and starts it again: a new socket.
WriterRestart ==
    /\ restarts < MaxRestarts
    /\ restarts' = restarts + 1
    /\ dpc' = "connect" /\ read' = <<>>
    /\ passed' = FALSE
    /\ backlog' = [i \in DOMAIN backlog |-> "dead"]
    /\ peer' = IF peer = "alive" THEN "dead" ELSE peer
    /\ raced' = (raced \/ owed \/ read # <<>>) /\ owed' = FALSE
    /\ UNCHANGED <<conn, sent, deskvars, fifo, editorvars, listening, doc>>

WriterStep ==
    WriterConnect \/ WriterRecvFd \/ WriterRefused \/ WriterRead \/ WriterAppend

-----------------------------------------------------------------------------
Next ==
    \/ \E s \in Slots : ReporterConnect(s) \/ ReporterSend(s) \/ ReporterLeave(s)
    \/ DeskStep \/ EditorStep \/ WriterStep \/ WriterRestart

Spec == Init /\ [][Next]_vars

\* The three programs run whenever they can; reporters and the writer's user
\* do what they like.
FairSpec ==
    Spec /\ WF_vars(DeskStep) /\ WF_vars(EditorStep) /\ WF_vars(WriterStep)

-----------------------------------------------------------------------------
(* Properties *)

Reports == [id : 1 .. MaxReports, kind : Kinds]

\* A message that starts with what FullS held by chance and goes on with news
\* texts, each from its beginning to its end; only one that fills the message
\* may be cut.
WholeTexts(m) ==
    \A p \in DOMAIN m :
        LET News(q) == [id |-> m[p].id, kind |-> "news", pos |-> q]
        IN  \/ m[p] = Junk
            \/ /\ m[p] = News(m[p].pos)
               /\ m[p].pos > 1 => p > 1 /\ m[p - 1] = News(m[p].pos - 1)
               /\ m[p].pos < TextCells[m[p].id] =>
                    IF p = Len(m) THEN p = MessageCells ELSE m[p + 1] = News(m[p].pos + 1)

\* As long as the document writer got its 198 bytes before the editor read
\* again, no message holds a part of a document, or a part of a report but at
\* its 199th byte, and it ends with the report it was made of unless what FullS
\* held before has filled it (editor.c:155-209).
PublishesWholeReports ==
    ~raced => \A k \in DOMAIN published :
        LET m == published[k].text
        IN  /\ WholeTexts(m)
            /\ Len(m) < MessageCells => m # <<>> /\ Last(m).id = published[k].id

\* And the document file is made of whole document bodies (D.c:163-170).
DocumentsWhole ==
    ~raced =>
        /\ Len(doc) % BodyCells = 0
        /\ \A k \in 1 .. Len(doc) \div BodyCells :
              \E r \in Reports :
                  /\ r.kind = "doc"
                  /\ SubSeq(doc, (k - 1) * BodyCells + 1, k * BodyCells) = Body(r)

\* Then the editor also never waits in the middle of a report: the desk's
\* write brings both parts at once.
NeverWaitsMidReport == ~raced /\ epc = "body" => Len(fifo) >= BodyCells

\* The editor is blocked for good when a second document finds the writer
\* still spinning on its connected socket (editor.c:185, D.c:158).
WaitsForSpentWriter == epc = "accept" /\ backlog = <<>> /\ dpc = "spent"

\* Who can move: each program is blocked in a call, or retries one in vain.
EditorBlocked ==
    \/ epc \in {"poll", "head", "body"} /\ fifo = <<>>
    \/ epc = "accept" /\ backlog = <<>>
    \/ epc = "dead"

DeskHeldUp == rpc = "accept" /\ conn[Slot].state \in {"open", "left"}

DeskBlocked ==
    \/ rpc = "poll" /\ \A s \in Slots : conn[s].state = "idle"
    \/ rpc = "accept" /\ conn[Slot].state # "sent"
    \/ rpc = "write" /\ Len(fifo) + BodyCells + 1 > FifoCap

WriterBlocked ==
    \/ dpc = "connect" /\ ~listening
    \/ dpc = "recvfd" /\ ~passed /\ (peer = "alive" \/ Contains(backlog, "alive"))
    \/ dpc = "read" /\ fifo = <<>>
    \/ dpc = "spent"

Outstanding ==
    \/ fifo # <<>> \/ held # NoReport
    \/ \E s \in Slots : conn[s].state = "sent"

\* The three programs together stop before their work is done only for one of
\* three reasons: a reporter keeps the desk in recv (R.c:85-92), the editor
\* waits for a writer that will not come again, or the editor is gone.
StallsOnlyAsKnown ==
    DeskBlocked /\ EditorBlocked /\ WriterBlocked /\ Outstanding =>
        DeskHeldUp \/ WaitsForSpentWriter \/ epc = "dead"

\* Liveness: without races, with reporters that do send, with a writer that is
\* there for each document, and as long as FullS has room for what was left in
\* it and the new text, every report gets to a reader's message or to the
\* document file: again and again, all that were sent are there.
Handled(id) ==
    \/ \E k \in DOMAIN published : \E c \in ToSet(published[k].text) : c.id = id
    \/ \E c \in ToSet(doc) : c.id = id

EveryReportHandled ==
    (/\ []~raced
     /\ [](epc # "dead")
     /\ [](Len(fullS) <= MessageCells)
     /\ [](\A s \in Slots : conn[s].state # "left")
     /\ \A s \in Slots : []<>(conn[s].state # "open")
     /\ []<>~WaitsForSpentWriter)
    => []<>(\A id \in 1 .. sent : Handled(id))

=============================================================================
