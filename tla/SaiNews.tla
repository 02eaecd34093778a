------------------------------- MODULE SaiNews -------------------------------
(***************************************************************************)
(* src/Mid Th/q3 sai kartik: q1_r1.c, q1_r2.c, q1_r3.c (reporters),          *)
(* q1_editor.c, news_reader.c and doc_writer.c.                              *)
(*                                                                          *)
(* The editor takes one reporter at a time.  A report that begins with "/d"   *)
(* is a document: the editor waits for a document writer on a Unix socket     *)
(* and passes it the reporter's connection.  Any other report goes to the     *)
(* news reader, whose two threads take turns at the one connection.           *)
(*                                                                          *)
(* Texts of 1024 bytes arrive whole.  The busy waits on `which` are modelled   *)
(* as waits, as in a build without optimisation.  A report is named after      *)
(* its reporter; each reporter and each document writer is run once.           *)
(***************************************************************************)
EXTENDS Naturals, Sequences

CONSTANTS
    Reporters,
    Docs,         \* those whose report begins with "/d"
    Writers,      \* runs of doc_writer
    MaxRepeats,   \* bound on what is read out after the editor has gone
    MaxBlocks     \* bound on what a document writer writes

ASSUME DocsAssumption == Docs \subseteq Reporters
ASSUME MaxRepeatsAssumption == MaxRepeats \in Nat
ASSUME MaxBlocksAssumption == MaxBlocks \in Nat \ {0}

VARIABLES
    \* reporters: idle, connected, closed, gone (killed before sending);
    \* what is still unread at the other end: none, whole, rest
    rpc, unread,
    \* the editor: off, accept, test, doc, news, ended
    epc, backlog, cur,
    \* its connection to the news reader: none, open, fin (the reader has
    \* gone), broken; texts on their way
    wire, line,
    \* the news reader: off, listening, reading, killed; its two threads:
    \* turn, wait, recv, print, post
    npc, tpc, which, mutex, buffer,
    \* document writers: off, wait, copy, killed
    wpc, writers, passed, conn,
    blocks,       \* blocks of 1024 bytes written
    file,         \* doc_writer.txt is open
    \* history
    sent, readout, kept

reportervars == <<rpc, unread>>
editorvars == <<epc, backlog, cur, wire, sent>>
readervars == <<npc, tpc, which, mutex, buffer, readout>>
writervars == <<wpc, writers, passed, conn, blocks, file, kept>>
vars == <<reportervars, editorvars, line, readervars, writervars>>

Nobody == "nobody"
Stale == "stale"               \* what happens to be in a buffer nothing was read into
Silence == "silence"           \* the news reader's buffer before anything has come
Threads == {"reader_1", "reader_2"}

Init ==
    /\ rpc = [r \in Reporters |-> "idle"] /\ unread = [r \in Reporters |-> "none"]
    /\ epc = "off" /\ backlog = <<>> /\ cur = Nobody
    /\ wire = "none" /\ line = <<>>
    /\ npc = "off" /\ tpc = [t \in Threads |-> "turn"] /\ which = 1
    /\ mutex = 1 /\ buffer = Silence
    /\ wpc = [w \in Writers |-> "off"] /\ writers = <<>>
    /\ passed = [w \in Writers |-> Nobody] /\ conn = [w \in Writers |-> Nobody]
    /\ blocks = [w \in Writers |-> 0] /\ file = [w \in Writers |-> FALSE]
    /\ sent = <<>> /\ readout = <<>> /\ kept = {}

-----------------------------------------------------------------------------
(* A reporter.  One that finds no editor is ended by its own send. *)

ReporterConnect(r) ==
    /\ rpc[r] = "idle" /\ epc \notin {"off", "ended"}
    /\ rpc' = [rpc EXCEPT ![r] = "connected"]
    /\ backlog' = Append(backlog, r)
    /\ UNCHANGED <<unread, epc, cur, wire, sent, line, readervars, writervars>>

ReporterSend(r) ==              \* and close
    /\ rpc[r] = "connected"
    /\ rpc' = [rpc EXCEPT ![r] = "closed"]
    /\ unread' = [unread EXCEPT ![r] = "whole"]
    /\ UNCHANGED <<editorvars, line, readervars, writervars>>

ReporterKill(r) ==
    /\ rpc[r] = "connected"
    /\ rpc' = [rpc EXCEPT ![r] = "gone"]
    /\ UNCHANGED <<unread, editorvars, line, readervars, writervars>>

-----------------------------------------------------------------------------
(* The editor *)

\* connect to the news reader may fail: nobody looks.
EditorStart ==
    /\ epc = "off"
    /\ epc' = "accept"
    /\ wire' = IF npc = "listening" THEN "open" ELSE "none"
    /\ UNCHANGED <<reportervars, backlog, cur, sent, line, readervars, writervars>>

EditorAccept ==                 \* and pthread_create
    /\ epc = "accept" /\ backlog # <<>>
    /\ cur' = Head(backlog) /\ backlog' = Tail(backlog)
    /\ epc' = "test"
    /\ UNCHANGED <<reportervars, wire, sent, line, readervars, writervars>>

\* The first two bytes.  When the reporter went without sending, the bytes
\* compared are whatever the stack holds.
EditorTest ==
    /\ epc = "test"
    /\ \/ /\ unread[cur] = "whole"
          /\ unread' = [unread EXCEPT ![cur] = "rest"]
          /\ epc' = IF cur \in Docs THEN "doc" ELSE "news"
       \/ /\ rpc[cur] = "gone"
          /\ epc' \in {"doc", "news"}
          /\ UNCHANGED unread
    /\ UNCHANGED <<rpc, backlog, cur, wire, sent, line, readervars, writervars>>

\* accept on the Unix socket, send_fd; a writer that has gone meanwhile takes
\* the editor with it.
EditorDoc ==
    LET w == Head(writers) IN
    /\ epc = "doc" /\ writers # <<>>
    /\ writers' = Tail(writers)
    /\ IF wpc[w] = "killed"
         THEN epc' = "ended" /\ UNCHANGED passed
         ELSE epc' = "accept" /\ passed' = [passed EXCEPT ![w] = cur]
    /\ UNCHANGED <<reportervars, backlog, cur, wire, sent, line, readervars,
                   wpc, conn, blocks, file, kept>>

\* The rest of the report, or nothing, is read and sent on.  The first text
\* after the news reader has gone is lost; the next one, or the first of all
\* if there was no news reader to connect to, raises SIGPIPE.
EditorNews ==
    LET text == IF unread[cur] = "rest" THEN cur ELSE Stale IN
    /\ epc = "news"
    /\ unread' = [unread EXCEPT ![cur] = "none"]
    /\ \/ /\ wire = "open"
          /\ line' = Append(line, text) /\ sent' = Append(sent, text)
          /\ epc' = "accept"
          /\ UNCHANGED wire
       \/ /\ wire = "fin"
          /\ wire' = "broken"
          /\ epc' = "accept"
          /\ UNCHANGED <<line, sent>>
       \/ /\ wire \in {"none", "broken"}
          /\ epc' = "ended"
          /\ UNCHANGED <<wire, line, sent>>
    /\ UNCHANGED <<rpc, backlog, cur, readervars, writervars>>

EditorStep ==
    \/ EditorAccept \/ EditorTest \/ EditorDoc \/ EditorNews

EditorKill ==
    /\ epc \notin {"off", "ended"}
    /\ epc' = "ended"
    /\ UNCHANGED <<reportervars, backlog, cur, wire, sent, line, readervars, writervars>>

-----------------------------------------------------------------------------
(* The news reader *)

NewsStart ==
    /\ npc = "off"
    /\ npc' = "listening"
    /\ UNCHANGED <<reportervars, editorvars, line, tpc, which, mutex, buffer, readout, writervars>>

NewsAccept ==                   \* and both pthread_create
    /\ npc = "listening" /\ wire = "open"
    /\ npc' = "reading"
    /\ UNCHANGED <<reportervars, editorvars, line, tpc, which, mutex, buffer, readout, writervars>>

Turn(t) == IF t = "reader_1" THEN which = 1 ELSE which = 0

Goto(t, label) == tpc' = [tpc EXCEPT ![t] = label]

\* seeded bug: a thread does not wait for its turn
ReaderTurnDropped(t) ==
    /\ npc = "reading" /\ tpc[t] = "turn"
    /\ Goto(t, "wait")
    /\ UNCHANGED <<reportervars, editorvars, line, npc, which, mutex, buffer, readout, writervars>>

ReaderTurn(t) ==                \* while(which==...);
    /\ npc = "reading" /\ tpc[t] = "turn" /\ Turn(t)
    /\ Goto(t, "wait")
    /\ UNCHANGED <<reportervars, editorvars, line, npc, which, mutex, buffer, readout, writervars>>

ReaderWait(t) ==                \* sem_wait
    /\ npc = "reading" /\ tpc[t] = "wait" /\ mutex > 0
    /\ mutex' = mutex - 1
    /\ Goto(t, "recv")
    /\ UNCHANGED <<reportervars, editorvars, line, npc, which, buffer, readout, writervars>>

\* recv is not checked: once the editor has gone the buffer stays as it was.
ReaderRecv(t) ==
    /\ npc = "reading" /\ tpc[t] = "recv"
    /\ \/ /\ line # <<>>
          /\ buffer' = Head(line) /\ line' = Tail(line)
       \/ /\ line = <<>> /\ epc = "ended" /\ Len(readout) < Len(sent) + MaxRepeats
          /\ UNCHANGED <<buffer, line>>
    /\ Goto(t, "print")
    /\ UNCHANGED <<reportervars, editorvars, npc, which, mutex, readout, writervars>>

ReaderPrint(t) ==               \* printf, which=...
    /\ npc = "reading" /\ tpc[t] = "print"
    /\ readout' = Append(readout, [by |-> t, text |-> buffer])
    /\ which' = IF t = "reader_1" THEN 0 ELSE 1
    /\ Goto(t, "post")
    /\ UNCHANGED <<reportervars, editorvars, line, npc, mutex, buffer, writervars>>

ReaderPost(t) ==
    /\ npc = "reading" /\ tpc[t] = "post"
    /\ mutex' = mutex + 1
    /\ Goto(t, "turn")
    /\ UNCHANGED <<reportervars, editorvars, line, npc, which, buffer, readout, writervars>>

ReaderStep(t) ==
    \/ ReaderTurn(t) \/ ReaderWait(t) \/ ReaderRecv(t)
    \/ ReaderPrint(t) \/ ReaderPost(t)

NewsKill ==
    /\ npc \in {"listening", "reading"}
    /\ npc' = "killed"
    /\ wire' = IF wire = "open" THEN "fin" ELSE wire
    /\ UNCHANGED <<reportervars, epc, backlog, cur, sent, line,
                   tpc, which, mutex, buffer, readout, writervars>>

-----------------------------------------------------------------------------
(* A document writer; one that finds no editor ends, as if it had not come *)

WriterConnect(w) ==
    /\ wpc[w] = "off" /\ epc \notin {"off", "ended"}
    /\ wpc' = [wpc EXCEPT ![w] = "wait"]
    /\ writers' = Append(writers, w)
    /\ UNCHANGED <<reportervars, editorvars, line, readervars, passed, conn, blocks, file, kept>>

\* open fails when there is no doc_writer.txt: it is not created, and the writer
\* goes on.  recv_fd fails when the editor goes first; nobody looks.
WriterRecvFd(w) ==
    /\ wpc[w] = "wait" /\ (passed[w] # Nobody \/ epc = "ended")
    /\ conn' = [conn EXCEPT ![w] = passed[w]]
    /\ \E exists \in BOOLEAN : file' = [file EXCEPT ![w] = exists]
    /\ wpc' = [wpc EXCEPT ![w] = "copy"]
    /\ UNCHANGED <<reportervars, editorvars, line, readervars,
                   writers, passed, blocks, kept>>

NothingComes(w) ==
    conn[w] # Nobody => unread[conn[w]] = "none" /\ rpc[conn[w]] \in {"closed", "gone"}

\* seeded bug: the writer waits for more before it writes what it has
WriterCopyLate(w) ==
    /\ wpc[w] = "copy"
    /\ \/ /\ conn[w] # Nobody /\ unread[conn[w]] # "none"
          /\ unread' = [unread EXCEPT ![conn[w]] = "none"]
          /\ UNCHANGED blocks
       \/ /\ NothingComes(w) /\ blocks[w] < MaxBlocks
          /\ blocks' = [blocks EXCEPT ![w] = @ + 1]
          /\ UNCHANGED unread
    /\ UNCHANGED <<rpc, editorvars, line, readervars, wpc, writers, passed, conn, file, kept>>

\* recv is not checked: at the end of the report, or with no connection, the
\* old contents of the buffer are written, again and again.  All writers start
\* at the beginning of the same file.
WriterCopy(w) ==                \* recv, write
    /\ wpc[w] = "copy"
    /\ \/ /\ conn[w] # Nobody /\ unread[conn[w]] # "none"
          /\ unread' = [unread EXCEPT ![conn[w]] = "none"]
          /\ kept' = IF file[w] THEN kept \union {conn[w]} ELSE kept
       \/ /\ NothingComes(w) /\ blocks[w] < MaxBlocks
          /\ UNCHANGED <<unread, kept>>
    /\ blocks' = [blocks EXCEPT ![w] = @ + 1]
    /\ UNCHANGED <<rpc, editorvars, line, readervars, wpc, writers, passed, conn, file>>

WriterStep(w) == WriterRecvFd(w) \/ WriterCopy(w)

WriterKill(w) ==
    /\ wpc[w] \in {"wait", "copy"}
    /\ wpc' = [wpc EXCEPT ![w] = "killed"]
    /\ UNCHANGED <<reportervars, editorvars, line, readervars,
                   writers, passed, conn, blocks, file, kept>>

-----------------------------------------------------------------------------
Next ==
    \/ EditorStart \/ EditorStep \/ EditorKill
    \/ NewsStart \/ NewsAccept \/ NewsKill
    \/ \E t \in Threads : ReaderStep(t)
    \/ \E r \in Reporters :
        ReporterConnect(r) \/ ReporterSend(r) \/ ReporterKill(r)
    \/ \E w \in Writers : WriterConnect(w) \/ WriterStep(w) \/ WriterKill(w)

Spec == Init /\ [][Next]_vars

\* Nobody has to start a program or stop one; what runs goes on.
FairSpec ==
    /\ Spec
    /\ WF_vars(EditorStep) /\ WF_vars(NewsAccept)
    /\ \A t \in Threads : WF_vars(ReaderStep(t))
    /\ \A r \in Reporters : WF_vars(ReporterSend(r))
    /\ \A w \in Writers : WF_vars(WriterStep(w))

-----------------------------------------------------------------------------
Wire ==
    INSTANCE NewsWire WITH
        Texts <- Reporters \union {Stale},
        Silence <- Silence,
        sent <- sent,
        readout <- readout,
        onair <- epc # "ended"

\* The busy wait on which and the semaphore (news_reader.c:32) make the two
\* threads read out every text on the wire once, in order and in turn, with one
\* buffer between them; only after the editor has ended do they repeat it.
ReadInTurn == Wire!Spec

InReadout(r) == \E n \in 1..Len(readout) : readout[n].text = r

\* Every news report sent is read out and every document is written to the
\* file, even with the one editor thread in the way of all reporters, unless a
\* document, or two bytes off the stack taken for one, makes the editor wait for
\* ever for a document writer that nobody runs (q1_editor.c:90), or the editor
\* has ended.  News may also be lost with a news reader that was killed, and a
\* document with a writer that was killed or found no doc_writer.txt.
NewsComesOut(r) ==
    rpc[r] = "closed" ~> InReadout(r) \/ epc = "ended" \/ npc = "killed"

DocumentComesOut(r) ==
    rpc[r] = "closed" ~>
        \/ r \in kept \/ epc = "ended"
        \/ \E w \in Writers : wpc[w] = "killed" \/ (wpc[w] = "copy" /\ ~file[w])

EveryReportComesOut ==
    \/ <>[](epc = "doc")
    \/ /\ \A r \in Reporters \ Docs : NewsComesOut(r)
       /\ \A r \in Docs : DocumentComesOut(r)

=============================================================================
