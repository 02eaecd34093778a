# TLA+ models of the CN2 programs

CN2 is a collection of small C and C++ programs written for a networks
laboratory. Each directory is a system of its own: several processes on one
host that talk through semaphores and shared memory, System V message queues,
FIFOs, signals, TCP, Unix and raw sockets, and that pass file descriptors to
each other. No program is long; what is hard is how the processes interleave,
what the kernel keeps when one of them ends, and what happens when a call
nobody checks fails. That is what these models are about.

## Inventory

| Component | Source | State | Operations and interaction | What makes it correct | Status |
|---|---|---|---|---|---|
| Semaphore ping-pong | `Semaphore and shared memo/SemBasic` | two shared integers, two semaphores, two loop counters | `sem_wait`, `sem_signal`, `SETVAL`; survives kills | one turn; 1..10 printed in order; sessions end | modelled, proved |
| Newsroom, readers' side | `Mid Th/q3 New`: N1, N2, L, Screen | message queue, each reader's `livetelecast` flag, pending signal, connection to L | `msgsnd`/`msgrcv` by type, `SIGUSR1` to the partner, TCP to L | each report shown once, in order; a reader pauses only for a broadcast | modelled, safety proved |
| Newsroom, desk's side | `Mid Th/q3 New`: R1-R3, R, editor, D | reporters' connections, the FIFO, the editor's `FullS`, the Unix socket, `docwrite.txt` | `poll`, `recv`, `write`, split `read`, `send_fd`/`recv_fd` | whole reports to the readers, whole documents to the file, no stall | modelled, safety proved |
| Super-server | `Minor2`: ISS, S1, S2, T, C, C2 | TCP and Unix listening queues, `port[]`, `PFD[]`, `usfds[]`, `store[]` | bind, accept, descriptor passing, sniffing of SYNs | each client is served by its own server, once; nobody is forgotten | modelled, safety proved |
| Ball game | `MidLab/q1`: R, T, C, S, P1-P4 | the referee's backlogs and reopened Unix sockets, each team's two connections, `first`/`second`, two threads per team | descriptor passing, rounds of `pthread_create`/`pthread_join`, unlocked test and set, UDP to a screen | every player reaches its team; what a round decides stays; the winners are announced | modelled, safety proved |
| Lottery | `RawSocket/Housy` | coupons, three connections, the judge's buffer and tally | the distributor sells coupons in accept order and passes the connections to the judge; the judge announces the winning coupon over a raw socket and collects W or L | a client that answers is judged by its coupons; a verdict comes | modelled, safety proved |
| Examination hall | `NITWtest`: EC, A, EO | the map and set EC's threads share without a lock (`Answers`, `Cheater`), each connection's stream, the FIFO | candidates with a thread each; a FIFO and UDP from the observer, who reports a cheater after a third packet | all answers of a candidate are kept; reports and verdicts come | modelled, safety proved |
| Newsroom (sai kartik) | `Mid Th/q3 sai kartik` | `which`, `mutex`, one buffer and one connection for two threads; the editor's single thread; documents' descriptors | alternating reads, `send_fd`/`recv_fd` | strict alternation, each text once and in order; every report comes out | modelled, refinement proved |
| Signal-driven server | `Mid Th/q2`: server, S1, S3, S5, client | ring `LastTen`, `N`, written by the accept loop and by the `SIGUSR1` handler; listening sockets and who inherited them | fork and exec of a service, `msgsnd` and signal, `msgrcv` in the handler | the ring holds the last clients; which messages stay behind is known; clients are answered | modelled, safety proved |
| Threaded echo server | `pthread/multithreaded_server.c` | the descriptor table, a heap cell per thread, `client_socket` | `accept`, `pthread_create`, echo, `close` | each descriptor is used and closed by its thread only; each client is attended | modelled, safety proved |
| Packet printers | `RawSocket/Printing`, `RawSocket/libpcap` (three programs) | counters by protocol, the position on the page | three dumps per packet | each byte of a dump appears once in both columns; what of the packet is dumped | in part: named fields and the choice of a device left out; proved |
| Newsroom, first variant | `Mid Th/q3` | three FIFOs, the same queue | as q3 New | as q3 New | not modelled |
| Newsroom (shubh) | `Mid Th/q3 shubh` | pipes of `popen`, UDP, a flag set and cleared by two signals | signals, pipes, FIFO, sockets | as q3 New | not modelled |
| Virtual classroom | `Mid Th/q4` | three queues, the students' table | queues, signals | see below | not modelled |
| Thread and raw socket exercises | `pthread/P.c`, `RawSocket/Basic`, `RawSocket/Printing/OnlyIP` | none | print what they are given | nothing shared | not modelled |
| Descriptor sharing | `UBSD/sharefd` | one file offset | `send_fd` | every byte is read once | not modelled |
| Library text | `murt.txt` | none | the snippets the programs are pasted from | | not modelled |

The two halves of the newsroom meet at one call, the editor's `msgsnd`
(`editor.c:206-219`): it is `EditorPublish` in `NewsDesk` and `Editor` in
`NewsReaders`. `Murtlib` and the `.pdf`, `.ppt` and `.docx` files are teaching
material; several files are empty (`UBSD/sharefd/S1.c`, `Mid Th/q2/S2.c`,
`pthread/multithreaded_client.c`, ...).

## Modules

| Module | Models |
|---|---|
| `TurnCounter` | abstract: two programs print 1, 2, ..., 2 * Rounds alternately, over and over |
| `SemPingPong` | P1.c and P2.c statement by statement; refines `TurnCounter` |
| `SemRestart` | the same with `Kill1` and `Kill2` at every statement |
| `SemExam_proof` | theorems about both, and about `ExamHall` |
| `MsgQueue` | operators: a System V queue with typed receive |
| `NewsReaders` | N1.c, N2.c, L.c, Screen.c and the queue |
| `NewsReaders_proof` | theorems about it |
| `NewsDesk`, `MCNewsDesk` | R1-R3.c, R.c, editor.c, D.c, the FIFO and the Unix socket; their instance |
| `NewsDesk_proof` | theorems about it |
| `SuperServer`, `MCSuperServer` | the Minor2 programs, and their instance |
| `SuperServer_proof` | theorems about it |
| `BallGame`, `MCBallGame` | the MidLab/q1 programs, and their instance |
| `Lottery` | distributor, judge and three clients |
| `Games_proof` | theorems about `BallGame` and `Lottery` |
| `ExamHall` | EC.cpp with its threads, A.cpp, EO.cpp |
| `SignalServer`, `MCSignalServer` | server.c with its handler, the services, the clients; their instance |
| `SignalServer_proof` | theorems about them |
| `ThreadServer` | multithreaded_server.c and its clients |
| `NewsWire` | abstract: two speakers read out what comes over a wire, in turn |
| `SaiNews` | the sai kartik newsroom; its readers refine `NewsWire` |
| `SaiNews_proof` | the refinement as a theorem |
| `PacketDump` | the dumps of the three packet printers |
| `EchoDump_proof` | theorems about `ThreadServer` and `PacketDump` |

A process is a program counter (`pc1`, `pc[n]`, `rpc`, `epc`, `dpc`, `spc[p]`,
`ipc`, `tpc[c]`, ...); an action runs from one point at which another process or
thread can notice something to the next. Blocking calls are guards. Threads that
wait by spinning on a variable are modelled as waiting for it, as in a build
without optimisation. A client program that finds no server fails at once and
may be started again: it is modelled as if it had not come. Operators whose
comment says "seeded bug" are not part of the models: each is one definition with
a plausible mistake in it, kept to show that the property named beside it can fail.

### Semaphore ping-pong

`sem[0]`, `sem[1]` are the semaphores; a statement of either loop is an action.
`Start1` and `Start2` are a user running the program; the shared memory and the
semaphores are not reset between sessions, because in the code they are not.
`SetVal0` and `SetVal1` are the two `semctl(SETVAL)` calls. In `SemRestart`,
`Kill1` and `Kill2` end a program between any two statements and leave shared
state as it is: `semop` is called without `SEM_UNDO`. `clean` is a history
variable. It says that P1 has set the semaphores since the last kill while P2 was
down or had not passed its first wait. What `SemRestart` shows is that the
handshake can be broken by a kill, that it never holds more than two turns, and
that the order "stop P2, start P1, start P2" always restores it.

### Newsroom, readers

`pending[n]` is the one bit the kernel keeps for `SIGUSR1`; `Deliver` is the
handler with its effect on a blocked call: `msgrcv` and `msgsnd` end with `EINTR`
even under `SA_RESTART`, which `signal` sets, while `recv` goes on. N1 then goes
back to the top of its loop, N2 calls `msgrcv` again (so N2 takes one more report
while its flag says pause), and a `msgsnd` that was blocked loses its report.
`Pgrep` resolves the partner by name; with no such process the pid is `atoi` of
an uninitialised buffer: `"self"` stands for 0, which signals the sender's own
group, `"none"` for a number nobody has. `mishap` records that toggles did not
pair: the partner was not there or had no handler yet, its own broadcast was on,
or a signal was still pending. A build without optimisation is assumed, in which
`while(livetelecast==1);` reads the variable each time (`N1.c:33`).

### Newsroom, desk

The unit is a cell of two bytes. A report is `BodyCells + 1` cells: the first two
bytes, which the editor reads on their own, and the 198 others. The writer's
`read` of 198 bytes and the editor's reads of 2 and 198 bytes take what the FIFO
holds, up to that many. Where two readers have raced, a read may in the code end
within a cell; from then on the framing properties claim nothing. `raced` is the
history variable for it: the editor read before the writer had the body it was
promised (`owed`), or the writer was ended before its write.

A report is 200 bytes on its way, but its text is a C string: `TextCells[id]` is the
number of cells up to its end, and `TextOf` is what `strcat` takes of the cells that
were read. `FullS` has 200 bytes (`MessageCells`) and is never initialised. At first it
holds up to `MaxJunk` cells of something (`Junk`) or nothing; later either nothing or
what the last report left, to which `EditorBody` appends. What then needs more
than 200 bytes runs over the end of the array: `fullS` goes on growing, and the
editor may be `"dead"` after it. `strncpy` copies 199 bytes into the message
(`Message`), so what an earlier report left can push the new text out of it, in part
or as a whole. `PublishesWholeReports` says what holds nevertheless: a message is
made of whole texts, cut at most where it is full, and one that is not full ends
with the new report. `EveryReportHandled` asks for room in `FullS`. An empty line is
not among the reports (`TextCellsAssumption`): its text is in the first cell, with
nothing to read behind it.

`EditorAcceptFails` is `accept` with a negative length in `ucli_len`, which nobody
sets: the editor exits.

### Super-server

`owner[p]` says who listens on a port; `Connect` puts a client in that queue.
`ServerClose` is S1's `close(sfd)`, which resets whoever still waits. `Sniff` is
one SYN in T's loop, `tstream` the TCP connection from T to ISS, `slots` the
aligned arrays `port`, `PFD` and `usfds` of ISS, `todo` the entries whose
`revents` is still to be looked at in the current round. After `IssConnect` the
loop reaches the entry it has just added, whose `revents` `poll` never wrote: its
value is a choice (`seen`), and `garbled` remembers an unlucky one. `IssExit` is
every `exit` and the death by `SIGPIPE`; the kernel then closes its sockets.

### Ball game

`backlog[t]` is the queue at the referee's port of team `t`; `RefPoll` fixes the
ports to be looked at (`todo`), `RefAccept` .. `RefHandOver` are one pass of the
loop's body. `link[t]` is the team's connection to its Unix socket: the referee
opens both sockets for each player and closes both after one hand-over, so the
other team's connection ends `"dropped"` and its `recv_fd` returns -1 (`R.c:246`).
The length passed to `accept` is not initialised; `RefAcceptFails` is the case in
which it is negative. In a team, `TeamCreate` and `TeamJoin` bracket a round;
`ThreadRecv`, `ThreadTest1`, `ThreadTest2`, `ThreadSet`, `ThreadSay` are the
statements between which the two threads interleave. `Heard` is what `atoi` may
make of a buffer without a terminator.

### Lottery

Neither program seeds `rand`, so both draw one sequence and a coupon is the
number of its draw. A packet is the row of numbers or letters in it. `dead[c]`
remembers a first send to a client that has ended:
the second raises `SIGPIPE` in the distributor. `raw[c]` and `hears[c]` are a
client's raw socket; a packet sent before the socket is open is not heard
(`late`). `addr` is the judge's array of that name: `getpeername` fails for the first
client's connection if it was reset (`Reset`: its client ended with coupons unread,
or was sent one after its end) and if no descriptor came; the error is printed and
both packets go where the uninitialised array says. Bytes that name the host,
zeros among them, still reach every raw socket; with any others nobody hears
(`"nowhere"`). `JudgeCollect` keeps the previous answer in `packet` when the next
client's connection has ended.

### Examination hall

`stream[c]` is what a candidate has sent and nobody has read: `MainTicket` reads
100 bytes, so an answer that is there already is read with the ticket, all but
its end (`Rest`). The ticket comes without a terminator, and `atoi` reads on in what
the buffer held before, so `ticket[c]` may be another number even if the ticket was
read alone. `Answers[key].push_back(str)` on the map all threads share is two steps:
`ThreadPush`, where the lookup begins, and `ThreadStore`, where the operation ends.
`Overlap` says which operations must not overlap: two on one ticket's vector, or
any two of which one inserts the first answer of its ticket, since the tree of the
map is then changed. `raced` remembers that it happened. From then on the map may have
lost any answers, which nothing in the program reads back, so `Answers` is no
longer kept; an operation may still end, or not return (`"stuck"`), or end the
controller. `CandOpen` and `ObsOpen` are the two ends of the FIFO, each of which
waits for the other in `open`.

### Signal-driven server

`pending` is the one bit of `SIGUSR1`; the handler is `HandlerEnter` and
`HandlerReceive`, during which main does not run. `LastTen[N] = clientaddr` is a read
of `N` and a copy (`MainIndex`, `MainStore`), `N = (N+1) % 10` a read and a write
(`MainRead`, `MainWrite`), and the handler can run before each of the four. A handler
that runs after the first of them and before the last sets `raced`. The copy itself
is one step: family, port and address are the first 8 of the 16 bytes, which
one instruction stores; the rest is padding.
`heirs[s]` are the services that inherited the server's listening socket of `s`
across `fork` and `exec`; `firstQ[s]` waits there, `ownQ[s]` at the socket the
service itself has bound to the same port under `SO_REUSEPORT`. `merged` and
`left` count the messages no signal belongs to.

### Threaded echo server

`fdtab` maps descriptor numbers to connections; `accept` takes the lowest that is
free, as the kernel does. `conn[c]` follows a connection through the client's
close and the two stages of sending to a closed peer (reset, then `SIGPIPE`, which
ends all threads). `MainCreateFails` is `pthread_create` at the limit of threads:
the connection is left open without a thread (`orphan`), and the last thread's id
is detached again, which is undefined once that thread has ended.

### Newsroom (sai kartik)

A report is what a reporter sends and is named after it; `unread` says whether
none, the whole or all but two bytes of it are still to be read. The editor's
thread is created and joined for each reporter, so it is part of the editor:
`EditorTest` reads two bytes, `EditorDoc` passes the connection to a document
writer, `EditorNews` sends the rest to the news reader. `NewsWire` states what the
listeners are promised; the refinement maps `sent`, `readout` and "the editor has
not ended", and `sent` and `readout` are history variables. The document
writer never looks at what `recv` returned and writes its buffer for ever:
`MaxBlocks` bounds that, `MaxRepeats` the same in the news reader.

### Packet printers

A byte is its offset in the buffer. `DumpsOf` gives the three calls of
`PrintData` for a packet; `PrintByte` is one pass of its loop with the row that
ends, the row that begins, the byte in hex, and the end of the last row.
`sizeof udph` is the size of a pointer (8), by luck that of the header.

## Runs

| Run | Bounds | Shows |
|---|---|---|
| `sem_pingpong` | `Rounds = 5` as in the code; the shared memory holds any of 0, 5, 9 first | one turn, agreement of rounds, data and output, refinement of `TurnCounter`, end of a session |
| `sem_restart` | `Rounds = 3`: a first, a middle and a last round | at most two turns; recovery, and that a recovered session ends |
| `news_readers` | queue of 2 messages, 3 reports, each plain or live | exactly once, order, the flag's meaning, stalls only behind a full queue, liveness |
| `news_desk` | 2 reporter ports, 3 reports of 4 cells with texts of 2, 2 and 4, at most 1 cell of junk, a FIFO of 7 cells, 1 restart of the writer | framing in the FIFO and in the messages, stalls only for the three known reasons, liveness |
| `super_server` | 2 services, 3 clients, two of them of one service | right server, one place, no port adopted twice, blocked only by an unwritten `revents`, liveness |
| `ball_game` | team T with two players who type one guess each, one player of team C | decisions last, winners announced, players reach their teams |
| `lottery` | 3 clients as in the code, 2 coupons each (5 in the code) | fair judgement, verdicts |
| `exam_hall` | 2 candidates, 2 answers each (3 in the code) | answers kept, reports and verdicts come |
| `signal_server` | 2 services, 4 clients, a ring of 2 (10 in the code), at most one message left in the queue by an earlier run | the queue's account, the ring, who is answered |
| `thread_server` | 3 clients, 2 descriptors, 2 threads, 3 messages in all | ownership of descriptors, attendance |
| `sai_news` | 3 reporters, one with a document, 1 document writer, 1 repetition, 2 blocks | refinement of `NewsWire`, every report comes out |
| `packet_dump` | packets of 20, 43, 60, 66 bytes, header lengths of 0, 5, 8 words, 2 packets | rows and columns, what of a packet is dumped |

Why these bounds are enough: two reporter ports or two services are needed for
head-of-line blocking and for misaligned arrays, and a third adds no new
interaction; three reports give one reader two of them, so that order matters
and a broadcast can meet a waiting report; a queue of two fills up with one
message for each reader; a restart more than the first meets the same
states. Two short texts and a full one give `FullS` what fits exactly, what fits behind
junk only in part, and what no longer fits; a FIFO of seven cells holds a second part and
a report behind it. A port's listening queue in `NewsDesk` holds one reporter at a time.
One team with both threads shows every interleaving on `first` and `second`,
which no other team shares; team C's player is there to compete for the referee.
Two coupons give a first and a later one. Two answers give a thread a first and
a last pass, two candidates a thread each, on one vector or on two. A ring of two wraps with
the third of up to four addresses; two services are the fewest of which one
can inherit the other's socket. Two descriptors and two threads for three clients
reach both limits, and every number is reused. Three reporters give both
threads of the news reader a second turn or a text after a document. Among
the dumps' lengths are a negative one, 0, 1, less than a row, a multiple of 16 and
a multiple with a rest; two packets let the second find what the first has left.

Deadlock is checked in the semaphore runs. In the others the system may
stop: users do not start a program, type nothing or end it, a program exits, a
bound is reached, or the queue is full. There `StallsOnlyWhenFull`,
`StallsOnlyAsKnown`, `BlockedOnlyWhenGarbled` and the liveness properties take the
place of the deadlock check: they say which stops there are.

### Fairness

Weak fairness of each running process: the scheduler runs what can run, and the
kernel delivers pending signals. What users do (starting a program, killing it,
typing, sending a report) has none. In `SaiNews` a reporter sends by itself, and
has it. System V semaphores wake waiters in order and a
waiting process is the only one that takes from its semaphore, so weak fairness
is enough. Threads are scheduled as processes are, and a signal that is
pending is delivered. `EveryReportHandled`, `EveryReportShown`,
`EveryConnectionAnswered`, `EveryPlayerReachesTeam`, `VerdictComes`,
`ReportAndVerdictCome`, `ClientsAnswered`, `Attended` and `EveryReportComesOut` are
conditional on what the code cannot do without;
the conditions are written in the properties.

## Proofs

The theorems hold for every value of the constants that the assumptions in the
modules admit. Besides the ranges of numbers these are two kinds: each client calls
one of the services there are (`PortOf`, `ServiceOf`, `TeamOf`), and the values that
mean "nobody" and "free" name no client, player or port (`ClientsAssumption`,
`PlayersAssumption`, `NamesAssumption`), which in the code are -1, 0 or an
absent entry. None bounds the number of clients, reports, rounds or guesses, or
the size of a queue, a pipe or a ring. Each section below names the inductive
invariant; the module proves that the initial states have it, that each action
keeps it, and what follows from it.

Three proof modules serve two components each: `SemExam_proof`, `Games_proof` and
`EchoDump_proof` extend both. For that the second one's `Init`, `Next`, `Spec` and `vars`
have names of their own (`ExamSpec`, `LotterySpec`, `DumpSpec`, ...); the two have no
variable in common, and no theorem speaks of both.

### Semaphore ping-pong (`SemExam_proof`)

For every `Rounds` in `Nat \ {0}` and every set `Leftovers` of numbers.

* `Inductive`: `IInv`, the types together with `Handshake`, is inductive.
  `OneTurn` alone is not: that P2's loop ends when P1's does needs
  `RoundsAgree` and `Sessions`, and what is printed needs `Values` and `Printed`.
  `Handshake` is the conjunction of them. `TypeCorrect`, `TurnIsUnique` and
  `HandshakeHolds` follow.
* `Refinement`: each step from a state of the invariant is a step of
  `TurnCounter` (the two print statements) or leaves `out` unchanged.
* `RInductive`, `TurnsBounded`, `Recovers`: with kills, each step moves a turn or
  destroys it; P1's `SETVAL` calls make room for the turn P1 is about to bring
  in. The invariant bounds the turns in each place, and adds the handshake under
  `clean`.

### Newsroom, readers (`NewsReaders_proof`)

* `FlagMeansLive`: without a mishap, a reader's flag says pause only while its
  partner is telecasting. The property is not inductive. `SignalInv` adds that a
  pid a reader uses belongs to a running partner (`PidsLive`), that a reader
  whose handler has not been installed has no flag and no signal (`Untouched`),
  and that the two readers' broadcasts exclude each other (`OneBroadcast`). The
  lemmas `FirstSignal` and `SecondSignal` are the two ends of a broadcast.
* `ReportsExactlyOnce`, `ShownInEditorsOrder`: `PipeInv` follows a report from the
  editor to the screen. The number of a report says which reader it is for
  (`Numbered`), messages of a type are in the queue in the order of their numbers
  and behind what their reader has in hand, which is behind what was shown
  (`InOrder`), and each report is in one of the four places (`Accounted`). That
  one number is not in two places of a queue follows from the order.
* `StallsAreFullQueues`: in a state where no reader can go on, either a queue's
  limit stops a `msgsnd`, or, by `PausedOnlyWhileLive` of both, neither is paused.

### Newsroom, desk (`NewsDesk_proof`)

For every length of a body and every pipe with room for a report.

* `DeskInvariant`: the pipe is at every moment a row of reports, each with its
  cells in order and complete at the end (`Stream`); it can begin with the
  second part of a report. This holds raced or not, for the desk writes a report
  with one call. Only as long as nothing has raced the invariant adds `InStep`: the
  pipe begins with a second part just when the editor is between its two reads or
  has left it to the writer. `Connected` ties the descriptor that was handed over
  to the programs that hold it.
* `WholeReportsPublished`, `WholeDocumentsFiled`: what the editor appends to
  `FullS` is then the one whole text that begins in `head`, and what the writer
  appends to the file the one whole second part the pipe begins with. So `FullS` is at
  every moment a row of whole texts behind what it held by chance (`Texts`), and the
  first `MessageCells` of it are whole texts but for the last; the file is a number of
  bodies, one behind the other. For any lengths of the texts.
* `SecondReadNeverWaits`: the editor has taken a first part, so the pipe begins
  with the second.
* `StallsAreKnown`: where all three programs are blocked with work left, the pipe is
  not empty: the desk has room in an empty pipe for a report, and sockets `poll` has
  found busy (`DeskBusy`). So the editor, unless it is dead, waits in `accept`, and
  by `Connected` it listens with no living writer queued or connected: the
  writer is spent. Nothing here needs `InStep`.

### Super-server (`SuperServer_proof`)

* `ServiceInvariant`: the queue of a port and the connections passed to its
  server hold its own callers, and the client in ISS's hands called the port at
  the index the loop has reached. That the index is one of the arrays' needs that
  `Index`, the least entry left, is an entry that is left: well-founded
  induction on the numbers (`IndexInTodo`). Entries are only appended, so an
  index keeps its meaning while the loop runs. `TypeCorrect` and `OwnServer` are
  its consequences.
* `PlaceInvariant`: adds who holds a port (`PortsHeld`), that a reported port is
  stored by T and held by ISS once (`ReportedOnce`), that empty hands hold
  nothing, that no queue repeats a client, and which one place a client is in
  (`WaitsOnce`). `ClientsInOnePlace` and `PortsAdoptedOnce` follow: the first counts
  places, the second needs that the arrays, the hand and the stream have no port
  in common.
* `BlocksOnlyWhenGarbled`: what `poll` has reported stays there until ISS accepts
  it (`SeenWaits`), because only ISS takes from a queue it holds.

### Ball game (`Games_proof`)

* `GameInvariant`: a thread about to write `first` or `second` was created in a round
  that found it undecided (`WritesUndecided`), and no thread lives outside a
  round (`Joined`); what a round overwrites is therefore what this round wrote.
  A player that a result names is on the screen, or a thread is still to say it
  (`Announced`). `RefereeHolds` is why the referee finds a player when `poll` said so.
* `RoundsDecideOnce`, `WinnersAreAnnounced`: its consequences; the second is
  `Announced` in a state without threads.

### Signal-driven server (`SignalServer_proof`)

* `ServerInvariant`: a service is forked once (`ForkedOnce`), so the services
  about to signal are a set whose size changes by one with each of their steps;
  with it `QueueAccounted` is inductive. `RingKept` says that the ring read backwards
  from `Top` is the end of the log, and that main's copy of `N` is still `N` between the
  four steps, unless `raced`; its proof is the arithmetic of a ring, of
  whatever size (`NotingKeepsRing` and the lemmas on `%` before it).
* `QueueIsAccounted`, `RingIsLastNoted`, and `HandlerNeverWaits`: a running handler
  finds its message.

### Threaded echo server (`EchoDump_proof`)

* `OwnerInvariant`: a connection that was accepted is in the hands of main, of
  its thread or of nobody (`OneOwner`); the number its owner has stands for
  it (`RightNumber`), every number in use has such an owner, and no connection has two
  numbers (`Opened`). So `accept`, which takes the lowest free number (`LowestFree`),
  never takes one that a thread still uses.
* `DescriptorsAreOwned`: its consequence.

### Newsroom, sai kartik (`SaiNews_proof`)

* `WireInvariant`: one thread is between `sem_wait` and `sem_post` (`OneInside`), and
  it is the one `which` names, whose parity is that of what was read out
  (`InTurn`); the line holds what was sent and not yet taken (`LineIsRest`), the
  buffer what was taken last (`BufferIsLast`).
* `ImplementsWire`: from a state of the invariant, each step is a step of `NewsWire`
  or leaves what it speaks of unchanged.

### Lottery (`Games_proof`)

For any clients and every number of coupons above one (the code asks for 5).

* `LotteryInvariant`: `JudgedFairly` relates the judge's tally to answers and coupons,
  and holds only because these no longer change when they are tallied. The
  invariant adds that whoever has the first coupon got it as its first
  (`CouponsAreNew`), that the line is complete before the judge begins (`Lined`),
  that the first packet a raw socket hears, if it hears any, is the winning coupon,
  sent after all coupons are sold (`HeardFirst`), that an answer is true and given once
  (`Answered`), and that the judge has passed only those who have answered or
  never will (`Collected`); the last is also why a client without an answer has its
  predecessor's.
* `JudgementIsFair`: one of its conjuncts, for any number of coupons per client.

### Examination hall (`SemExam_proof`)

For any candidates and any number of questions but none.

* `ExamInvariant`: the answers of a candidate are in three places, the map, the hands
  of its thread and the stream, and the loop variable says how many are in the
  first (`InStep`). It is so from the moment the thread starts because what is sent
  before begins with the ticket (`Sent`) and each candidate is admitted once
  (`Admitted`). If an answer was read with the ticket, the rest of it is on its way
  to the map, or there (`Torn`). Other threads store into the same map, be it
  the same vector: `KeptBeside` and `ExamineeKept` say that this changes nothing,
  unless two operations overlap (`Overlap`), from when on nothing is claimed.
* `AnswersAreKept`: its consequence for a thread that has left the loop.

### Packet printers (`EchoDump_proof`)

For packets of any sizes and any header lengths of four bits.

* `DumpInvariant`: after any number of passes the page is the one `PageOf` describes:
  rows of sixteen bytes, the last one begun, and the text beside all rows but
  that. `PassPrintsByte` proves it of one pass, whose branches are decided by
  remainders and quotients of the loop variable (`RowArithmetic`). `ShownSoFar` says
  which bytes the calls made so far have shown, which is what makes each pass show
  a new one.
* `EveryPageIsComplete`: a call at its end has the page `RowsOf` lays out at once,
  for any length, negative ones included (`PageOfAll`). `EveryPacketIsCovered`: when the
  third call has ended, what is shown is the headers and what is behind the gap.

### Only model-checked

All invariants and action properties of the runs, and both refinements, are
proved. What is left to the model checker:

* The liveness properties (`SessionEnds`, `RecoveredSessionEnds`, `EveryReportShown`,
  `EveryReportHandled`, `EveryConnectionAnswered`, `EveryPlayerReachesTeam`,
  `VerdictComes`, `ReportAndVerdictCome`, `ClientsAnswered`, `Attended`,
  `EveryReportComesOut`): fairness and `ENABLED` are out of this prover's reach.

## What the models show about the code

Each of these is named in the property that would otherwise be false.

* A team's threads can overwrite each other's `first` within a round, and a thread
  can announce the other one's player (`C.c:92-117`); across rounds nothing changes.
* A client of the lottery that opens its raw socket after the announcement waits
  for ever, and the judge and all others with it (`client.c:191`). The client that is
  served first wins always: both programs draw the same numbers.
* Overlapping operations on `Answers` (`EC.cpp:45`), of threads with one ticket or of
  two that insert different ones, lose answers, keep a thread for ever or end the
  controller; an answer read with the ticket is cut off (`EC.cpp:161`).
* What an earlier report left in `FullS` is sent again before the next text, until
  it fills the 200 bytes; then new reports are in no message (`editor.c:203-208`).
* If the first client's connection was reset when the judge announces, the coupon
  may reach nobody, and judge and clients wait for ever (`judge.c:251`).
* A handler that runs within main's note, from the read of `N` in `LastTen[N]` to
  the write of `N`, breaks the ring (`server.c:75-76`).
* Signals that coalesce leave one message each in the queue for good (`server.c:22`),
  and a client that is given to a socket only another service still holds is
  never answered (`server.c:90`).
* `multithreaded_server.c` leaves a connection open without a thread when
  `pthread_create` fails, ends when the descriptors run out, and can be ended by a
  client that leaves while two echoes are on their way (line 24).
* A document nobody writes holds up all reporters (`q1_editor.c:90`).
* "IP Header" is dumped from the start of the buffer, Ethernet header or not, while
  the payload is taken from behind all headers: 14 bytes are not dumped
  (`filename.cpp:187-196`).

## Not modelled, and limits

* `Mid Th/q3`: an earlier state of q3 New with one FIFO per reporter. Its readers
  differ from the modelled ones in details.
* `Mid Th/q3 shubh`: a third design of the newsroom, with reporters on `popen` pipes and
  UDP to the readers; its hazards, the pairing of the signals and the hand-over of
  a descriptor, are those of the two modelled newsrooms.
* `Mid Th/q4`: `O.c` never calls `poll`, so which queues it serves is decided once by
  `revents` nobody wrote; `S.c` tests `fd&POLLIN` for `revents` and accepts on a socket that
  does not listen. There is no promise to state.
* `UBSD/sharefd`: five bytes read by one program and five by the next, in one order.
  `pthread/P.c`, `RawSocket/Basic`, `OnlyIP`: no shared state. `murt.txt`: not a program;
  no program calls its `checksum`.
* The connectionless branches of `q2/server.c` (106-122): they use names that are
  declared nowhere.
* Text: warnings and "Connected to" lines, questions, greetings, the fields of
  packet headers printed by name.
* The resource limits that the code lacks checks for: 100 ports in T and ISS, the
  descriptor table (N1 leaks a stream per telecast, ISS a descriptor per
  client); only `ThreadServer` has a descriptor table. Writes behind an array by
  one byte (`R.c:95`, `editor.c:164`, `multithreaded_server.c:20`). What `FullS`
  overwrites beyond its end (`editor.c:204-205`) is reduced to: nothing that matters,
  or the editor's end.
* One process of each program runs: `pgrep` returns the first of several.
* Failures of calls that allocate kernel objects at start-up, and messages of one
  fixed size that arrive in parts.
* The announcements of new services over the raw socket are modelled in
  `SuperServer` (`heard`), but no property is about them.
* The editor's `msgsnd` never blocks in `NewsDesk`; the queue's limit is in
  `NewsReaders`.
* In `SuperServer` and in the models from `BallGame` to `SaiNews` a program that has
  ended is not started again.

## Plan

What would come next: the shubh newsroom, and a composition of `NewsDesk` and
`NewsReaders` at the editor's `msgsnd`.
