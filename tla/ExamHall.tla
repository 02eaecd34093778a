------------------------------ MODULE ExamHall ------------------------------
(***************************************************************************)
(* src/NITWtest: the exam controller EC.cpp, the candidates A.cpp and the    *)
(* observer EO.cpp.                                                          *)
(*                                                                          *)
(* The controller's main thread accepts candidates, gives each the paper,    *)
(* reads its hall ticket and starts a thread that collects three answers in  *)
(* the shared map Answers; between candidates it reads the observer's        *)
(* reports into the shared set Cheater.  Neither is locked.  As the programs *)
(* stand, every candidate's ticket and every report is "8080".  A candidate  *)
(* and the observer meet at a FIFO: each one's open waits for the other's.   *)
(***************************************************************************)
EXTENDS Naturals, Sequences

CONSTANTS
    Candidates,
    NoOfQues      \* noOfQues: 3

ASSUME NoOfQuesAssumption == NoOfQues \in Nat \ {0}

VARIABLES
    \* the candidates
    cpc,          \* next statement, or killed by its user
    typed,        \* countOfques
    \* the connections
    backlog,      \* candidates that wait for accept
    paper,        \* the questions have been sent
    stream,       \* what the candidate has sent: the ticket and the answers
    rst,          \* the connection was reset
    told,         \* what it hears in the end: none, success, eof
    \* the FIFO and the observer
    opc, count,
    udp,          \* a report waits in the controller's socket
    \* the controller: main
    epc, todo,    \* next statement; entries of PFD still to be looked at
    cur,
    Cheater,      \* tickets reported
    \* the controller: a thread per candidate
    tpc, ticket, got, item,
    Answers,      \* the answers in the map, for each ticket, unless raced
    raced         \* two operations on the map overlapped: it may be corrupt

candvars == <<cpc, typed>>
connvars == <<backlog, paper, stream, rst, told>>
obsvars == <<opc, count, udp>>
mainvars == <<epc, todo, cur, Cheater>>
threadvars == <<tpc, ticket, got, item, Answers, raced>>
examvars == <<candvars, connvars, obsvars, mainvars, threadvars>>

Nobody == "nobody"
Tickets == {"8080", "other"}

\* What a read may return besides an answer's number.
Ticket == 0
Rest == NoOfQues + 1           \* the end of an answer
Stale == NoOfQues + 2          \* nothing: the buffer is as it was

NoAnswers == [t \in Tickets |-> <<>>]

ExamInit ==
    /\ cpc = [c \in Candidates |-> "idle"]
    /\ typed = [c \in Candidates |-> 0]
    /\ backlog = <<>> /\ paper = [c \in Candidates |-> FALSE]
    /\ stream = [c \in Candidates |-> <<>>] /\ rst = [c \in Candidates |-> FALSE]
    /\ told = [c \in Candidates |-> "none"]
    /\ opc = "down" /\ count = 0 /\ udp = FALSE
    /\ epc = "down" /\ todo = {} /\ cur = Nobody /\ Cheater = {}
    /\ tpc = [c \in Candidates |-> "none"] /\ ticket = [c \in Candidates |-> "other"]
    /\ got = [c \in Candidates |-> 0] /\ item = [c \in Candidates |-> 0]
    /\ Answers = NoAnswers
    /\ raced = FALSE

Up == epc \notin {"down", "ended"}

-----------------------------------------------------------------------------
(* A candidate *)

Killed(c) == cpc[c] = "killed"
Goto(c, pc) == cpc' = [cpc EXCEPT ![c] = pc]

CandConnect(c) ==
    /\ cpc[c] = "idle" /\ Up
    /\ backlog' = Append(backlog, c)
    /\ Goto(c, "paper")
    /\ UNCHANGED <<typed, paper, stream, rst, told, obsvars, mainvars, threadvars>>

\* seeded bug: the ticket is not sent
CandPaperNoTicket(c) ==
    /\ cpc[c] = "paper" /\ paper[c]
    /\ Goto(c, "open")
    /\ UNCHANGED <<typed, connvars, obsvars, mainvars, threadvars>>

CandPaper(c) ==
    /\ cpc[c] = "paper" /\ paper[c]
    /\ Goto(c, "ticket")
    /\ UNCHANGED <<typed, connvars, obsvars, mainvars, threadvars>>

CandTicket(c) ==
    /\ cpc[c] = "ticket"
    /\ stream' = [stream EXCEPT ![c] = Append(@, Ticket)]
    /\ Goto(c, "open")
    /\ UNCHANGED <<typed, backlog, paper, rst, told, obsvars, mainvars, threadvars>>

\* The other end of the FIFO must be open, or waiting in open itself.
CandOpen(c) ==
    /\ cpc[c] = "open" /\ opc \in {"open", "sniff"}
    /\ Goto(c, "answer")
    /\ UNCHANGED <<typed, connvars, obsvars, mainvars, threadvars>>

CandAnswer(c) ==                \* its user types an answer
    /\ cpc[c] = "answer" /\ Up
    /\ typed' = [typed EXCEPT ![c] = @ + 1]
    /\ stream' = [stream EXCEPT ![c] = Append(@, typed'[c])]
    /\ Goto(c, IF typed'[c] = NoOfQues THEN "verdict" ELSE "answer")
    /\ UNCHANGED <<backlog, paper, rst, told, obsvars, mainvars, threadvars>>

CandVerdict(c) ==
    /\ cpc[c] = "verdict" /\ told[c] # "none"
    /\ Goto(c, "ended")
    /\ UNCHANGED <<typed, connvars, obsvars, mainvars, threadvars>>

\* Without a controller recv returns 0 and send fails: the candidate ends.
CandLost(c) ==
    /\ epc = "ended" /\ cpc[c] \in {"paper", "ticket", "answer", "verdict"}
    /\ Goto(c, "ended")
    /\ UNCHANGED <<typed, connvars, obsvars, mainvars, threadvars>>

\* Data it has not read, or is sent later, is answered with a reset.
CandKill(c) ==
    /\ cpc[c] \notin {"idle", "ended", "killed"} /\ told[c] = "none"
    /\ rst' = [rst EXCEPT ![c] = (cpc[c] = "paper")]
    /\ typed' = [typed EXCEPT ![c] = 0]
    /\ Goto(c, "killed")
    /\ UNCHANGED <<backlog, paper, stream, told, obsvars, mainvars, threadvars>>

CandStep(c) ==
    \/ CandPaper(c) \/ CandTicket(c) \/ CandOpen(c)
    \/ CandVerdict(c) \/ CandLost(c)

-----------------------------------------------------------------------------
(* The observer *)

Reading == {c \in Candidates : cpc[c] \in {"open", "answer", "verdict"}}

ObsStart ==
    /\ opc = "down" /\ opc' = "open"
    /\ UNCHANGED <<candvars, connvars, count, udp, mainvars, threadvars>>

ObsOpen ==
    /\ opc = "open" /\ Reading # {}
    /\ opc' = "sniff"
    /\ UNCHANGED <<candvars, connvars, count, udp, mainvars, threadvars>>

\* The first two packets are warnings, written to the FIFO for a candidate to
\* print (left out), which end the observer if nobody has the FIFO open;
\* the third is reported, and its loop is left.
ObsPacket ==
    /\ opc = "sniff"
    /\ count' = count + 1
    /\ \/ /\ count < 2 /\ Reading # {}
          /\ UNCHANGED <<opc, udp>>
       \/ /\ count < 2 /\ Reading = {}
          /\ opc' = "ended"
          /\ UNCHANGED udp
       \/ /\ count = 2
          /\ udp' = Up
          /\ opc' = "ended"
    /\ UNCHANGED <<candvars, connvars, mainvars, threadvars>>

-----------------------------------------------------------------------------
(* The controller: main *)

MainStart ==
    /\ epc = "down" /\ epc' = "poll"
    /\ UNCHANGED <<candvars, connvars, obsvars, todo, cur, Cheater, threadvars>>

MainPoll ==
    LET ready == (IF backlog # <<>> THEN {"port"} ELSE {}) \union (IF udp THEN {"udp"} ELSE {})
    IN
    /\ epc = "poll" /\ ready # {}
    /\ todo' = ready
    /\ epc' = "look"
    /\ UNCHANGED <<candvars, connvars, obsvars, cur, Cheater, threadvars>>

MainAccept ==                   \* accept, and send the questions
    LET c == Head(backlog) IN
    /\ epc = "look" /\ "port" \in todo
    /\ backlog' = Tail(backlog)
    /\ paper' = [paper EXCEPT ![c] = TRUE]
    /\ cur' = c
    /\ todo' = todo \ {"port"}
    /\ epc' = "ticket"
    /\ UNCHANGED <<candvars, stream, rst, told, obsvars, Cheater, threadvars>>

\* recv asks for 100 bytes: an answer that is there already is read with the
\* ticket but for its end.  Nothing terminates the four digits of the ticket:
\* those of that answer, or what an earlier read left in the buffer, may count
\* as the ticket's; from a candidate that has ended, all of it is left over.
MainTicket ==
    LET s == stream[cur] IN
    /\ epc = "ticket" /\ (s # <<>> \/ Killed(cur))
    /\ \E t \in Tickets : ticket' = [ticket EXCEPT ![cur] = t]
    /\ stream' = [stream EXCEPT ![cur] =
                    IF Len(s) <= 1 THEN <<>> ELSE <<Rest>> \o SubSeq(s, 3, Len(s))]
    /\ tpc' = [tpc EXCEPT ![cur] = "recv"]          \* pthread_create
    /\ cur' = Nobody
    /\ epc' = IF todo = {} THEN "poll" ELSE "look"
    /\ UNCHANGED <<candvars, backlog, paper, rst, told, obsvars, todo, Cheater,
                   got, item, Answers, raced>>

MainReport ==
    /\ epc = "look" /\ todo = {"udp"}
    /\ udp' = FALSE
    /\ Cheater' = Cheater \union {"8080"}
    /\ todo' = {}
    /\ epc' = "poll"
    /\ UNCHANGED <<candvars, connvars, opc, count, cur, threadvars>>

MainStep == MainPoll \/ MainAccept \/ MainTicket \/ MainReport

-----------------------------------------------------------------------------
(* The controller: the thread of a candidate *)

ThreadAt(c, pc) == Up /\ tpc[c] = pc

\* From a candidate that has ended, the answer is what the buffer held.
ThreadRecv(c) ==
    LET s == stream[c] IN
    /\ ThreadAt(c, "recv") /\ (s # <<>> \/ Killed(c))
    /\ item' = [item EXCEPT ![c] = IF s = <<>> THEN Stale ELSE Head(s)]
    /\ stream' = [stream EXCEPT ![c] = IF s = <<>> THEN s ELSE Tail(s)]
    /\ tpc' = [tpc EXCEPT ![c] = "push"]
    /\ UNCHANGED <<candvars, backlog, paper, rst, told, obsvars, mainvars, ticket,
                   got, Answers, raced>>

ThreadPush(c) ==
    /\ ThreadAt(c, "push")
    /\ tpc' = [tpc EXCEPT ![c] = "store"]
    /\ UNCHANGED <<candvars, connvars, obsvars, mainvars, ticket, got, item, Answers, raced>>

\* seeded bug: the loop ends one answer early
LastQuesLessOne(c) == got[c] + 2 >= NoOfQues

LastQues(c) == got[c] + 1 = NoOfQues

\* Another thread is in the map: at the same vector, or one of the two puts
\* the first answer of its ticket, a new node, into the tree they share.
Overlap(c) ==
    \E d \in Candidates \ {c} :
        /\ tpc[d] = "store"
        /\ ticket[d] = ticket[c] \/ <<>> \in {Answers[ticket[c]], Answers[ticket[d]]}

\* Once two operations overlapped, the map may hold any of the answers or none,
\* of which the model keeps no record: nothing reads it but the next operation.
\* That may come back, or never find its way out of the tree, or crash.
ThreadStore(c) ==
    /\ ThreadAt(c, "store")
    /\ raced' = (raced \/ Overlap(c))
    /\ Answers' = IF raced' THEN NoAnswers
                  ELSE [Answers EXCEPT ![ticket[c]] = Append(@, <<c, item[c]>>)]
    /\ \/ /\ tpc' = [tpc EXCEPT ![c] = IF LastQues(c) THEN "check" ELSE "recv"]
          /\ UNCHANGED epc
       \/ /\ raced' /\ tpc' = [tpc EXCEPT ![c] = "stuck"]
          /\ UNCHANGED epc
       \/ /\ raced' /\ epc' = "ended"
          /\ UNCHANGED tpc
    /\ got' = [got EXCEPT ![c] = @ + 1]
    /\ item' = [item EXCEPT ![c] = 0]
    /\ UNCHANGED <<candvars, connvars, obsvars, todo, cur, Cheater, ticket>>

\* send on a connection that was reset ends the whole program with SIGPIPE.
ThreadCheck(c) ==
    /\ ThreadAt(c, "check")
    /\ tpc' = [tpc EXCEPT ![c] = "done"]
    /\ IF ticket[c] \in Cheater
       THEN /\ told' = [told EXCEPT ![c] = "eof"]
            /\ UNCHANGED epc
       ELSE /\ told' = [told EXCEPT ![c] = "success"]
            /\ epc' = IF rst[c] THEN "ended" ELSE epc
    /\ UNCHANGED <<candvars, backlog, paper, stream, rst, obsvars, todo, cur,
                   Cheater, ticket, got, item, Answers, raced>>

ThreadStep(c) == ThreadRecv(c) \/ ThreadPush(c) \/ ThreadStore(c) \/ ThreadCheck(c)

-----------------------------------------------------------------------------
ExamNext ==
    \/ MainStart \/ MainStep \/ ObsStart \/ ObsOpen \/ ObsPacket
    \/ \E c \in Candidates :
        CandConnect(c) \/ CandAnswer(c) \/ CandKill(c) \/ CandStep(c) \/ ThreadStep(c)

ExamSpec == ExamInit /\ [][ExamNext]_examvars

ExamFairSpec ==
    /\ ExamSpec
    /\ WF_examvars(MainStep) /\ WF_examvars(ObsOpen)
    /\ \A c \in Candidates : WF_examvars(CandStep(c)) /\ WF_examvars(ThreadStep(c))

-----------------------------------------------------------------------------
\* All answers of a candidate are kept, in order, whatever other threads and
\* the main thread did meanwhile, as long as it was not ended, its ticket was
\* read alone (EC.cpp:161) and no two operations on the map overlapped, be it
\* for different tickets, of which one comes first (EC.cpp:45).
AnswersKept ==
    \A c \in Candidates :
        LET s == Answers[ticket[c]]
            own == {k \in DOMAIN s : s[k][1] = c}
        IN  tpc[c] = "done" /\ ~Killed(c) /\ ~raced /\ (\A k \in own : s[k][2] # Rest)
            => /\ {s[k][2] : k \in own} = 1..NoOfQues
               /\ \A j, k \in own : j < k => s[j][2] < s[k][2]

\* A report is read although the main thread blocks in recv for each ticket
\* (EC.cpp:161), because a candidate sends its ticket before it opens the FIFO,
\* where it may wait for ever.  And whoever has sent its answers comes to its
\* end, with a verdict or without, unless its thread is lost in a map that two
\* threads corrupted.
ReportAndVerdictCome ==
    /\ udp ~> ("8080" \in Cheater \/ epc = "ended")
    /\ \A c \in Candidates : cpc[c] = "verdict" ~> (cpc[c] = "ended" \/ Killed(c) \/ tpc[c] = "stuck")

=============================================================================
