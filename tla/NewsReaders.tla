----------------------------- MODULE NewsReaders -----------------------------
(***************************************************************************)
(* src/Mid Th/q3 New: the two news readers N1.c and N2.c, the live           *)
(* telecaster L.c, Screen.c and the message queue they and the editor share. *)
(*                                                                          *)
(* The editor sends reports alternately as type 1 (N1) and type 2 (N2).  A   *)
(* reader forwards a plain report as type 3, which Screen prints.  A report  *)
(* that starts with four digits asks for a live telecast: the reader         *)
(* connects to L, finds the other reader with pgrep and sends it SIGUSR1,    *)
(* shows L's text instead of the report, and sends SIGUSR1 again.  The       *)
(* handler of SIGUSR1 toggles livetelecast, and while it is 1 the main loop  *)
(* spins.  A signal is one pending bit: two that arrive before the handler   *)
(* runs are one.                                                             *)
(***************************************************************************)
EXTENDS MsgQueue, FiniteSets

CONSTANTS
    QueueCap,     \* messages the queue holds (msg_qbytes / 200)
    MaxReports    \* bound: reports the editor sends

ASSUME CapAssumption == QueueCap \in Nat \ {0}
ASSUME ReportsAssumption == MaxReports \in Nat

VARIABLES
    queue,        \* the message queue "news"
    which, sent,  \* the editor: whichnewsreader, reports sent so far
    pc,           \* the readers' next statement
    live,         \* the readers' livetelecast
    pending,      \* SIGUSR1 is pending for the reader
    item,         \* the report in the reader's hands
    target,       \* the process the reader's pid denotes
    conn,         \* the reader's connection to L
    telecaster,   \* L is listening
    shown,        \* the texts Screen has printed, with the report they answer
    lost,         \* reports whose msgsnd ended with EINTR
    mishap        \* history: the toggling signals did not pair up

readervars == <<pc, live, pending, item, target, conn>>
vars == <<queue, which, sent, readervars, telecaster, shown, lost, mishap>>

Readers == {1, 2}
Partner(n) == 3 - n

Ids == 1 .. MaxReports
NoItem == [type |-> 0, id |-> 0, text |-> "none"]

Running(n) == pc[n] \notin {"down", "boot"}

\* From the first SIGUSR1 to the second.
Broadcasting(n) == pc[n] \in {"setlive", "telecast", "showlive", "clear", "kill2"}

Full == Len(queue) >= QueueCap

Init ==
    /\ queue = <<>> /\ which = 1 /\ sent = 0
    /\ pc = [n \in Readers |-> "down"]
    /\ live = [n \in Readers |-> 0]
    /\ pending = [n \in Readers |-> FALSE]
    /\ item = [n \in Readers |-> NoItem]
    /\ target = [n \in Readers |-> "none"]
    /\ conn = [n \in Readers |-> "none"]
    /\ telecaster = FALSE
    /\ shown = <<>> /\ lost = {} /\ mishap = FALSE

Goto(n, label) == pc' = [pc EXCEPT ![n] = label]

-----------------------------------------------------------------------------
(* The editor, as far as the queue sees it *)

Editor ==
    /\ sent < MaxReports /\ ~Full
    /\ \E text \in {"plain", "live"} :
          queue' = Append(queue, [type |-> which, id |-> sent + 1, text |-> text])
    /\ sent' = sent + 1
    /\ which' = IF which = 1 THEN 2 ELSE 1
    /\ UNCHANGED <<readervars, telecaster, shown, lost, mishap>>

-----------------------------------------------------------------------------
(* A reader's life *)

Start(n) ==                     \* exec: pgrep finds it from here on
    /\ pc[n] = "down"
    /\ Goto(n, "boot")
    /\ live' = [live EXCEPT ![n] = 0]
    /\ pending' = [pending EXCEPT ![n] = FALSE]
    /\ item' = [item EXCEPT ![n] = NoItem]
    /\ target' = [target EXCEPT ![n] = "none"]
    /\ conn' = [conn EXCEPT ![n] = "none"]
    /\ UNCHANGED <<queue, which, sent, telecaster, shown, lost, mishap>>

Install(n) ==                   \* signal(SIGUSR1, handle1)
    /\ pc[n] = "boot"
    /\ Goto(n, "spin")
    /\ UNCHANGED <<queue, which, sent, live, pending, item, target, conn,
                   telecaster, shown, lost, mishap>>

Unpause(n) ==                   \* while(livetelecast==1);
    /\ pc[n] = "spin" /\ live[n] = 0
    /\ Goto(n, "recv")
    /\ UNCHANGED <<queue, which, sent, live, pending, item, target, conn,
                   telecaster, shown, lost, mishap>>

TakeAnyType(n) ==               \* seeded bug: msgtyp 0, the first message of any type
    /\ pc[n] = "recv" /\ queue # <<>>
    /\ item' = [item EXCEPT ![n] = Head(queue)]
    /\ queue' = Tail(queue)
    /\ Goto(n, IF Head(queue).text = "live" THEN "connect" ELSE "show")
    /\ UNCHANGED <<which, sent, live, pending, target, conn, telecaster,
                   shown, lost, mishap>>

TakeCopy(n) ==                  \* seeded bug: the message stays in the queue
    /\ pc[n] = "recv" /\ HasType(queue, n)
    /\ item' = [item EXCEPT ![n] = FirstOfType(queue, n)]
    /\ Goto(n, IF FirstOfType(queue, n).text = "live" THEN "connect" ELSE "show")
    /\ UNCHANGED <<queue, which, sent, live, pending, target, conn, telecaster,
                   shown, lost, mishap>>

Take(n) ==                      \* msgrcv(.., n, 0), then the test of four digits
    /\ pc[n] = "recv" /\ HasType(queue, n)
    /\ item' = [item EXCEPT ![n] = FirstOfType(queue, n)]
    /\ queue' = WithoutFirst(queue, n)
    /\ Goto(n, IF FirstOfType(queue, n).text = "live" THEN "connect" ELSE "show")
    /\ UNCHANGED <<which, sent, live, pending, target, conn, telecaster,
                   shown, lost, mishap>>

\* msgsnd of a type 3 message: blocks while the queue is full.
SendToScreen(n, text) ==
    /\ ~Full
    /\ queue' = Append(queue, [type |-> 3, id |-> item[n].id, text |-> text])
    /\ item' = [item EXCEPT ![n] = NoItem]

Show(n) ==
    /\ pc[n] = "show"
    /\ SendToScreen(n, "plain")
    /\ Goto(n, "spin")
    /\ UNCHANGED <<which, sent, live, pending, target, conn, telecaster,
                   shown, lost, mishap>>

Connect(n) ==                   \* the result of connect is not looked at
    /\ pc[n] = "connect"
    /\ conn' = [conn EXCEPT ![n] = IF telecaster THEN "open" ELSE "refused"]
    /\ Goto(n, "pgrep")
    /\ UNCHANGED <<queue, which, sent, live, pending, item, target,
                   telecaster, shown, lost, mishap>>

\* popen("pgrep ..").  With no such process fgets leaves the buffer as it was,
\* and atoi of that is any number: 0 signals the reader's own process group.
Pgrep(n) ==
    /\ pc[n] = "pgrep"
    /\ \E t \in IF pc[Partner(n)] # "down" THEN {"partner"} ELSE {"self", "none"} :
          target' = [target EXCEPT ![n] = t]
    /\ Goto(n, "kill1")
    /\ UNCHANGED <<queue, which, sent, live, pending, item, conn, telecaster,
                   shown, lost, mishap>>

\* kill(pid, SIGUSR1), after which the reader goes on at `label`.  Before its
\* handler is installed the signal ends the other reader.  A signal to the
\* own process group is handled before kill returns.
SendSignal(n, label) ==
    LET p == Partner(n) IN
    \/ /\ target[n] = "partner" /\ pc[p] # "boot"
       /\ pending' = [pending EXCEPT ![p] = TRUE]
       /\ Goto(n, label)
       /\ UNCHANGED <<live, target>>
    \/ /\ target[n] = "partner" /\ pc[p] = "boot"
       /\ pc' = [pc EXCEPT ![n] = label, ![p] = "down"]
       /\ target' = [target EXCEPT ![n] = "none"]
       /\ UNCHANGED <<live, pending>>
    \/ /\ target[n] = "self"
       /\ live' = [live EXCEPT ![n] = 1 - @]
       /\ Goto(n, label)
       /\ UNCHANGED <<pending, target>>
    \/ /\ target[n] = "none"
       /\ Goto(n, label)
       /\ UNCHANGED <<live, pending, target>>

Kill1(n) ==
    /\ pc[n] = "kill1"
    /\ SendSignal(n, "setlive")
    /\ mishap' = (\/ mishap \/ target[n] # "partner"
                  \/ pc[Partner(n)] = "boot" \/ Broadcasting(Partner(n))
                  \/ pending[1] \/ pending[2])
    /\ UNCHANGED <<queue, which, sent, item, conn, telecaster, shown, lost>>

SetLive(n) ==
    /\ pc[n] = "setlive"
    /\ live' = [live EXCEPT ![n] = 1]
    /\ Goto(n, "telecast")
    /\ UNCHANGED <<queue, which, sent, pending, item, target, conn,
                   telecaster, shown, lost, mishap>>

Telecast(n) ==                  \* recv from L; -1 at once when connect failed
    /\ pc[n] = "telecast" /\ conn[n] \in {"served", "refused"}
    /\ Goto(n, "showlive")
    /\ UNCHANGED <<queue, which, sent, live, pending, item, target, conn,
                   telecaster, shown, lost, mishap>>

ShowLive(n) ==                  \* buff holds L's text, or what was on the stack
    /\ pc[n] = "showlive"
    /\ SendToScreen(n, IF conn[n] = "served" THEN "telecast" ELSE "junk")
    /\ Goto(n, "clear")
    /\ UNCHANGED <<which, sent, live, pending, target, conn, telecaster,
                   shown, lost, mishap>>

ClearLiveForgotten(n) ==        \* seeded bug: livetelecast=0 is left out
    /\ pc[n] = "clear"
    /\ Goto(n, "kill2")
    /\ UNCHANGED <<queue, which, sent, live, pending, item, target, conn,
                   telecaster, shown, lost, mishap>>

ClearLive(n) ==
    /\ pc[n] = "clear"
    /\ live' = [live EXCEPT ![n] = 0]
    /\ Goto(n, "kill2")
    /\ UNCHANGED <<queue, which, sent, pending, item, target, conn,
                   telecaster, shown, lost, mishap>>

Kill2Forgotten(n) ==            \* seeded bug: no second signal
    /\ pc[n] = "kill2"
    /\ Goto(n, "spin")
    /\ conn' = [conn EXCEPT ![n] = "none"]
    /\ UNCHANGED <<queue, which, sent, live, pending, item, target, telecaster,
                   shown, lost, mishap>>

Kill2(n) ==                     \* the same pid, and close(sfd)
    /\ pc[n] = "kill2"
    /\ SendSignal(n, "spin")
    /\ conn' = [conn EXCEPT ![n] = "none"]
    /\ mishap' = (mishap \/ pending[1] \/ pending[2])
    /\ UNCHANGED <<queue, which, sent, item, telecaster, shown, lost>>

\* The handler runs.  msgrcv and msgsnd are never restarted after a handler:
\* N1 leaves a blocked msgrcv for the top of its loop (N1.c:35-38), N2 calls
\* msgrcv again (N2.c:37-43), and a msgsnd blocked on a full queue gives up
\* its message, because its result is not looked at.  A reader that has not
\* entered the call yet notices nothing.
Deliver(n) ==
    /\ pending[n] /\ Running(n)
    /\ pending' = [pending EXCEPT ![n] = FALSE]
    /\ live' = [live EXCEPT ![n] = 1 - @]
    /\ \/ UNCHANGED <<pc, item, lost>>
       \/ /\ n = 1 /\ pc[n] = "recv" /\ ~HasType(queue, n)
          /\ Goto(n, "spin")
          /\ UNCHANGED <<item, lost>>
       \/ /\ pc[n] \in {"show", "showlive"} /\ Full
          /\ lost' = lost \cup {item[n].id}
          /\ item' = [item EXCEPT ![n] = NoItem]
          /\ Goto(n, IF pc[n] = "show" THEN "spin" ELSE "clear")
    /\ UNCHANGED <<queue, which, sent, target, conn, telecaster, shown, mishap>>

ReaderStep(n) ==
    \/ Install(n) \/ Unpause(n) \/ Take(n) \/ Show(n) \/ Connect(n) \/ Pgrep(n)
    \/ Kill1(n) \/ SetLive(n) \/ Telecast(n) \/ ShowLive(n) \/ ClearLive(n)
    \/ Kill2(n)

-----------------------------------------------------------------------------
(* The live telecaster and the screen *)

StartTelecaster ==
    /\ ~telecaster
    /\ telecaster' = TRUE
    /\ UNCHANGED <<queue, which, sent, readervars, shown, lost, mishap>>

ServeTelecast(n) ==             \* accept, fork, send, close
    /\ telecaster /\ conn[n] = "open"
    /\ conn' = [conn EXCEPT ![n] = "served"]
    /\ UNCHANGED <<queue, which, sent, pc, live, pending, item, target,
                   telecaster, shown, lost, mishap>>

Screen ==
    /\ HasType(queue, 3)
    /\ LET m == FirstOfType(queue, 3)
       IN  shown' = Append(shown, [id |-> m.id, text |-> m.text])
    /\ queue' = WithoutFirst(queue, 3)
    /\ UNCHANGED <<which, sent, readervars, telecaster, lost, mishap>>

-----------------------------------------------------------------------------
Next ==
    \/ Editor \/ Screen \/ StartTelecaster
    \/ \E n \in Readers : Start(n) \/ ReaderStep(n) \/ Deliver(n) \/ ServeTelecast(n)

Spec == Init /\ [][Next]_vars

\* The kernel schedules every process that can run and delivers a pending
\* signal.  Users start the readers and L, and reporters feed the editor,
\* when they like.
Fairness ==
    /\ WF_vars(Screen)
    /\ \A n \in Readers : /\ WF_vars(ReaderStep(n))
                          /\ WF_vars(Deliver(n))
                          /\ WF_vars(ServeTelecast(n))

FairSpec == Spec /\ Fairness

-----------------------------------------------------------------------------
(* Properties *)

InQueue(id) == Cardinality({k \in DOMAIN queue : queue[k].id = id})
InHands(id) == Cardinality({n \in Readers : item[n].id = id})
OnScreen(id) == Cardinality({k \in DOMAIN shown : shown[k].id = id})
Lost(id) == IF id \in lost THEN 1 ELSE 0

\* A report the editor has sent is in the queue, in one reader's hands, on
\* the screen, or given up by an interrupted msgsnd: exactly one of these,
\* so the readers never show a report twice or both take it.
ExactlyOnce ==
    \A id \in 1 .. sent : InQueue(id) + InHands(id) + OnScreen(id) + Lost(id) = 1

\* Screen shows the reports of one reader in the order the editor sent them,
\* with live telecasts, interrupts and the other reader in between.
ScreenInOrder ==
    \A j, k \in DOMAIN shown :
        j < k /\ shown[j].id % 2 = shown[k].id % 2 => shown[j].id < shown[k].id

\* The toggle (N1.c:14-18) means "paused" only if signals pair up: as long as
\* no two broadcasts overlapped, no signal was swallowed by a pending one and
\* the partner was there, a reader's flag, counting a toggle still pending,
\* is 1 exactly during its own broadcast or its partner's.
Flag(n) == IF pending[n] THEN 1 - live[n] ELSE live[n]

OwnBroadcast(n) == pc[n] \in {"telecast", "showlive", "clear"}

PausedOnlyWhileLive ==
    ~mishap =>
        \A n \in Readers : Running(n) =>
            (Flag(n) = 1 <=> OwnBroadcast(n) \/ Broadcasting(Partner(n)))

\* Nobody can move, though a report is still not on the screen.
Idle(n) ==
    /\ ~pending[n]
    /\ \/ pc[n] = "spin" /\ live[n] = 1
       \/ pc[n] = "recv" /\ ~HasType(queue, n)
       \/ pc[n] \in {"show", "showlive"} /\ Full

Stalled ==
    /\ \A n \in Readers : Idle(n)
    /\ ~HasType(queue, 3)
    /\ \E id \in 1 .. sent : OnScreen(id) = 0 /\ id \notin lost

\* Every reader that could make room waits for room itself.
Wedged == Full /\ \E n \in Readers : pc[n] \in {"show", "showlive"}

\* If every toggle paired up, the pipeline stops before the screen only when
\* the one queue both stages share is full of unread reports while a reader
\* waits to put its text into it (N1.c:79, N1.c:92).
StallsOnlyWhenFull == Stalled /\ ~mishap => Wedged

\* With both readers running, toggles that pair up and a queue that never
\* wedges, every report reaches the screen unless an interrupt took it.
EveryReportShown ==
    ([]~mishap /\ []~Wedged /\ <>[](\A n \in Readers : pc[n] # "down")) =>
        \A id \in Ids : (sent >= id) ~> (OnScreen(id) = 1 \/ id \in lost)
=============================================================================
