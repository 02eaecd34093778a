------------------------------ MODULE BallGame ------------------------------
(***************************************************************************)
(* src/MidLab/q1: the referee R.c, the team servers T.c and C.c, the screen  *)
(* S.c and the players P1.cpp .. P4.cpp.                                     *)
(*                                                                          *)
(* A player connects to the referee on the port of a team.  The referee      *)
(* opens both teams' Unix sockets afresh for every player, waits until the   *)
(* team it is for has connected, and passes the connection on.  A team takes *)
(* two players; then, round after round, it runs one thread per player that  *)
(* reads a guess and, without any lock, tests and sets first or second,      *)
(* until both are set.                                                       *)
(***************************************************************************)
EXTENDS Naturals, Sequences, FiniteSets

CONSTANTS
    Players,      \* processes that connect once
    TeamOf,       \* the team each player plays for
    MaxGuesses    \* bound on what each player types

ASSUME TeamOfAssumption == TeamOf \in [Players -> {"T", "C"}]
ASSUME MaxGuessesAssumption == MaxGuesses \in [Players -> Nat]

Teams == {"T", "C"}
Seats == {1, 2}                \* pfds[0] and pfds[1], and their threads
Nobody == "nobody"

ASSUME PlayersAssumption == Nobody \notin Players

VARIABLES
    \* the players
    pst,          \* idle, queued, held (by R), playing, lost
    gone,         \* the player has ended
    typed,        \* guesses typed
    sent,         \* guesses not read yet; TRUE: the number the team drew
    \* the referee
    rpc, todo,    \* next statement; teams whose revents is still to be seen
    cur,          \* player just accepted
    backlog,      \* connections waiting at each port
    \* the Unix sockets
    open,         \* both are listening
    link,         \* a team's connection: none, queued, dropped, or a player
    \* the teams
    tpc, pfds,    \* next statement of main; connections received
    first, second,
    hpc,          \* next statement of each thread
    used,         \* the threads' stacks have been used in an earlier round
    decided,      \* history: first and second when the round began
    \* the screen
    screen, shown,
    onAir         \* history: the screen was on when the rounds began

playervars == <<pst, gone, typed, sent>>
refvars == <<rpc, todo, cur, backlog>>
unixvars == <<open, link>>
collectvars == <<tpc, pfds>>
roundvars == <<first, second, hpc, used, decided>>
screenvars == <<screen, shown, onAir>>
vars == <<playervars, refvars, unixvars, collectvars, roundvars, screenvars>>

Init ==
    /\ pst = [p \in Players |-> "idle"] /\ gone = [p \in Players |-> FALSE]
    /\ typed = [p \in Players |-> 0] /\ sent = [p \in Players |-> <<>>]
    /\ rpc = "down" /\ todo = {} /\ cur = Nobody
    /\ backlog = [t \in Teams |-> <<>>]
    /\ open = FALSE /\ link = [t \in Teams |-> "none"]
    /\ tpc = [t \in Teams |-> "down"] /\ pfds = [t \in Teams |-> <<>>]
    /\ first = [t \in Teams |-> Nobody] /\ second = [t \in Teams |-> Nobody]
    /\ hpc = [t \in Teams |-> [i \in Seats |-> "none"]]
    /\ used = [t \in Teams |-> FALSE]
    /\ decided = [t \in Teams |-> <<Nobody, Nobody>>]
    /\ screen = FALSE /\ shown = {} /\ onAir = [t \in Teams |-> FALSE]

-----------------------------------------------------------------------------
(* The screen.  sendto reaches it only if it has bound its port; what has     *)
(* arrived it prints.  The referee's "Connected to" lines are left out.         *)

ScreenStart ==
    /\ ~screen /\ screen' = TRUE
    /\ UNCHANGED <<playervars, refvars, unixvars, collectvars, roundvars, shown, onAir>>

Announce(m) == shown' = IF screen THEN shown \union {m} ELSE shown

-----------------------------------------------------------------------------
(* A player *)

\* A player that is refused ends, as if it had not come yet.
PlayerConnect(p) ==
    /\ pst[p] = "idle" /\ rpc \notin {"down", "exited"}
    /\ pst' = [pst EXCEPT ![p] = "queued"]
    /\ backlog' = [backlog EXCEPT ![TeamOf[p]] = Append(@, p)]
    /\ UNCHANGED <<gone, typed, sent, rpc, todo, cur, unixvars, collectvars,
                   roundvars, screenvars>>

\* What a player types, or that it ends, before its team reads waits in the
\* socket; it is modelled as done when the team has its two players.
Heeded(p) ==
    pst[p] = "playing" /\ ~gone[p] /\ tpc[TeamOf[p]] \in {"create", "join"}

PlayerGuess(p, right) ==
    /\ Heeded(p) /\ typed[p] < MaxGuesses[p]
    /\ typed' = [typed EXCEPT ![p] = @ + 1]
    /\ sent' = [sent EXCEPT ![p] = Append(@, right)]
    /\ UNCHANGED <<pst, gone, refvars, unixvars, collectvars, roundvars, screenvars>>

PlayerLeave(p) ==
    /\ Heeded(p)
    /\ gone' = [gone EXCEPT ![p] = TRUE]
    /\ UNCHANGED <<pst, typed, sent, refvars, unixvars, collectvars, roundvars, screenvars>>

-----------------------------------------------------------------------------
(* The referee *)

RefStart ==
    /\ rpc = "down" /\ rpc' = "poll"
    /\ UNCHANGED <<playervars, todo, cur, backlog, unixvars, collectvars, roundvars, screenvars>>

RefPoll ==
    LET ready == {t \in Teams : backlog[t] # <<>>} IN
    /\ rpc = "poll" /\ ready # {}
    /\ todo' = ready
    /\ rpc' = "accept"
    /\ UNCHANGED <<playervars, cur, backlog, unixvars, collectvars, roundvars, screenvars>>

Polled == IF "T" \in todo THEN "T" ELSE "C"      \* i = 0 before i = 1

RefAccept ==
    /\ rpc = "accept"
    /\ cur' = Head(backlog[Polled])
    /\ backlog' = [backlog EXCEPT ![Polled] = Tail(@)]
    /\ pst' = [pst EXCEPT ![cur'] = "held"]
    /\ rpc' = "open"
    /\ UNCHANGED <<gone, typed, sent, todo, unixvars, collectvars, roundvars, screenvars>>

RefOpen ==                      \* unlink, bind, listen, for both addresses
    /\ rpc = "open"
    /\ open' = TRUE
    /\ rpc' = "wait"
    /\ UNCHANGED <<playervars, todo, cur, backlog, link, collectvars, roundvars, screenvars>>

\* Closing a listening socket drops who waits there.
Dropped(k) == IF k = "queued" THEN "dropped" ELSE k

\* accept, send_fd, and all closes; the other team's connection is dropped.
RefHandOver ==
    LET t == TeamOf[cur] IN
    /\ rpc = "wait" /\ link[t] = "queued"
    /\ link' = [[u \in Teams |-> Dropped(link[u])] EXCEPT ![t] = cur]
    /\ open' = FALSE
    /\ pst' = [pst EXCEPT ![cur] = "playing"]
    /\ cur' = Nobody
    /\ todo' = todo \ {t}
    /\ rpc' = IF todo' = {} THEN "poll" ELSE "accept"
    /\ UNCHANGED <<gone, typed, sent, backlog, collectvars, roundvars, screenvars>>

\* The length passed to accept is not initialised; if negative, accept fails.
RefAcceptFails ==
    /\ rpc = "wait" /\ link[TeamOf[cur]] = "queued"
    /\ rpc' = "exited"
    /\ open' = FALSE
    /\ link' = [u \in Teams |-> Dropped(link[u])]
    /\ pst' = [p \in Players |-> IF pst[p] \in {"queued", "held"} THEN "lost" ELSE pst[p]]
    /\ backlog' = [t \in Teams |-> <<>>]
    /\ cur' = Nobody /\ todo' = {}
    /\ UNCHANGED <<gone, typed, sent, collectvars, roundvars, screenvars>>

RefStep == RefPoll \/ RefAccept \/ RefOpen \/ RefHandOver \/ RefAcceptFails

-----------------------------------------------------------------------------
(* A team: collecting two players *)

TeamStart(t) ==
    /\ tpc[t] = "down"
    /\ tpc' = [tpc EXCEPT ![t] = "connect"]
    /\ UNCHANGED <<playervars, refvars, unixvars, pfds, roundvars, screenvars>>

\* connect, over and over: it fails while nobody listens, and is made again.
TeamConnect(t) ==
    /\ tpc[t] = "connect" /\ open
    /\ link' = [link EXCEPT ![t] = "queued"]
    /\ tpc' = [tpc EXCEPT ![t] = "recv_fd"]
    /\ UNCHANGED <<playervars, refvars, open, pfds, roundvars, screenvars>>

\* Whatever message_buffer holds after an end of file, there is no control
\* message then and recv_fd returns -1.
\* seeded bug: the loop is left when recv_fd returns -1
TeamRecvFdBreak(t) ==
    /\ tpc[t] = "recv_fd" /\ link[t] # "queued"
    /\ link' = [link EXCEPT ![t] = "none"]
    /\ pfds' = IF link[t] = "dropped" THEN pfds ELSE [pfds EXCEPT ![t] = Append(@, link[t])]
    /\ tpc' = [tpc EXCEPT ![t] = IF link[t] = "dropped" \/ Len(pfds'[t]) = 2
                                 THEN "create" ELSE "connect"]
    /\ UNCHANGED <<playervars, refvars, open, roundvars, screenvars>>

TeamRecvFd(t) ==
    /\ tpc[t] = "recv_fd" /\ link[t] # "queued"
    /\ link' = [link EXCEPT ![t] = "none"]
    /\ pfds' = IF link[t] = "dropped" THEN pfds ELSE [pfds EXCEPT ![t] = Append(@, link[t])]
    /\ tpc' = [tpc EXCEPT ![t] = IF Len(pfds'[t]) = 2 THEN "create" ELSE "connect"]
    /\ UNCHANGED <<playervars, refvars, open, roundvars, screenvars>>

-----------------------------------------------------------------------------
(* A team: the rounds *)

TeamCreate(t) ==                \* two pthread_create
    /\ tpc[t] = "create" /\ Len(pfds[t]) = 2
    /\ hpc' = [hpc EXCEPT ![t] = [i \in Seats |-> "recv"]]
    /\ decided' = [decided EXCEPT ![t] = <<first[t], second[t]>>]
    /\ onAir' = IF used[t] THEN onAir ELSE [onAir EXCEPT ![t] = screen]
    /\ tpc' = [tpc EXCEPT ![t] = "join"]
    /\ UNCHANGED <<playervars, refvars, unixvars, pfds, first, second, used, screen, shown>>

TeamJoin(t) ==
    /\ tpc[t] = "join" /\ \A i \in Seats : hpc[t][i] = "none"
    /\ used' = [used EXCEPT ![t] = TRUE]
    /\ tpc' = [tpc EXCEPT ![t] = IF first[t] # Nobody /\ second[t] # Nobody
                                 THEN "ended" ELSE "create"]
    /\ UNCHANGED <<playervars, refvars, unixvars, pfds, first, second, hpc,
                   decided, screenvars>>

\* What atoi may make of the buffer: it has no terminator, so after the first
\* round digits of an earlier guess may follow; two guesses may arrive as one;
\* at the end of the connection nothing is written to it at all.
Heard(t, p) ==
    IF ~used[t] /\ Len(sent[p]) = 1 THEN {sent[p][1]} ELSE BOOLEAN

ThreadAt(t, i, pc) == tpc[t] = "join" /\ hpc[t][i] = pc
ThreadGoto(t, i, pc) == hpc' = [hpc EXCEPT ![t][i] = pc]

\* a == num, the first half of both conditions, is tested at once.
ThreadRecv(t, i) ==
    LET p == pfds[t][i] IN
    /\ ThreadAt(t, i, "recv") /\ (sent[p] # <<>> \/ gone[p])
    /\ \E right \in Heard(t, p) : ThreadGoto(t, i, IF right THEN "test1" ELSE "none")
    /\ sent' = [sent EXCEPT ![p] = <<>>]
    /\ UNCHANGED <<pst, gone, typed, refvars, unixvars, collectvars, first,
                   second, used, decided, screenvars>>

ThreadTest1(t, i) ==            \* first == -1
    /\ ThreadAt(t, i, "test1")
    /\ ThreadGoto(t, i, IF first[t] = Nobody THEN "set1" ELSE "test2")
    /\ UNCHANGED <<playervars, refvars, unixvars, collectvars, first, second,
                   used, decided, screenvars>>

ThreadTest2(t, i) ==            \* second == -1
    /\ ThreadAt(t, i, "test2")
    /\ ThreadGoto(t, i, IF second[t] = Nobody THEN "set2" ELSE "none")
    /\ UNCHANGED <<playervars, refvars, unixvars, collectvars, first, second,
                   used, decided, screenvars>>

\* seeded bug: both branches set first
ThreadSetOnlyFirst(t, i) ==
    /\ \/ ThreadAt(t, i, "set1") /\ ThreadGoto(t, i, "say1")
       \/ ThreadAt(t, i, "set2") /\ ThreadGoto(t, i, "say2")
    /\ first' = [first EXCEPT ![t] = pfds[t][i]]
    /\ UNCHANGED <<playervars, refvars, unixvars, collectvars, second,  used,
                   decided, screenvars>>

ThreadSet(t, i) ==              \* first = *fd, second = *fd
    /\ \/ /\ ThreadAt(t, i, "set1") /\ ThreadGoto(t, i, "say1")
          /\ first' = [first EXCEPT ![t] = pfds[t][i]]
          /\ UNCHANGED second
       \/ /\ ThreadAt(t, i, "set2") /\ ThreadGoto(t, i, "say2")
          /\ second' = [second EXCEPT ![t] = pfds[t][i]]
          /\ UNCHANGED first
    /\ UNCHANGED <<playervars, refvars, unixvars, collectvars,  used, decided, screenvars>>

\* seeded bug: getpeername(second, ...) in the first branch as well
ThreadSayCopied(t, i) ==
    /\ \/ ThreadAt(t, i, "say1") /\ Announce(<<"First", t, second[t]>>)
       \/ ThreadAt(t, i, "say2") /\ Announce(<<"Second", t, second[t]>>)
    /\ ThreadGoto(t, i, "none")
    /\ UNCHANGED <<playervars, refvars, unixvars, collectvars, first, second,
                   used, decided, screen, onAir>>

\* The name is that of the shared variable, which the other thread may have set.
ThreadSay(t, i) ==
    /\ \/ ThreadAt(t, i, "say1") /\ Announce(<<"First", t, first[t]>>)
       \/ ThreadAt(t, i, "say2") /\ Announce(<<"Second", t, second[t]>>)
    /\ ThreadGoto(t, i, "none")
    /\ UNCHANGED <<playervars, refvars, unixvars, collectvars, first, second,
                   used, decided, screen, onAir>>

ThreadStep(t, i) ==
    \/ ThreadRecv(t, i) \/ ThreadTest1(t, i) \/ ThreadTest2(t, i)
    \/ ThreadSet(t, i) \/ ThreadSay(t, i)

TeamStep(t) ==
    \/ TeamConnect(t) \/ TeamRecvFd(t) \/ TeamCreate(t) \/ TeamJoin(t)
    \/ \E i \in Seats : ThreadStep(t, i)

-----------------------------------------------------------------------------
Next ==
    \/ ScreenStart \/ RefStart \/ RefStep
    \/ \E p \in Players : PlayerConnect(p) \/ PlayerLeave(p)
    \/ \E p \in Players, right \in BOOLEAN : PlayerGuess(p, right)
    \/ \E t \in Teams : TeamStart(t) \/ TeamStep(t)

Spec == Init /\ [][Next]_vars

\* The referee, the main threads and the players' threads run when they can.
FairSpec ==
    /\ Spec
    /\ WF_vars(RefStep)
    /\ \A t \in Teams :
        /\ WF_vars(TeamConnect(t) \/ TeamRecvFd(t) \/ TeamCreate(t) \/ TeamJoin(t))
        /\ \A i \in Seats : WF_vars(ThreadStep(t, i))

-----------------------------------------------------------------------------
\* Two threads may both find first == -1 and overwrite each other's result
\* (C.c:92), but only within a round: main joins both threads before the next
\* one (C.c:246), so what a round has decided no later round changes.
DecidedStays ==
    \A t \in Teams :
        /\ decided[t][1] \in {Nobody, first[t]}
        /\ decided[t][2] \in {Nobody, second[t]}

\* A thread announces whoever the shared variable names when it gets there
\* (C.c:96, 117), which need not be its own player.  Still, when the game of a
\* team is over, the players first and second hold in the end have been
\* announced as such: the last thread to write announces after it has written.
WinnersAnnounced ==
    \A t \in Teams : tpc[t] = "ended" /\ onAir[t] =>
        {<<"First", t, first[t]>>, <<"Second", t, second[t]>>} \subseteq shown

\* The referee has both teams wait for one accept (R.c:230, 239): a team may
\* connect to a socket that is closed before it is its turn, and tries again.
\* Every player the referee knows of is passed to its team, unless the referee
\* fails in accept or waits for a team that is not running or has its two.
Unavailable(t) ==
    tpc[t] = "down" \/ Cardinality({p \in Players : TeamOf[p] = t /\ pst[p] = "playing"}) = 2

EveryPlayerReachesTeam ==
    \A p \in Players : pst[p] = "queued" ~>
        \/ pst[p] = "playing" \/ rpc = "exited"
        \/ rpc = "wait" /\ Unavailable(TeamOf[cur])

=============================================================================
