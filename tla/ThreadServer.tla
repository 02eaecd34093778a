---------------------------- MODULE ThreadServer ----------------------------
(***************************************************************************)
(* src/pthread/multithreaded_server.c: an echo server with a detached thread *)
(* per connection.                                                           *)
(*                                                                          *)
(* main hands each thread its descriptor in a heap cell of its own, which    *)
(* the thread copies and frees.  Descriptor numbers are reused: accept takes *)
(* the lowest that is free.  One process: whatever ends it ends all threads. *)
(***************************************************************************)
EXTENDS Naturals, Sequences, FiniteSets, FiniteSetsExt

CONSTANTS
    Clients,      \* each connects once
    MaxFds,       \* descriptors the process may still open
    MaxThreads,   \* threads the process may have
    MaxSends      \* bound on what the clients send together

ASSUME MaxFdsAssumption == MaxFds \in Nat \ {0}
ASSUME MaxThreadsAssumption == MaxThreads \in Nat \ {0}
ASSUME MaxSendsAssumption == MaxSends \in Nat

VARIABLES
    \* connections, one per client: none, queued, open, fin (closed by the
    \* client), rst (the server has sent since), reset (closed with unread echo)
    conn,
    sends,        \* messages sent so far
    inbox, echo,  \* there is data on its way to the server, and back
    \* the process
    up, backlog,
    fdtab,        \* the connection behind each open descriptor
    \* main
    mpc,
    client_socket,
    accepted,     \* the connection behind it, for which a thread is to start
    \* the threads, one per connection
    tpc,          \* none, start, recv, send, close, exit, done
    cell,         \* *new_sock
    sock,
    \* history
    orphan        \* connections for which no thread could be made

connvars == <<conn, sends, inbox, echo>>
procvars == <<up, backlog, fdtab>>
mainvars == <<mpc, client_socket, accepted>>
threadvars == <<tpc, cell, sock>>
vars == <<connvars, procvars, mainvars, threadvars, orphan>>

Nobody == "nobody"
Free == "free"
Fds == 1..MaxFds

ASSUME ClientsAssumption == Nobody \notin Clients /\ Free \notin Clients

Init ==
    /\ conn = [c \in Clients |-> "none"] /\ sends = 0
    /\ inbox = [c \in Clients |-> FALSE] /\ echo = [c \in Clients |-> FALSE]
    /\ up = TRUE /\ backlog = <<>> /\ fdtab = [n \in Fds |-> Free]
    /\ mpc = "accept" /\ client_socket = 0 /\ accepted = Nobody
    /\ tpc = [c \in Clients |-> "none"] /\ cell = [c \in Clients |-> 0]
    /\ sock = [c \in Clients |-> 0]
    /\ orphan = {}

-----------------------------------------------------------------------------
(* A client; one that finds no server is refused, as if it had not come *)

ClientConnect(c) ==
    /\ up /\ conn[c] = "none"
    /\ conn' = [conn EXCEPT ![c] = "queued"]
    /\ backlog' = Append(backlog, c)
    /\ UNCHANGED <<sends, inbox, echo, up, fdtab, mainvars, threadvars, orphan>>

ClientSend(c) ==
    /\ up /\ conn[c] \in {"queued", "open"} /\ sends < MaxSends
    /\ sends' = sends + 1
    /\ inbox' = [inbox EXCEPT ![c] = TRUE]
    /\ UNCHANGED <<conn, echo, procvars, mainvars, threadvars, orphan>>

ClientRecv(c) ==
    /\ conn[c] = "open" /\ echo[c]
    /\ echo' = [echo EXCEPT ![c] = FALSE]
    /\ UNCHANGED <<conn, sends, inbox, procvars, mainvars, threadvars, orphan>>

ClientClose(c) ==
    /\ up /\ conn[c] = "open"
    /\ conn' = [conn EXCEPT ![c] = IF echo[c] THEN "reset" ELSE "fin"]
    /\ UNCHANGED <<sends, inbox, echo, procvars, mainvars, threadvars, orphan>>

-----------------------------------------------------------------------------
(* main *)

FreeFds == {n \in Fds : fdtab[n] = Free}

MainAccept ==
    LET c == Head(backlog) IN
    /\ up /\ mpc = "accept" /\ backlog # <<>> /\ FreeFds # {}
    /\ client_socket' = Min(FreeFds)
    /\ fdtab' = [fdtab EXCEPT ![client_socket'] = c]
    /\ accepted' = c
    /\ conn' = [conn EXCEPT ![c] = "open"]
    /\ backlog' = Tail(backlog)
    /\ mpc' = "create"
    /\ UNCHANGED <<sends, inbox, echo, up, threadvars, orphan>>

\* accept fails when the descriptor table is full: main returns.
MainAcceptFails ==
    /\ up /\ mpc = "accept" /\ backlog # <<>> /\ FreeFds = {}
    /\ up' = FALSE
    /\ UNCHANGED <<connvars, backlog, fdtab, mainvars, threadvars, orphan>>

Running == {c \in Clients : tpc[c] \notin {"none", "done"}}

MainCreate ==                   \* malloc, *new_sock = client_socket, pthread_create
    /\ up /\ mpc = "create" /\ Cardinality(Running) < MaxThreads
    /\ cell' = [cell EXCEPT ![accepted] = client_socket]
    /\ tpc' = [tpc EXCEPT ![accepted] = "start"]
    /\ accepted' = Nobody
    /\ mpc' = "accept"
    /\ UNCHANGED <<connvars, procvars, client_socket, sock, orphan>>

\* The cell is freed, the connection is not closed, and thread_id, detached
\* already, is detached again: an error while that thread runs, undefined
\* once it has ended.
MainCreateFails ==
    /\ up /\ mpc = "create" /\ Cardinality(Running) >= MaxThreads
    /\ orphan' = orphan \union {accepted}
    /\ accepted' = Nobody
    /\ mpc' = "accept"
    /\ \/ up' = TRUE
       \/ (\E c \in Clients : tpc[c] = "done") /\ up' = FALSE
    /\ UNCHANGED <<connvars, backlog, fdtab, client_socket, threadvars>>

MainStep == MainAccept \/ MainAcceptFails \/ MainCreate \/ MainCreateFails

-----------------------------------------------------------------------------
(* A thread: handle_client *)

\* seeded bug: every thread is passed &client_socket instead of a cell
ThreadStartShared(c) ==
    /\ up /\ tpc[c] = "start"
    /\ sock' = [sock EXCEPT ![c] = client_socket]
    /\ cell' = [cell EXCEPT ![c] = 0]
    /\ tpc' = [tpc EXCEPT ![c] = "recv"]
    /\ UNCHANGED <<connvars, procvars, mainvars, orphan>>

ThreadStart(c) ==               \* sock = *client_socket, free
    /\ up /\ tpc[c] = "start"
    /\ sock' = [sock EXCEPT ![c] = cell[c]]
    /\ cell' = [cell EXCEPT ![c] = 0]
    /\ tpc' = [tpc EXCEPT ![c] = "recv"]
    /\ UNCHANGED <<connvars, procvars, mainvars, orphan>>

\* What the thread reads from is whatever its number stands for by now.
Peer(c) == fdtab[sock[c]]
BadFd(c) == Peer(c) = Free

\* seeded bug: the loop is left at an error only, not at the end of the data
ThreadRecvNoEof(c) ==
    LET p == Peer(c) IN
    /\ up /\ tpc[c] = "recv"
    /\ \/ /\ ~BadFd(c) /\ inbox[p]
          /\ inbox' = [inbox EXCEPT ![p] = FALSE]
          /\ tpc' = [tpc EXCEPT ![c] = "send"]
       \/ /\ BadFd(c) \/ (~inbox[p] /\ conn[p] \in {"rst", "reset"})
          /\ tpc' = [tpc EXCEPT ![c] = "close"]
          /\ UNCHANGED inbox
    /\ UNCHANGED <<conn, sends, echo, procvars, mainvars, cell, sock, orphan>>

\* Data that has arrived is read even after a reset.
ThreadRecv(c) ==
    LET p == Peer(c) IN
    /\ up /\ tpc[c] = "recv"
    /\ \/ /\ ~BadFd(c) /\ inbox[p]
          /\ inbox' = [inbox EXCEPT ![p] = FALSE]
          /\ tpc' = [tpc EXCEPT ![c] = "send"]
       \/ /\ BadFd(c) \/ (~inbox[p] /\ conn[p] \in {"fin", "rst", "reset"})
          /\ tpc' = [tpc EXCEPT ![c] = "close"]
          /\ UNCHANGED inbox
    /\ UNCHANGED <<conn, sends, echo, procvars, mainvars, cell, sock, orphan>>

\* The first send after the client has closed is answered with a reset; the
\* next raises SIGPIPE, which ends the process.
ThreadSend(c) ==
    LET p == Peer(c) IN
    /\ up /\ tpc[c] = "send"
    /\ \/ /\ ~BadFd(c) /\ conn[p] = "open"
          /\ echo' = [echo EXCEPT ![p] = TRUE]
          /\ tpc' = [tpc EXCEPT ![c] = "recv"]
          /\ UNCHANGED <<conn, up>>
       \/ /\ ~BadFd(c) /\ conn[p] = "fin"
          /\ conn' = [conn EXCEPT ![p] = "rst"]
          /\ tpc' = [tpc EXCEPT ![c] = "recv"]
          /\ UNCHANGED <<echo, up>>
       \/ /\ BadFd(c) \/ conn[p] = "reset"
          /\ tpc' = [tpc EXCEPT ![c] = "close"]
          /\ UNCHANGED <<conn, echo, up>>
       \/ /\ ~BadFd(c) /\ conn[p] = "rst"
          /\ up' = FALSE
          /\ UNCHANGED <<conn, echo, tpc>>
    /\ UNCHANGED <<sends, inbox, backlog, fdtab, mainvars, cell, sock, orphan>>

ThreadClose(c) ==
    /\ up /\ tpc[c] = "close"
    /\ fdtab' = [fdtab EXCEPT ![sock[c]] = Free]
    /\ tpc' = [tpc EXCEPT ![c] = "exit"]
    /\ UNCHANGED <<connvars, up, backlog, mainvars, cell, sock, orphan>>

ThreadExit(c) ==
    /\ up /\ tpc[c] = "exit"
    /\ tpc' = [tpc EXCEPT ![c] = "done"]
    /\ UNCHANGED <<connvars, procvars, mainvars, cell, sock, orphan>>

ThreadStep(c) ==
    \/ ThreadStart(c) \/ ThreadRecv(c) \/ ThreadSend(c) \/ ThreadClose(c) \/ ThreadExit(c)

-----------------------------------------------------------------------------
Next ==
    \/ MainStep
    \/ \E c \in Clients :
        \/ ClientConnect(c) \/ ClientSend(c) \/ ClientRecv(c) \/ ClientClose(c)
        \/ ThreadStep(c)

Spec == Init /\ [][Next]_vars

FairSpec ==
    /\ Spec
    /\ WF_vars(MainStep)
    /\ \A c \in Clients : WF_vars(ThreadStep(c))

-----------------------------------------------------------------------------
\* Numbers are reused while other threads still run, and the cell is freed
\* before the number is used (multithreaded_server.c:15); still every thread
\* works on the connection it was made for, and the open descriptors are those
\* of the running threads, the one main has in hand, and those it lost when
\* pthread_create failed (line 81): no other is ever leaked or closed twice.
Working(c) == tpc[c] \in {"recv", "send", "close"}

DescriptorsOwned ==
    /\ \A c \in Clients : Working(c) => fdtab[sock[c]] = c
    /\ {fdtab[n] : n \in Fds} \ {Free} =
         {c \in Clients : tpc[c] = "start" \/ Working(c)} \union ({accepted} \ {Nobody})
         \union orphan
    /\ \A m, n \in Fds : m # n /\ fdtab[m] # Free => fdtab[m] # fdtab[n]

\* What a client has sent comes back to it as long as it stays, and when it
\* leaves its thread ends: unless no thread could be made for it, or the
\* process has ended for want of descriptors or by SIGPIPE.
Attended ==
    \A c \in Clients :
        /\ conn[c] = "open" /\ inbox[c] ~>
             ~inbox[c] \/ conn[c] # "open" \/ ~up \/ c \in orphan
        /\ conn[c] = "fin" ~> tpc[c] = "done" \/ ~up \/ c \in orphan

=============================================================================
