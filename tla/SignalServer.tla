---------------------------- MODULE SignalServer ----------------------------
(***************************************************************************)
(* src/Mid Th/q2: server.c, the services S1.c, S3.c and S5.c, and client.c.  *)
(*                                                                          *)
(* The server listens on a port per service.  It takes the first client of   *)
(* each, notes its address in the ring LastTen, forks and executes the       *)
(* service, and closes its own listening socket of that port.  The service   *)
(* then listens on the port itself; for each client it sends the address to  *)
(* a message queue and SIGUSR1 to the server, whose handler receives one     *)
(* message and notes it in the ring too.                                     *)
(*                                                                          *)
(* The server's connectionless branches (ports 1 and 3) use names that are   *)
(* not declared and are left out.                                            *)
(***************************************************************************)
EXTENDS Naturals, Sequences, FiniteSets, FiniteSetsExt

CONSTANTS
    Services,     \* indices of sfd: 0, 2 and 4
    Clients,
    ServiceOf,    \* the service whose port each client calls
    RingSize,     \* entries of LastTen: 10
    LeftInQueue   \* messages an earlier run may have left in the queue

ASSUME ServicesAssumption == Services \subseteq Nat /\ IsFiniteSet(Services)
ASSUME ServiceOfAssumption == ServiceOf \in [Clients -> Services]
ASSUME RingSizeAssumption == RingSize \in Nat \ {0}
ASSUME LeftInQueueAssumption == LeftInQueue \in Nat

VARIABLES
    cst,          \* clients: idle, first (waits at the server's socket),
                  \* queued (at the service's), taken, answered, reset
    \* the server
    spc, todo,    \* next statement; entries of P still to be looked at
    cur,          \* the service being started
    who,          \* its first client
    reg,          \* N as read by LastTen[N] = clientaddr, and by
                  \* N = (N + 1) % 10
    N, LastTen,
    listens,      \* it has its listening socket of a service open
    heirs,        \* services that have inherited that socket
    firstQ,       \* clients waiting there
    \* the signal and the queue
    pending, handling, msgq,
    \* the services
    pc, ownQ,     \* next statement; clients waiting at their own socket
    greet,        \* first client, not greeted yet
    client,       \* client in its hands
    \* history
    log,          \* addresses noted, in order
    merged,       \* signals sent while one was pending
    left,         \* messages found in the queue
    raced         \* the handler ran within the server's own note, between its
                  \* first read of N and its write of N

servervars == <<spc, todo, cur, who, reg>>
ringvars == <<N, LastTen, log>>
sockvars == <<listens, heirs, firstQ, ownQ>>
sigvars == <<pending, handling, msgq, merged, left, raced>>
servicevars == <<pc, greet, client>>
vars == <<cst, servervars, ringvars, sockvars, sigvars, servicevars>>

Nobody == "nobody"
Garbage == "garbage"           \* an address nobody wrote

Init ==
    /\ cst = [c \in Clients |-> "idle"]
    /\ spc = "poll" /\ todo = {} /\ cur = 0 /\ who = Nobody /\ reg = 0
    /\ N = 0 /\ LastTen = [i \in 0..RingSize - 1 |-> Garbage] /\ log = <<>>
    /\ listens = [s \in Services |-> TRUE] /\ heirs = [s \in Services |-> {}]
    /\ firstQ = [s \in Services |-> <<>>] /\ ownQ = [s \in Services |-> <<>>]
    /\ pending = FALSE /\ handling = FALSE /\ merged = 0 /\ raced = FALSE
    /\ left \in 0..LeftInQueue /\ msgq = [i \in 1..left |-> Garbage]
    /\ pc = [s \in Services |-> "down"]
    /\ greet = [s \in Services |-> Nobody] /\ client = [s \in Services |-> Nobody]

-----------------------------------------------------------------------------
(* A client: connect, recv.  SO_REUSEPORT lets both sockets listen on the     *)
(* port, and the kernel gives the connection to either.  A client that finds  *)
(* neither is refused, as if it had not come.                                 *)

ClientConnect(c) ==
    LET s == ServiceOf[c] IN
    /\ cst[c] = "idle"
    /\ \/ /\ (listens[s] \/ heirs[s] # {})
          /\ cst' = [cst EXCEPT ![c] = "first"]
          /\ firstQ' = [firstQ EXCEPT ![s] = Append(@, c)]
          /\ UNCHANGED ownQ
       \/ /\ pc[s] \notin {"down", "bind"}
          /\ cst' = [cst EXCEPT ![c] = "queued"]
          /\ ownQ' = [ownQ EXCEPT ![s] = Append(@, c)]
          /\ UNCHANGED firstQ
    /\ UNCHANGED <<servervars, ringvars, listens, heirs, sigvars, servicevars>>

-----------------------------------------------------------------------------
(* The server's main; a handler that runs keeps it from going on *)

MainAt(p) == spc = p /\ ~handling

MainPoll ==
    LET ready == {s \in Services : listens[s] /\ firstQ[s] # <<>>} IN
    /\ MainAt("poll") /\ ready # {}
    /\ todo' = ready
    /\ spc' = "look"
    /\ UNCHANGED <<cst, cur, who, reg, ringvars, sockvars, sigvars, servicevars>>

\* The length passed to accept is not initialised: if negative, accept fails
\* after it has taken the connection.
MainAccept ==
    LET s == Min(todo)
        c == Head(firstQ[s])
    IN
    /\ MainAt("look") /\ todo # {}
    /\ cur' = s
    /\ firstQ' = [firstQ EXCEPT ![s] = Tail(@)]
    /\ \/ who' = c /\ cst' = [cst EXCEPT ![c] = "taken"]
       \/ who' = Garbage /\ cst' = [cst EXCEPT ![c] = "reset"]
    /\ todo' = todo \ {s}
    /\ spc' = "store"
    /\ UNCHANGED <<reg, ringvars, listens, heirs, ownQ, sigvars, servicevars>>

MainIndex ==                    \* LastTen[N]: where the address will go
    /\ MainAt("store")
    /\ reg' = N
    /\ spc' = "copy"
    /\ UNCHANGED <<cst, todo, cur, who, ringvars, sockvars, sigvars, servicevars>>

\* ... = clientaddr.  Of its 16 bytes the first 8 hold the address and are
\* copied at once.
MainStore ==
    /\ MainAt("copy")
    /\ LastTen' = [LastTen EXCEPT ![reg] = who]
    /\ log' = Append(log, who)
    /\ reg' = 0
    /\ spc' = "read"
    /\ UNCHANGED <<cst, todo, cur, who, N, sockvars, sigvars, servicevars>>

MainRead ==                     \* N + 1
    /\ MainAt("read")
    /\ reg' = N
    /\ spc' = "write"
    /\ UNCHANGED <<cst, todo, cur, who, ringvars, sockvars, sigvars, servicevars>>

MainWrite ==                    \* N = ... % 10
    /\ MainAt("write")
    /\ N' = (reg + 1) % RingSize
    /\ reg' = 0
    /\ spc' = "fork"
    /\ UNCHANGED <<cst, todo, cur, who, LastTen, log, sockvars, sigvars, servicevars>>

\* The child closes the socket of its own port and executes the service; the
\* listening sockets of the other ports it inherits, and never closes.
MainFork ==
    /\ MainAt("fork")
    /\ heirs' = [s \in Services |->
                   IF s # cur /\ listens[s] THEN heirs[s] \union {cur} ELSE heirs[s]]
    /\ pc' = [pc EXCEPT ![cur] = "bind"]
    /\ greet' = [greet EXCEPT ![cur] = IF who = Garbage THEN Nobody ELSE who]
    /\ who' = Nobody
    /\ spc' = "close"
    /\ UNCHANGED <<cst, todo, cur, reg, ringvars, listens, firstQ, ownQ, sigvars, client>>

\* seeded bug: close(nsfd) only
MainCloseForgotten ==
    /\ MainAt("close")
    /\ spc' = IF todo = {} THEN "poll" ELSE "look"
    /\ UNCHANGED <<cst, todo, cur, who, reg, ringvars, sockvars, sigvars, servicevars>>

\* close(sfd[i]): with its last holder the socket goes, and who waits is reset.
MainClose ==
    /\ MainAt("close")
    /\ listens' = [listens EXCEPT ![cur] = FALSE]
    /\ IF heirs[cur] = {}
       THEN /\ cst' = [c \in Clients |-> IF cst[c] = "first" /\ ServiceOf[c] = cur
                                         THEN "reset" ELSE cst[c]]
            /\ firstQ' = [firstQ EXCEPT ![cur] = <<>>]
       ELSE UNCHANGED <<cst, firstQ>>
    /\ spc' = IF todo = {} THEN "poll" ELSE "look"
    /\ UNCHANGED <<todo, cur, who, reg, ringvars, heirs, ownQ, sigvars, servicevars>>

MainStep ==
    \/ MainPoll \/ MainAccept \/ MainIndex \/ MainStore \/ MainRead \/ MainWrite
    \/ MainFork \/ MainClose

-----------------------------------------------------------------------------
(* The server's handler *)

HandlerEnter ==
    /\ pending /\ ~handling
    /\ pending' = FALSE
    /\ handling' = TRUE
    /\ raced' = (raced \/ spc \in {"copy", "read", "write"})
    /\ UNCHANGED <<cst, servervars, ringvars, sockvars, msgq, merged, left, servicevars>>

\* seeded bug: the index wraps one entry late
HandlerReceiveLateWrap ==
    /\ handling /\ msgq # <<>>
    /\ LastTen' = [LastTen EXCEPT ![N] = Head(msgq)]
    /\ log' = Append(log, Head(msgq))
    /\ N' = IF N + 2 > RingSize THEN N ELSE N + 1
    /\ msgq' = Tail(msgq)
    /\ handling' = FALSE
    /\ UNCHANGED <<cst, servervars, sockvars, pending, merged, left, raced, servicevars>>

HandlerReceive ==
    /\ handling /\ msgq # <<>>
    /\ LastTen' = [LastTen EXCEPT ![N] = Head(msgq)]
    /\ log' = Append(log, Head(msgq))
    /\ N' = (N + 1) % RingSize
    /\ msgq' = Tail(msgq)
    /\ handling' = FALSE
    /\ UNCHANGED <<cst, servervars, sockvars, pending, merged, left, raced, servicevars>>

-----------------------------------------------------------------------------
(* A service *)

ServiceGreet(s) ==              \* what it printed reaches the first client
    /\ greet[s] # Nobody
    /\ cst' = [cst EXCEPT ![greet[s]] = "answered"]
    /\ greet' = [greet EXCEPT ![s] = Nobody]
    /\ UNCHANGED <<servervars, ringvars, sockvars, sigvars, pc, client>>

ServiceBind(s) ==
    /\ pc[s] = "bind"
    /\ pc' = [pc EXCEPT ![s] = "accept"]
    /\ UNCHANGED <<cst, servervars, ringvars, sockvars, sigvars, greet, client>>

ServiceAccept(s) ==             \* the length is not initialised here either
    LET c == Head(ownQ[s]) IN
    /\ pc[s] = "accept" /\ ownQ[s] # <<>>
    /\ ownQ' = [ownQ EXCEPT ![s] = Tail(@)]
    /\ \/ client' = [client EXCEPT ![s] = c] /\ cst' = [cst EXCEPT ![c] = "taken"]
       \/ client' = [client EXCEPT ![s] = Garbage] /\ cst' = [cst EXCEPT ![c] = "reset"]
    /\ pc' = [pc EXCEPT ![s] = "msgsnd"]
    /\ UNCHANGED <<servervars, ringvars, listens, heirs, firstQ, sigvars, greet>>

\* seeded bug: the message is sent only if the server is not at work already
ServiceSendUnlessPending(s) ==
    /\ pc[s] = "msgsnd"
    /\ msgq' = IF pending THEN msgq ELSE Append(msgq, client[s])
    /\ pc' = [pc EXCEPT ![s] = "kill"]
    /\ UNCHANGED <<cst, servervars, ringvars, sockvars, pending, handling, merged,
                   left, raced, greet, client>>

ServiceSend(s) ==
    /\ pc[s] = "msgsnd"
    /\ msgq' = Append(msgq, client[s])
    /\ pc' = [pc EXCEPT ![s] = "kill"]
    /\ UNCHANGED <<cst, servervars, ringvars, sockvars, pending, handling, merged,
                   left, raced, greet, client>>

ServiceKill(s) ==               \* pgrep server, kill
    /\ pc[s] = "kill"
    /\ pending' = TRUE
    /\ merged' = IF pending THEN merged + 1 ELSE merged
    /\ pc' = [pc EXCEPT ![s] = "answer"]
    /\ UNCHANGED <<cst, servervars, ringvars, sockvars, handling, msgq, left, raced,
                   greet, client>>

ServiceAnswer(s) ==             \* fork; the child sends and ends
    /\ pc[s] = "answer"
    /\ cst' = IF client[s] = Garbage THEN cst ELSE [cst EXCEPT ![client[s]] = "answered"]
    /\ client' = [client EXCEPT ![s] = Nobody]
    /\ pc' = [pc EXCEPT ![s] = "accept"]
    /\ UNCHANGED <<servervars, ringvars, sockvars, sigvars, greet>>

ServiceStep(s) ==
    \/ ServiceBind(s) \/ ServiceAccept(s) \/ ServiceSend(s) \/ ServiceKill(s)
    \/ ServiceAnswer(s)

-----------------------------------------------------------------------------
Next ==
    \/ MainStep \/ HandlerEnter \/ HandlerReceive
    \/ \E c \in Clients : ClientConnect(c)
    \/ \E s \in Services : ServiceGreet(s) \/ ServiceStep(s)

Spec == Init /\ [][Next]_vars

\* The kernel delivers a pending signal; the processes run when they can.
FairSpec ==
    /\ Spec
    /\ WF_vars(MainStep) /\ WF_vars(HandlerEnter) /\ WF_vars(HandlerReceive)
    /\ \A s \in Services : WF_vars(ServiceGreet(s)) /\ WF_vars(ServiceStep(s))

-----------------------------------------------------------------------------
\* Signals coalesce, messages do not (server.c:22): the queue holds one message
\* for each service about to signal, one for a pending signal and one for the
\* running handler, which therefore never waits in msgrcv; beyond these exactly
\* the messages of signals that were merged, and an earlier run's, stay behind.
One(b) == IF b THEN 1 ELSE 0

QueueAccounted ==
    Len(msgq) = Cardinality({s \in Services : pc[s] = "kill"})
                  + One(pending) + One(handling) + merged + left

\* The main loop and the handler write the same ring and index (server.c:23,
\* 75).  While the handler has never run between the main loop's reading of N
\* for its note and its write of N, the ring holds the last addresses noted, the
\* latest before N.
RingIsLast ==
    ~raced /\ spc \notin {"read", "write"} =>
        \A j \in 1..RingSize :
            j <= Len(log) => LastTen[(N + RingSize - j) % RingSize] = log[Len(log) + 1 - j]

\* A client that is connected is answered or reset, unless it is at the
\* server's listening socket of its port after the server has closed it: a
\* service started earlier inherited that socket (server.c:90), keeps it open
\* and never accepts.
ClientsAnswered ==
    \A c \in Clients :
        cst[c] \in {"first", "queued"} ~>
            \/ cst[c] \in {"answered", "reset"}
            \/ /\ cst[c] = "first"
               /\ ~listens[ServiceOf[c]] /\ heirs[ServiceOf[c]] # {}

=============================================================================
