----------------------------- MODULE SuperServer -----------------------------
(***************************************************************************)
(* src/Minor2: the internet super-server ISS.c, its servers S1.c and S2.c,   *)
(* the sniffer T.c and the clients C.c and C2.c.                             *)
(*                                                                          *)
(* A server listens on its own port, serves one client, closes the           *)
(* listening socket and from then on serves the connections that ISS passes  *)
(* it over a Unix socket named after the port.  T sees every SYN and reports *)
(* each new destination port to ISS; ISS then listens on that port itself,   *)
(* connects to the server's Unix socket and passes on what it accepts.       *)
(***************************************************************************)
EXTENDS Naturals, Sequences, FiniteSets, SequencesExt

CONSTANTS
    Ports,        \* the services: 5050 and 5051
    Clients,      \* processes that connect once
    PortOf        \* the port each client connects to

ASSUME PortOfAssumption == PortOf \in [Clients -> Ports]

VARIABLES
    \* the kernel
    owner,        \* who listens on a TCP port
    backlog,      \* connections waiting there
    unixOpen,     \* the server's Unix socket is listening
    unixConn,     \* ISS's connection to it
    fds,          \* descriptors on their way over that connection
    \* the servers
    spc, first,   \* next statement, the first client
    \* the clients
    cst, by,      \* state, and the server that served it
    heard,        \* new services it was told about
    \* the sniffer
    sniffing, syns, store,
    tstream,      \* reports on their way to ISS
    \* the super-server
    ipc, slots,   \* next statement; port[], PFD[1..] and usfds[]
    todo,         \* indices of PFD whose revents is still to be looked at
    cur,          \* the port just read, or the connection just accepted
    garbled       \* history: a new PFD entry had POLLIN in its revents

kernelvars == <<owner, backlog, unixOpen, unixConn, fds>>
servervars == <<spc, first>>
clientvars == <<cst, by, heard>>
sniffvars == <<sniffing, syns, store, tstream>>
issvars == <<ipc, slots, todo, cur, garbled>>
vars == <<kernelvars, servervars, clientvars, sniffvars, issvars>>

Nobody == "nobody"

ASSUME NamesAssumption == Nobody \notin Clients \cup Ports /\ Clients \cap Ports = {}

Init ==
    /\ owner = [p \in Ports |-> "none"]
    /\ backlog = [p \in Ports |-> <<>>]
    /\ unixOpen = [p \in Ports |-> FALSE]
    /\ unixConn = [p \in Ports |-> FALSE]
    /\ fds = [p \in Ports |-> <<>>]
    /\ spc = [p \in Ports |-> "down"]
    /\ first = [p \in Ports |-> Nobody]
    /\ cst = [c \in Clients |-> "idle"]
    /\ by = [c \in Clients |-> Nobody]
    /\ heard = [c \in Clients |-> {}]
    /\ sniffing = FALSE /\ syns = <<>> /\ store = <<>> /\ tstream = <<>>
    /\ ipc = "down" /\ slots = <<>> /\ todo = {} /\ cur = Nobody /\ garbled = FALSE

-----------------------------------------------------------------------------
(* A client: connect, one recv, then the raw socket for announcements *)

Connect(c) ==
    LET p == PortOf[c] IN
    /\ cst[c] = "idle"
    /\ syns' = IF sniffing THEN Append(syns, p) ELSE syns
    /\ IF owner[p] = "none"
       THEN /\ cst' = [cst EXCEPT ![c] = "refused"]
            /\ UNCHANGED backlog
       ELSE /\ cst' = [cst EXCEPT ![c] = "waiting"]
            /\ backlog' = [backlog EXCEPT ![p] = Append(@, c)]
    /\ UNCHANGED <<owner, unixOpen, unixConn, fds, servervars, by, heard,
                   sniffing, store, tstream, issvars>>

Serve(c, p) ==
    /\ cst' = [cst EXCEPT ![c] = "served"]
    /\ by' = [by EXCEPT ![c] = p]

-----------------------------------------------------------------------------
(* A server *)

ServerStart(p) ==               \* unlink, bind, listen on the Unix socket
    /\ spc[p] = "down"
    /\ unixOpen' = [unixOpen EXCEPT ![p] = TRUE]
    /\ spc' = [spc EXCEPT ![p] = "bind"]
    /\ UNCHANGED <<owner, backlog, unixConn, fds, first, clientvars, sniffvars, issvars>>

ServerBind(p) ==
    /\ spc[p] = "bind" /\ owner[p] = "none"
    /\ owner' = [owner EXCEPT ![p] = "server"]
    /\ spc' = [spc EXCEPT ![p] = "accept"]
    /\ UNCHANGED <<backlog, unixOpen, unixConn, fds, first, clientvars,
                   sniffvars, issvars>>

\* ISS was faster: the server exits.  A client that was already passed to it
\* hangs, because ISS keeps its own descriptor of the connection open.
ServerBindFails(p) ==
    /\ spc[p] = "bind" /\ owner[p] # "none"
    /\ spc' = [spc EXCEPT ![p] = "exited"]
    /\ unixOpen' = [unixOpen EXCEPT ![p] = FALSE]
    /\ cst' = [c \in Clients |-> IF Contains(fds[p], c) THEN "hung" ELSE cst[c]]
    /\ fds' = [fds EXCEPT ![p] = <<>>]
    /\ UNCHANGED <<owner, backlog, unixConn, first, by, heard, sniffvars, issvars>>

ServerAccept(p) ==
    /\ spc[p] = "accept" /\ backlog[p] # <<>>
    /\ first' = [first EXCEPT ![p] = Head(backlog[p])]
    /\ backlog' = [backlog EXCEPT ![p] = Tail(@)]
    /\ spc' = [spc EXCEPT ![p] = "close"]
    /\ UNCHANGED <<owner, unixOpen, unixConn, fds, clientvars, sniffvars, issvars>>

ServerClose(p) ==               \* close(sfd)
    /\ spc[p] = "close"
    /\ owner' = [owner EXCEPT ![p] = "none"]
    /\ cst' = [c \in Clients |-> IF Contains(backlog[p], c) THEN "reset" ELSE cst[c]]
    /\ backlog' = [backlog EXCEPT ![p] = <<>>]
    /\ spc' = [spc EXCEPT ![p] = "first"]
    /\ UNCHANGED <<unixOpen, unixConn, fds, first, by, heard, sniffvars, issvars>>

ServerFirst(p) ==
    /\ spc[p] = "first"
    /\ Serve(first[p], p)
    /\ first' = [first EXCEPT ![p] = Nobody]
    /\ spc' = [spc EXCEPT ![p] = "handoff"]
    /\ UNCHANGED <<kernelvars, heard, sniffvars, issvars>>

ServerHandoff(p) ==             \* accept ISS's connection, close(usfd)
    /\ spc[p] = "handoff" /\ unixConn[p]
    /\ unixOpen' = [unixOpen EXCEPT ![p] = FALSE]
    /\ spc' = [spc EXCEPT ![p] = "loop"]
    /\ UNCHANGED <<owner, backlog, unixConn, fds, first, clientvars, sniffvars, issvars>>

ServerLoop(p) ==                \* recv_fd, send
    /\ spc[p] = "loop" /\ fds[p] # <<>>
    /\ Serve(Head(fds[p]), p)
    /\ fds' = [fds EXCEPT ![p] = Tail(@)]
    /\ UNCHANGED <<owner, backlog, unixOpen, unixConn, servervars, heard,
                   sniffvars, issvars>>

ServerStep(p) ==
    \/ ServerBind(p) \/ ServerBindFails(p) \/ ServerAccept(p) \/ ServerClose(p)
    \/ ServerFirst(p) \/ ServerHandoff(p) \/ ServerLoop(p)

-----------------------------------------------------------------------------
(* The sniffer *)

SnifferStart ==                 \* the raw socket, and the connection to ISS
    /\ ~sniffing /\ ipc = "accept"
    /\ sniffing' = TRUE
    /\ ipc' = "poll"
    /\ UNCHANGED <<kernelvars, servervars, clientvars, syns, store, tstream,
                   slots, todo, cur, garbled>>

CheckAlways(p) == TRUE          \* seeded bug: check() never finds the port

Check(p) == ~Contains(store, p)

\* One captured SYN.  A new port is sent to ISS and announced, once for every
\* port stored before, to whoever has the raw socket open.
Sniff ==
    /\ syns # <<>>
    /\ syns' = Tail(syns)
    /\ LET p == Head(syns) IN
       IF Check(p)
       THEN /\ store' = Append(store, p)
            /\ tstream' = IF ipc = "exited" THEN tstream ELSE Append(tstream, p)
            /\ heard' = [c \in Clients |->
                           IF cst[c] = "served" /\ store # <<>>
                           THEN heard[c] \cup {p} ELSE heard[c]]
       ELSE UNCHANGED <<store, tstream, heard>>
    /\ UNCHANGED <<kernelvars, servervars, cst, by, sniffing, issvars>>

\* The send to an ISS that has exited: the first may pass unnoticed, a later
\* one is answered by SIGPIPE, which ends T.
SniffKilled ==
    /\ syns # <<>> /\ Check(Head(syns)) /\ ipc = "exited"
    /\ sniffing' = FALSE /\ syns' = <<>>
    /\ UNCHANGED <<kernelvars, servervars, clientvars, store, tstream, issvars>>

-----------------------------------------------------------------------------
(* The super-server *)

IssStart ==                     \* listen on 9090
    /\ ipc = "down"
    /\ ipc' = "accept"
    /\ UNCHANGED <<kernelvars, servervars, clientvars, sniffvars, slots, todo,
                   cur, garbled>>

Ready ==
    {i \in 1 .. Len(slots) : backlog[slots[i]] # <<>>}
    \cup (IF tstream # <<>> THEN {0} ELSE {})

IssPollAll ==                   \* seeded bug: revents is not looked at
    /\ ipc = "poll" /\ todo = {}
    /\ Ready # {}
    /\ todo' = 0 .. Len(slots)
    /\ UNCHANGED <<kernelvars, servervars, clientvars, sniffvars, ipc, slots,
                   cur, garbled>>

IssPoll ==
    /\ ipc = "poll" /\ todo = {}
    /\ Ready # {}
    /\ todo' = Ready
    /\ UNCHANGED <<kernelvars, servervars, clientvars, sniffvars, ipc, slots,
                   cur, garbled>>

Index == CHOOSE i \in todo : \A j \in todo : i <= j

IssRecv ==                      \* i == 0: a report of T
    /\ ipc = "poll" /\ 0 \in todo /\ tstream # <<>>
    /\ todo' = todo \ {0}
    /\ cur' = Head(tstream) /\ tstream' = Tail(tstream)
    /\ ipc' = "bind"
    /\ UNCHANGED <<kernelvars, servervars, clientvars, sniffing, syns, store,
                   slots, garbled>>

\* exit: everything it listened on is closed, and with it every connection
\* not yet passed on.
IssExit ==
    LET mine == {p \in Ports : owner[p] = "iss"} IN
    /\ ipc' = "exited" /\ todo' = {} /\ cur' = Nobody
    /\ owner' = [p \in Ports |-> IF p \in mine THEN "none" ELSE owner[p]]
    /\ cst' = [c \in Clients |->
                 IF c = cur \/ cst[c] = "hung" \/ \E p \in mine : Contains(backlog[p], c)
                 THEN "reset" ELSE cst[c]]
    /\ backlog' = [p \in Ports |-> IF p \in mine THEN <<>> ELSE backlog[p]]
    /\ tstream' = <<>>
    /\ UNCHANGED <<unixOpen, unixConn, fds, servervars, by, heard, sniffing,
                   syns, store, slots, garbled>>

IssBind ==
    /\ ipc = "bind" /\ owner[cur] = "none"
    /\ owner' = [owner EXCEPT ![cur] = "iss"]
    /\ ipc' = "connect"
    /\ UNCHANGED <<backlog, unixOpen, unixConn, fds, servervars, clientvars,
                   sniffvars, slots, todo, cur, garbled>>

IssBindFails ==
    /\ ipc = "bind" /\ owner[cur] # "none"
    /\ IssExit

IssConnectSizeTwice ==          \* seeded bug: size is incremented first
    /\ ipc = "connect" /\ unixOpen[cur]
    /\ unixConn' = [unixConn EXCEPT ![cur] = TRUE]
    /\ slots' = Append(slots, cur)
    /\ \E seen \in BOOLEAN :
          /\ todo' = IF seen THEN todo \cup {Len(slots) + 2} ELSE todo
          /\ garbled' = (garbled \/ seen)
    /\ cur' = Nobody
    /\ ipc' = "poll"
    /\ UNCHANGED <<owner, backlog, unixOpen, fds, servervars, clientvars, sniffvars>>

\* usfds[size-1], size++: the loop goes on to the new entry, whose revents
\* poll has not written.
IssConnect ==
    /\ ipc = "connect" /\ unixOpen[cur]
    /\ unixConn' = [unixConn EXCEPT ![cur] = TRUE]
    /\ slots' = Append(slots, cur)
    /\ \E seen \in BOOLEAN :
          /\ todo' = IF seen THEN todo \cup {Len(slots) + 1} ELSE todo
          /\ garbled' = (garbled \/ seen)
    /\ cur' = Nobody
    /\ ipc' = "poll"
    /\ UNCHANGED <<owner, backlog, unixOpen, fds, servervars, clientvars, sniffvars>>

IssConnectFails ==
    /\ ipc = "connect" /\ ~unixOpen[cur]
    /\ IssExit

IssAccept ==                    \* i > 0: blocks on an empty backlog
    /\ ipc = "poll" /\ todo # {} /\ Index > 0
    /\ LET p == slots[Index] IN
       /\ backlog[p] # <<>>
       /\ cur' = Head(backlog[p])
       /\ backlog' = [backlog EXCEPT ![p] = Tail(@)]
    /\ ipc' = "pass"
    /\ UNCHANGED <<owner, unixOpen, unixConn, fds, servervars, clientvars,
                   sniffvars, slots, todo, garbled>>

UsfdsShifted(i) == slots[IF i = 1 THEN 1 ELSE i - 1]    \* seeded bug: usfds[i-2]

Usfds(i) == slots[i]            \* usfds[i-1] is of the server of PFD[i]

IssPassToAll ==                 \* seeded bug: send_fd on every connection
    /\ ipc = "pass" /\ spc[Usfds(Index)] # "exited"
    /\ fds' = [p \in Ports |-> IF Contains(slots, p) THEN Append(fds[p], cur) ELSE fds[p]]
    /\ todo' = todo \ {Index}
    /\ cur' = Nobody
    /\ ipc' = "poll"
    /\ UNCHANGED <<owner, backlog, unixOpen, unixConn, servervars, clientvars,
                   sniffvars, slots, garbled>>

IssPass ==                      \* send_fd(usfds[i-1], tempfd)
    /\ ipc = "pass" /\ spc[Usfds(Index)] # "exited"
    /\ fds' = [fds EXCEPT ![Usfds(Index)] = Append(@, cur)]
    /\ todo' = todo \ {Index}
    /\ cur' = Nobody
    /\ ipc' = "poll"
    /\ UNCHANGED <<owner, backlog, unixOpen, unixConn, servervars, clientvars,
                   sniffvars, slots, garbled>>

IssKilled ==                    \* sendmsg to a server that has exited: SIGPIPE
    /\ ipc = "pass" /\ spc[Usfds(Index)] = "exited"
    /\ IssExit

IssStep ==
    \/ IssPoll \/ IssRecv \/ IssBind \/ IssBindFails \/ IssConnect
    \/ IssConnectFails \/ IssAccept \/ IssPass \/ IssKilled

-----------------------------------------------------------------------------
Next ==
    \/ \E c \in Clients : Connect(c)
    \/ \E p \in Ports : ServerStart(p) \/ ServerStep(p)
    \/ SnifferStart \/ Sniff \/ SniffKilled
    \/ IssStart \/ IssStep

Spec == Init /\ [][Next]_vars

\* What runs keeps running; what a user starts, or a client, may never start.
FairSpec ==
    /\ Spec
    /\ \A p \in Ports : WF_vars(ServerStep(p))
    /\ WF_vars(Sniff \/ SniffKilled) /\ WF_vars(IssStep)

-----------------------------------------------------------------------------
(* Properties *)

TypeOK ==
    /\ owner \in [Ports -> {"none", "server", "iss"}]
    /\ backlog \in [Ports -> Seq(Clients)] /\ fds \in [Ports -> Seq(Clients)]
    /\ unixOpen \in [Ports -> BOOLEAN] /\ unixConn \in [Ports -> BOOLEAN]
    /\ spc \in [Ports -> {"down", "bind", "accept", "close", "first", "handoff",
                          "loop", "exited"}]
    /\ first \in [Ports -> Clients \cup {Nobody}]
    /\ cst \in [Clients -> {"idle", "waiting", "refused", "reset", "hung", "served"}]
    /\ by \in [Clients -> Ports \cup {Nobody}]
    /\ heard \in [Clients -> SUBSET Ports]
    /\ syns \in Seq(Ports) /\ store \in Seq(Ports) /\ tstream \in Seq(Ports)
    /\ ipc \in {"down", "accept", "poll", "bind", "connect", "pass", "exited"}
    /\ slots \in Seq(Ports) /\ todo \subseteq 0 .. Len(slots)
    /\ cur \in Ports \cup Clients \cup {Nobody}
    /\ sniffing \in BOOLEAN /\ garbled \in BOOLEAN

\* A client is served by the server of the port it called, though ISS accepts
\* for all of them and finds the server by the position in its arrays
\* (ISS.c:182-241).
ServedByOwnServer == \A c \in Clients : cst[c] = "served" => by[c] = PortOf[c]

\* A client that waits for its answer is in exactly one place on the way to
\* its server, and a client that does not wait is in none: nobody is served
\* twice or forgotten when the port changes hands.
PlacesOf(c) ==
    Cardinality({p \in Ports : Contains(backlog[p], c)})
    + Cardinality({p \in Ports : first[p] = c})
    + Cardinality({p \in Ports : Contains(fds[p], c)})
    + (IF cur = c THEN 1 ELSE 0)

OnePlace == \A c \in Clients : PlacesOf(c) = (IF cst[c] = "waiting" THEN 1 ELSE 0)

\* T reports a port once (T.c:83), so ISS never adopts one twice.
AdoptedOnce == IsInjective(slots \o tstream)

\* ISS waits in accept, deaf to T and to every other port, only when the
\* revents it read was never written by poll (ISS.c:171-173).
IssBlockedInAccept ==
    ipc = "poll" /\ todo # {} /\ Index > 0 /\ backlog[slots[Index]] = <<>>

BlockedOnlyWhenGarbled == IssBlockedInAccept => garbled

\* While ISS and the servers are up and ISS is not misled, whoever got a
\* connection is answered, by the server's first accept or through ISS,
\* unless the server's close of its listening socket resets it.
EveryConnectionAnswered ==
    (/\ []~garbled
     /\ [](ipc # "exited" /\ \A p \in Ports : spc[p] # "exited"))
    => \A c \in Clients : (cst[c] = "waiting") ~> (cst[c] \in {"served", "reset"})
=============================================================================
