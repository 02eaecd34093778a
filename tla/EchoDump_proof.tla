--------------------------- MODULE EchoDump_proof ---------------------------
(***************************************************************************)
(* Theorems about ThreadServer: for any number of clients, descriptors and    *)
(* threads, whose each open descriptor is.  And about PacketDump, whose        *)
(* definitions have other names: what the printers show of packets of any      *)
(* size.                                                                     *)
(***************************************************************************)
EXTENDS ThreadServer, PacketDump, SequenceTheorems, FiniteSetTheorems,
        WellFoundedInduction, TLAPS
TypeOK ==
    /\ conn \in [Clients -> {"none", "queued", "open", "fin", "rst", "reset"}]
    /\ sends \in Nat
    /\ inbox \in [Clients -> BOOLEAN] /\ echo \in [Clients -> BOOLEAN]
    /\ up \in BOOLEAN /\ backlog \in Seq(Clients)
    /\ fdtab \in [Fds -> Clients \union {Free}]
    /\ mpc \in {"accept", "create"} /\ client_socket \in 0..MaxFds
    /\ accepted \in Clients \union {Nobody}
    /\ tpc \in [Clients -> {"none", "start", "recv", "send", "close", "exit", "done"}]
    /\ cell \in [Clients -> 0..MaxFds] /\ sock \in [Clients -> 0..MaxFds]
    /\ orphan \subseteq Clients

\* The backlog holds a connection once, from connect to accept.
Backlogged ==
    /\ \A k \in 1..Len(backlog) : conn[backlog[k]] = "queued"
    /\ \A k, j \in 1..Len(backlog) : backlog[k] = backlog[j] => k = j

Accepted(c) == conn[c] \notin {"none", "queued"}

\* What becomes of a connection: one that was accepted is in the hands of main,
\* of its thread, or of nobody when the thread could not be made.
OneOwner ==
    /\ mpc = "create" <=> accepted # Nobody
    /\ accepted # Nobody => Accepted(accepted)
    /\ \A c \in Clients :
        /\ tpc[c] # "none" => Accepted(c) /\ c # accepted /\ c \notin orphan
        /\ c \in orphan => Accepted(c) /\ c # accepted

\* The number main has in hand, the one in a thread's cell and the one a thread
\* works with stand for that thread's connection.
Number(c, n) == n \in Fds /\ fdtab[n] = c

RightNumber ==
    /\ mpc = "create" => Number(accepted, client_socket)
    /\ \A c \in Clients :
        /\ tpc[c] = "start" => Number(c, cell[c])
        /\ Working(c) => Number(c, sock[c])
        /\ c \in orphan => \E n \in Fds : fdtab[n] = c

\* A descriptor is open for one who has it, and no connection has two.
Holds(c) == tpc[c] = "start" \/ Working(c) \/ c = accepted \/ c \in orphan

Opened ==
    /\ \A n \in Fds : fdtab[n] # Free => Holds(fdtab[n])
    /\ \A m, n \in Fds : m # n /\ fdtab[m] # Free => fdtab[m] # fdtab[n]

OwnerInv == TypeOK /\ Backlogged /\ OneOwner /\ RightNumber /\ Opened

-----------------------------------------------------------------------------
\* accept returns the lowest descriptor that is free: one there is.
LEMMA LowestFree ==
  ASSUME FreeFds # {}
  PROVE  Min(FreeFds) \in Fds /\ fdtab[Min(FreeFds)] = Free
<1>1. FreeFds \subseteq Nat
  BY MaxFdsAssumption DEF FreeFds, Fds
<1> DEFINE LessThan == {ss \in Nat \X Nat : ss[1] < ss[2]}
<1>2. IsWellFoundedOn(LessThan, Nat)
  BY NatLessThanWellFounded, Zenon DEF OpToRel
<1>3. PICK n \in FreeFds : \A m \in FreeFds : ~(<<m, n>> \in LessThan)
  <2> HIDE DEF LessThan
  <2> QED
    BY <1>1, <1>2, WFMin
<1>4. ASSUME NEW m \in FreeFds
      PROVE  n <= m
  <2>1. m \in Nat /\ n \in Nat
    BY <1>1
  <2>2. m < n => <<m, n>> \in LessThan
    BY <2>1, Zenon
  <2> HIDE DEF LessThan
  <2>3. ~(m < n)
    BY <1>3, <2>2
  <2> QED
    BY <2>1, <2>3
<1>5. Min(FreeFds) \in FreeFds
  BY <1>4 DEF Min
<1> QED
  BY <1>5 DEF FreeFds

\* Taking from the backlog and adding to it.
LEMMA Taking ==
  ASSUME NEW S, NEW s \in Seq(S), s # <<>>
  PROVE  /\ Head(s) \in S /\ Head(s) = s[1] /\ Tail(s) \in Seq(S)
         /\ Len(s) \in Nat \ {0} /\ Len(Tail(s)) = Len(s) - 1
         /\ \A k \in 1..Len(Tail(s)) : Tail(s)[k] = s[k + 1]
  BY HeadTailProperties

LEMMA Adding ==
  ASSUME NEW S, NEW s \in Seq(S), NEW e \in S
  PROVE  /\ Append(s, e) \in Seq(S) /\ Len(s) \in Nat /\ Len(Append(s, e)) = Len(s) + 1
         /\ \A k \in 1..Len(s) : Append(s, e)[k] = s[k]
         /\ Append(s, e)[Len(s) + 1] = e
  BY AppendProperties

\* No descriptor is open at first.
LEMMA InitOwnerInv == Init => OwnerInv
<1> SUFFICES ASSUME Init PROVE OwnerInv
  OBVIOUS
<1> USE MaxFdsAssumption, ClientsAssumption DEF Init
<1>1. <<>> \in Seq(Clients) /\ Len(<<>>) = 0
  OBVIOUS
<1>2. TypeOK
  BY <1>1 DEF TypeOK
<1>3. Backlogged
  BY <1>1 DEF Backlogged
<1>4. OneOwner /\ RightNumber /\ Opened
  BY DEF OneOwner, RightNumber, Opened, Working
<1> QED
  BY <1>2, <1>3, <1>4 DEF OwnerInv

\* What thread c works on is connection c.
LEMMA PeerIsOwn ==
  ASSUME OwnerInv, NEW c \in Clients, Working(c)
  PROVE  Peer(c) = c /\ ~BadFd(c)
  BY ClientsAssumption DEF OwnerInv, RightNumber, Number, Peer, BadFd

\* Every step keeps the types.
LEMMA StepTypes ==
  ASSUME OwnerInv, [Next]_vars
  PROVE  TypeOK'
<1> USE ClientsAssumption DEF OwnerInv, TypeOK, connvars, procvars, mainvars, threadvars
<1>1. ASSUME NEW c \in Clients, ClientConnect(c)
      PROVE  TypeOK'
  <2>1. Append(backlog, c) \in Seq(Clients)
    BY Adding
  <2> QED
    BY <1>1, <2>1 DEF ClientConnect
<1>2. ASSUME NEW c \in Clients, ClientSend(c) \/ ClientRecv(c) \/ ClientClose(c)
      PROVE  TypeOK'
  <2>1. CASE ClientSend(c)
    BY <2>1 DEF ClientSend
  <2>2. CASE ClientRecv(c)
    BY <2>2 DEF ClientRecv
  <2>3. CASE ClientClose(c)
    BY <2>3 DEF ClientClose
  <2> QED
    BY <1>2, <2>1, <2>2, <2>3
<1>3. CASE MainAccept
  <2>1. Head(backlog) \in Clients /\ Tail(backlog) \in Seq(Clients)
    BY <1>3, Taking DEF MainAccept
  <2>2. client_socket' \in Fds
    BY <1>3, LowestFree DEF MainAccept
  <2>3. client_socket' \in 0..MaxFds
    BY <2>2, MaxFdsAssumption DEF Fds
  <2> QED
    BY <1>3, <2>1, <2>2, <2>3 DEF MainAccept
<1>4. CASE MainAcceptFails
  BY <1>4 DEF MainAcceptFails
<1>5. CASE MainCreate
  BY <1>5 DEF MainCreate
<1>6. CASE MainCreateFails
  <2>1. accepted \in Clients
    BY <1>6 DEF MainCreateFails, OneOwner
  <2> QED
    BY <1>6, <2>1 DEF MainCreateFails
<1>7. ASSUME NEW c \in Clients, ThreadStep(c)
      PROVE  TypeOK'
  <2>1. CASE ThreadStart(c)
    BY <2>1, MaxFdsAssumption DEF ThreadStart
  <2>2. CASE ThreadRecv(c)
    BY <2>2, PeerIsOwn DEF ThreadRecv, Working
  <2>3. CASE ThreadSend(c)
    <3>1. Peer(c) = c /\ tpc[c] = "send"
      BY <2>3, PeerIsOwn DEF ThreadSend, Working
    <3>2. \/ echo' = [echo EXCEPT ![c] = TRUE] /\ conn' = conn
          \/ conn' = [conn EXCEPT ![c] = "rst"] /\ echo' = echo
          \/ UNCHANGED <<conn, echo>>
      BY <2>3, <3>1 DEF ThreadSend
    <3>3. up' \in BOOLEAN /\ (tpc' = tpc \/ \E l \in {"recv", "close"} : tpc' = [tpc EXCEPT ![c] = l])
      BY <2>3 DEF ThreadSend
    <3>4. UNCHANGED <<sends, inbox, backlog, fdtab, mainvars, cell, sock, orphan>>
      BY <2>3 DEF ThreadSend
    <3>5. conn' \in [Clients -> {"none", "queued", "open", "fin", "rst", "reset"}]
      BY <3>2
    <3>6. echo' \in [Clients -> BOOLEAN]
      BY <3>2
    <3>7. tpc' \in [Clients -> {"none", "start", "recv", "send", "close", "exit", "done"}]
      BY <3>3
    <3> QED
      BY <3>3, <3>4, <3>5, <3>6, <3>7
  <2>4. CASE ThreadClose(c)
    BY <2>4 DEF ThreadClose
  <2>5. CASE ThreadExit(c)
    BY <2>5 DEF ThreadExit
  <2> QED
    BY <1>7, <2>1, <2>2, <2>3, <2>4, <2>5 DEF ThreadStep
<1>8. CASE UNCHANGED vars
  BY <1>8 DEF vars
<1> QED
  BY <1>1, <1>2, <1>3, <1>4, <1>5, <1>6, <1>7, <1>8 DEF Next, MainStep

\* Every step keeps the backlog: a connection that is accepted leaves it for good.
LEMMA StepBacklogged ==
  ASSUME OwnerInv, [Next]_vars
  PROVE  Backlogged'
<1> USE ClientsAssumption DEF OwnerInv, TypeOK, connvars, procvars, mainvars, threadvars
<1>i. \A k \in 1..Len(backlog) : backlog[k] \in Clients
  OBVIOUS
<1>u. /\ backlog' = backlog
      /\ \A c \in Clients : conn[c] = "queued" => conn'[c] = "queued"
      => Backlogged'
  BY <1>i DEF Backlogged
<1>1. ASSUME NEW c \in Clients, ClientConnect(c)
      PROVE  Backlogged'
  <2>1. backlog' = Append(backlog, c) /\ conn[c] = "none" /\ conn'[c] = "queued"
    BY <1>1 DEF ClientConnect
  <2>2. \A d \in Clients \ {c} : conn'[d] = conn[d]
    BY <1>1 DEF ClientConnect
  <2>3. /\ Len(backlog) \in Nat /\ Len(backlog') = Len(backlog) + 1
        /\ \A k \in 1..Len(backlog) : backlog'[k] = backlog[k]
        /\ backlog'[Len(backlog) + 1] = c
    BY <2>1, Adding
  <2>4. \A k \in 1..Len(backlog) : backlog[k] # c
    BY <2>1 DEF Backlogged
  <2> HIDE DEF TypeOK
  <2>5. ASSUME NEW k \in 1..Len(backlog')
        PROVE  k \in 1..Len(backlog) \/ k = Len(backlog) + 1
    BY <2>3
  <2> QED
    BY <1>i, <2>1, <2>2, <2>3, <2>4, <2>5 DEF Backlogged
<1>2. ASSUME NEW c \in Clients, ClientSend(c) \/ ClientRecv(c) \/ ClientClose(c)
      PROVE  Backlogged'
  BY <1>2, <1>u DEF ClientSend, ClientRecv, ClientClose
<1>3. CASE MainAccept
  <2> DEFINE c == Head(backlog)
  <2>1. backlog' = Tail(backlog) /\ backlog # <<>> /\ conn' = [conn EXCEPT ![c] = "open"]
    BY <1>3 DEF MainAccept
  <2>2. /\ c = backlog[1] /\ Len(backlog) \in Nat \ {0}
        /\ Len(backlog') = Len(backlog) - 1
        /\ \A k \in 1..Len(backlog') : backlog'[k] = backlog[k + 1]
    BY <2>1, Taking
  <2>3. \A k \in 1..Len(backlog') : k + 1 \in 1..Len(backlog) /\ k + 1 # 1
    BY <2>2
  <2>4. 1 \in 1..Len(backlog)
    BY <2>2
  <2>5. ASSUME NEW k \in 1..Len(backlog')
        PROVE  backlog'[k] \in Clients /\ backlog'[k] # c
    <3>1. k + 1 \in 1..Len(backlog) /\ k + 1 # 1
      BY <2>3
    <3>2. backlog'[k] = backlog[k + 1] /\ c = backlog[1]
      BY <2>2
    <3>3. backlog[k + 1] # backlog[1]
      BY <2>4, <3>1 DEF Backlogged
    <3> QED
      BY <1>i, <3>1, <3>2, <3>3, Zenon
  <2>6. \A k \in 1..Len(backlog') : conn'[backlog'[k]] = "queued"
    BY <2>1, <2>2, <2>3, <2>5 DEF Backlogged
  <2>7. \A k, j \in 1..Len(backlog') : backlog'[k] = backlog'[j] => k = j
    <3> SUFFICES ASSUME NEW k \in 1..Len(backlog'), NEW j \in 1..Len(backlog'),
                        backlog'[k] = backlog'[j]
                 PROVE  k = j
      OBVIOUS
    <3>1. backlog[k + 1] = backlog[j + 1]
      BY <2>2
    <3>2. k + 1 = j + 1
      BY <2>3, <3>1 DEF Backlogged
    <3> QED
      BY <2>2, <3>2
  <2> QED
    BY <2>6, <2>7 DEF Backlogged
<1>4. CASE MainAcceptFails \/ MainCreate \/ MainCreateFails
  BY <1>4, <1>u DEF MainAcceptFails, MainCreate, MainCreateFails
<1>5. ASSUME NEW c \in Clients, ThreadStep(c)
      PROVE  Backlogged'
  BY <1>5, <1>u, PeerIsOwn DEF Working, ThreadStep, ThreadStart, ThreadRecv, ThreadSend,
     ThreadClose, ThreadExit
<1>6. CASE UNCHANGED vars
  BY <1>6, <1>u DEF vars
<1> QED
  BY <1>1, <1>2, <1>3, <1>4, <1>5, <1>6 DEF Next, MainStep

\* Every step keeps each accepted connection in one pair of hands.
LEMMA StepOneOwner ==
  ASSUME OwnerInv, [Next]_vars
  PROVE  OneOwner'
<1> USE ClientsAssumption DEF OwnerInv, TypeOK, connvars, procvars, mainvars, threadvars
<1>1. ASSUME NEW c \in Clients, ClientConnect(c)
      PROVE  OneOwner'
  BY <1>1 DEF ClientConnect, OneOwner, Accepted
<1>2. ASSUME NEW c \in Clients, ClientSend(c) \/ ClientRecv(c) \/ ClientClose(c)
      PROVE  OneOwner'
  BY <1>2 DEF ClientSend, ClientRecv, ClientClose, OneOwner, Accepted
<1>3. CASE MainAccept
  <2>1. Head(backlog) \in Clients /\ conn[Head(backlog)] = "queued"
    BY <1>3, Taking DEF MainAccept, Backlogged
  <2> QED
    BY <1>3, <2>1 DEF MainAccept, OneOwner, Accepted
<1>4. CASE MainAcceptFails
  BY <1>4 DEF MainAcceptFails, OneOwner, Accepted
<1>5. CASE MainCreate
  BY <1>5 DEF MainCreate, OneOwner, Accepted
<1>6. CASE MainCreateFails
  BY <1>6 DEF MainCreateFails, OneOwner, Accepted
<1>7. ASSUME NEW c \in Clients, ThreadStep(c)
      PROVE  OneOwner'
  <2>1. CASE ThreadStart(c)
    BY <2>1 DEF ThreadStart, OneOwner, Accepted
  <2>2. CASE ThreadRecv(c)
    BY <2>2 DEF ThreadRecv, OneOwner, Accepted
  <2>3. CASE ThreadSend(c)
    BY <2>3, PeerIsOwn DEF ThreadSend, OneOwner, Accepted, Working
  <2>4. CASE ThreadClose(c)
    BY <2>4 DEF ThreadClose, OneOwner, Accepted
  <2>5. CASE ThreadExit(c)
    BY <2>5 DEF ThreadExit, OneOwner, Accepted
  <2> QED
    BY <1>7, <2>1, <2>2, <2>3, <2>4, <2>5 DEF ThreadStep
<1>8. CASE UNCHANGED vars
  BY <1>8 DEF vars, OneOwner, Accepted
<1> QED
  BY <1>1, <1>2, <1>3, <1>4, <1>5, <1>6, <1>7, <1>8 DEF Next, MainStep

\* Every step keeps the numbers right.  ThreadClose is the step that relies on
\* no two threads having one number: it frees its own and no other.
LEMMA StepNumbers ==
  ASSUME OwnerInv, [Next]_vars
  PROVE  RightNumber' /\ Opened'
<1> USE ClientsAssumption DEF OwnerInv, TypeOK, connvars, procvars, mainvars, threadvars
<1>t. TypeOK'
  BY StepTypes
<1>u. UNCHANGED <<fdtab, mainvars, threadvars, orphan>> => RightNumber' /\ Opened'
  BY DEF RightNumber, Number, Opened, Holds, Working
<1>1. ASSUME NEW c \in Clients,
             ClientConnect(c) \/ ClientSend(c) \/ ClientRecv(c) \/ ClientClose(c)
      PROVE  RightNumber' /\ Opened'
  BY <1>1, <1>u DEF ClientConnect, ClientSend, ClientRecv, ClientClose
<1>2. CASE MainAccept
  <2> DEFINE c == Head(backlog)
             n == client_socket'
  <2>1. /\ UNCHANGED <<threadvars, orphan>> /\ mpc' = "create" /\ accepted' = c
        /\ fdtab' = [fdtab EXCEPT ![n] = c] /\ mpc = "accept"
    BY <1>2 DEF MainAccept
  <2>2. c \in Clients /\ conn[c] = "queued"
    BY <1>2, Taking DEF MainAccept, Backlogged
  <2>3. n \in Fds /\ fdtab[n] = Free
    BY <1>2, LowestFree DEF MainAccept
  <2>4. accepted = Nobody /\ tpc[c] = "none" /\ c \notin orphan
    BY <2>1, <2>2 DEF OneOwner, Accepted
  <2>5. \A m \in Fds : fdtab[m] # c
    BY <2>2, <2>4 DEF Opened, Holds, Working
  <2> HIDE DEF c, n
  <2>6. fdtab'[n] = c /\ \A m \in Fds \ {n} : fdtab'[m] = fdtab[m]
    BY <2>1, <2>3
  <2>7. Opened'
    BY <2>1, <2>2, <2>3, <2>4, <2>5, <2>6 DEF Opened, Holds, Working
  <2>8. RightNumber'
    <3>1. \A d \in Clients, m \in Fds : fdtab[m] = d => fdtab'[m] = d
      BY <2>3, <2>6
    <3>2. Number(accepted, client_socket)'
      BY <2>1, <2>3, <2>6 DEF Number, n
    <3> QED
      BY <2>1, <3>1, <3>2 DEF RightNumber, Number, Working
  <2> QED
    BY <2>7, <2>8
<1>3. CASE MainAcceptFails
  BY <1>3, <1>u DEF MainAcceptFails
<1>4. CASE MainCreate
  BY <1>4 DEF MainCreate, OneOwner, RightNumber, Number, Opened, Holds, Working
<1>5. CASE MainCreateFails
  BY <1>5 DEF MainCreateFails, OneOwner, RightNumber, Number, Opened, Holds, Working
<1>6. ASSUME NEW c \in Clients, ThreadStep(c)
      PROVE  RightNumber' /\ Opened'
  <2>1. CASE ThreadStart(c)
    BY <2>1 DEF ThreadStart, RightNumber, Number, Opened, Holds, Working
  <2>2. CASE ThreadRecv(c) \/ ThreadSend(c)
    <3>1. UNCHANGED <<fdtab, mainvars, cell, sock, orphan>>
      BY <2>2 DEF ThreadRecv, ThreadSend
    <3>2. \A d \in Clients : (Working(d) <=> Working(d)') /\ (tpc[d] = "start" <=> tpc'[d] = "start")
      BY <2>2 DEF ThreadRecv, ThreadSend, Working
    <3> QED
      BY <3>1, <3>2 DEF RightNumber, Number, Opened, Holds
  <2>3. CASE ThreadClose(c)
    <3>1. /\ fdtab' = [fdtab EXCEPT ![sock[c]] = Free] /\ tpc' = [tpc EXCEPT ![c] = "exit"]
          /\ UNCHANGED <<mainvars, cell, sock, orphan>>
      BY <2>3 DEF ThreadClose
    <3>2. Number(c, sock[c]) /\ tpc[c] = "close" /\ c # accepted /\ c \notin orphan
      BY <2>3 DEF ThreadClose, RightNumber, Working, OneOwner
    <3>3. /\ fdtab'[sock[c]] = Free
          /\ \A m \in Fds : fdtab[m] # c => fdtab'[m] = fdtab[m]
          /\ \A m \in Fds : fdtab'[m] # Free => fdtab'[m] = fdtab[m] /\ fdtab[m] # c
      <4>1. \A m \in Fds : fdtab[m] = c => m = sock[c]
        BY <3>2 DEF Number, Opened
      <4> QED
        BY <3>1, <3>2, <4>1 DEF Number
    <3>4. RightNumber'
      <4>1. \A d \in Clients : d # c => (tpc'[d] = tpc[d])
        BY <3>1
      <4> QED
        BY <3>1, <3>2, <3>3, <4>1 DEF RightNumber, Number, Working
    <3>5. Opened'
      BY <3>1, <3>3 DEF Opened, Holds, Working
    <3> QED
      BY <3>4, <3>5
  <2>4. CASE ThreadExit(c)
    BY <2>4 DEF ThreadExit, RightNumber, Number, Opened, Holds, Working
  <2> QED
    BY <1>6, <2>1, <2>2, <2>3, <2>4 DEF ThreadStep
<1>7. CASE UNCHANGED vars
  BY <1>7, <1>u DEF vars
<1> QED
  BY <1>1, <1>2, <1>3, <1>4, <1>5, <1>6, <1>7 DEF Next, MainStep

-----------------------------------------------------------------------------
\* Whatever main and the threads do in whatever order, the numbers of
\* multithreaded_server.c:14 and 80 stand for the connections they were made for.
THEOREM OwnerInvariant == Spec => []OwnerInv
<1>1. Init => OwnerInv
  BY InitOwnerInv
<1>2. OwnerInv /\ [Next]_vars => OwnerInv'
  BY StepTypes, StepBacklogged, StepOneOwner, StepNumbers DEF OwnerInv
<1> QED
  BY <1>1, <1>2, PTL DEF Spec

\* Numbers are reused while other threads run, and still no thread works on
\* another's connection and no descriptor is leaked but those main loses when
\* pthread_create fails (multithreaded_server.c:81).
THEOREM DescriptorsAreOwned == Spec => []DescriptorsOwned
<1>1. OwnerInv => DescriptorsOwned
  <2> SUFFICES ASSUME OwnerInv PROVE DescriptorsOwned
    OBVIOUS
  <2> USE ClientsAssumption DEF OwnerInv, TypeOK
  <2>1. \A c \in Clients : Holds(c) <=> \E n \in Fds : fdtab[n] = c
    BY DEF RightNumber, Number, Opened, OneOwner, Holds
  <2>2. {fdtab[n] : n \in Fds} \ {Free} = {c \in Clients : \E n \in Fds : fdtab[n] = c}
    OBVIOUS
  <2>3. {c \in Clients : Holds(c)} =
          {c \in Clients : tpc[c] = "start" \/ Working(c)} \union ({accepted} \ {Nobody})
          \union orphan
    BY DEF Holds
  <2> QED
    BY <2>1, <2>2, <2>3 DEF DescriptorsOwned, RightNumber, Number, Opened
<1> QED
  BY <1>1, OwnerInvariant, PTL

-----------------------------------------------------------------------------
(* PacketDump *)

Row == [hex : Seq(Int), text : Seq(Int)]

-----------------------------------------------------------------------------
(* The page *)

\* What n bytes leave on the page: rows of sixteen and the one begun last, and
\* the text beside all but that one, which has it when the dump is done.
PageOf(rs, n, Size) ==
    /\ rs \in Seq(Row)
    /\ n <= PerRow * Len(rs) /\ PerRow * Len(rs) < n + PerRow
    /\ \A r \in 1..Len(rs) :
        /\ rs[r].hex = Offsets(PerRow * (r - 1), IF r < Len(rs) THEN PerRow * r ELSE n)
        /\ rs[r].text = IF r < Len(rs) \/ n = Size THEN rs[r].hex ELSE <<>>

\* Whether the loop variable is a multiple of sixteen tells whether the last of R
\* rows is full, and its quotient which row it is in.
LEMMA RowArithmetic ==
  ASSUME NEW n \in Nat, NEW R \in Nat, n <= 16 * R, 16 * R < n + 16
  PROVE  /\ n % 16 = 0 <=> n = 16 * R
         /\ n # 16 * R => n - (n % 16) = 16 * (R - 1)
         /\ n % 16 = 0 => n \div 16 = R
         /\ n % 16 # 0 => n \div 16 = R - 1
  OBVIOUS

\* Offsets are a sequence, empty where nothing is left to show ...
LEMMA OffsetsAreOffsets ==
  ASSUME NEW from \in Int, NEW to \in Int
  PROVE  Offsets(from, to) \in Seq(Int)
<1>1. CASE from <= to
  BY <1>1 DEF Offsets
<1>2. CASE from > to
  <2>1. 1..to - from = {}
    BY <1>2
  <2>2. Offsets(from, to) = <<>>
    BY <2>1 DEF Offsets
  <2> QED
    BY <2>2
<1> QED
  BY <1>1, <1>2

\* ... one longer with the next byte ...
LEMMA OneMore ==
  ASSUME NEW from \in Int, NEW to \in Int, from <= to
  PROVE  Append(Offsets(from, to), to) = Offsets(from, to + 1)
<1> DEFINE s == Offsets(from, to)
           u == Offsets(from, to + 1)
<1>1. s \in Seq(Int) /\ u \in Seq(Int)
  BY OffsetsAreOffsets
<1>2. Len(s) = to - from /\ Len(u) = to - from + 1
  <2>1. DOMAIN s = 1..(to - from) /\ DOMAIN u = 1..(to + 1 - from)
    BY DEF Offsets
  <2>2. to - from \in Nat /\ to + 1 - from \in Nat
    OBVIOUS
  <2> HIDE DEF s, u
  <2>3. Len(s) = to - from
    BY <1>1, <2>1, <2>2
  <2>4. Len(u) = to + 1 - from
    BY <1>1, <2>1, <2>2
  <2> QED
    BY <2>3, <2>4
<1>3. \A k \in 1..Len(s) : s[k] = from + k - 1
  BY <1>2 DEF Offsets
<1>4. \A k \in 1..Len(u) : u[k] = from + k - 1
  BY <1>2 DEF Offsets
<1>5. Append(s, to) \in Seq(Int) /\ Len(Append(s, to)) = Len(u)
  BY <1>1, <1>2
<1>6. ASSUME NEW k \in 1..Len(u)
      PROVE  Append(s, to)[k] = u[k]
  <2> HIDE DEF s, u
  <2>1. CASE k \in 1..Len(s)
    <3>1. Append(s, to)[k] = s[k]
      BY <1>1, <2>1
    <3> QED
      BY <1>3, <1>4, <2>1, <3>1
  <2>2. CASE k = Len(s) + 1
    <3>1. Append(s, to)[k] = to
      BY <1>1, <2>2
    <3>2. u[k] = from + k - 1
      BY <1>4
    <3> QED
      BY <1>2, <2>2, <3>1, <3>2
  <2> QED
    BY <1>1, <1>2, <2>1, <2>2
<1> HIDE DEF s, u
<1>7. Append(s, to) = u
  BY <1>1, <1>5, <1>6, SeqEqual
<1> QED
  BY <1>7 DEF s, u

\* ... and empty before the first.
LEMMA NoneYet ==
  ASSUME NEW n \in Int
  PROVE  Offsets(n, n) = <<>>
<1>1. 1..n - n = {}
  OBVIOUS
<1> QED
  BY <1>1 DEF Offsets

\* What a text does to the page,
LEMMA Texted ==
  ASSUME NEW rs \in Seq(Row), Len(rs) > 0, NEW text \in Seq(Int)
  PROVE  /\ WithText(rs, text) \in Seq(Row) /\ Len(WithText(rs, text)) = Len(rs)
         /\ \A r \in 1..Len(rs) :
               /\ WithText(rs, text)[r].hex = rs[r].hex
               /\ WithText(rs, text)[r].text = IF r = Len(rs) THEN text ELSE rs[r].text
<1>1. Len(rs) \in 1..Len(rs) /\ \A r \in 1..Len(rs) : rs[r] \in Row
  OBVIOUS
<1>2. [rs[Len(rs)] EXCEPT !.text = text] \in Row
  BY <1>1 DEF Row
<1>3. WithText(rs, text) = [rs EXCEPT ![Len(rs)] = [rs[Len(rs)] EXCEPT !.text = text]]
  BY DEF WithText
<1>4. WithText(rs, text) \in Seq(Row) /\ Len(WithText(rs, text)) = Len(rs)
  BY <1>1, <1>2, <1>3
<1>5. \A r \in 1..Len(rs) :
        WithText(rs, text)[r] = IF r = Len(rs) THEN [rs[r] EXCEPT !.text = text] ELSE rs[r]
  BY <1>1, <1>3
<1>6. \A r \in 1..Len(rs) :
        /\ [rs[r] EXCEPT !.text = text].hex = rs[r].hex
        /\ [rs[r] EXCEPT !.text = text].text = text
  BY <1>1 DEF Row
<1> QED
  BY <1>4, <1>5, <1>6

\* what a byte does,
LEMMA Hexed ==
  ASSUME NEW rs \in Seq(Row), Len(rs) > 0, i \in Nat
  PROVE  /\ HexPrinted(rs) \in Seq(Row) /\ Len(HexPrinted(rs)) = Len(rs)
         /\ \A r \in 1..Len(rs) :
               /\ HexPrinted(rs)[r].text = rs[r].text
               /\ HexPrinted(rs)[r].hex = IF r = Len(rs) THEN Append(rs[r].hex, i) ELSE rs[r].hex
<1>1. Len(rs) \in 1..Len(rs) /\ \A r \in 1..Len(rs) : rs[r] \in Row
  OBVIOUS
<1> DEFINE h == Append(rs[Len(rs)].hex, i)
<1>2. h \in Seq(Int)
  BY <1>1 DEF Row
<1>3. HexPrinted(rs) = [rs EXCEPT ![Len(rs)] = [rs[Len(rs)] EXCEPT !.hex = h]]
  BY DEF HexPrinted
<1> HIDE DEF h
<1>4. [rs[Len(rs)] EXCEPT !.hex = h] \in Row
  BY <1>1, <1>2 DEF Row
<1>5. HexPrinted(rs) \in Seq(Row) /\ Len(HexPrinted(rs)) = Len(rs)
  BY <1>1, <1>3, <1>4
<1>6. \A r \in 1..Len(rs) :
        HexPrinted(rs)[r] = IF r = Len(rs) THEN [rs[r] EXCEPT !.hex = h] ELSE rs[r]
  BY <1>1, <1>3
<1>7. \A r \in 1..Len(rs) :
        [rs[r] EXCEPT !.hex = h].text = rs[r].text /\ [rs[r] EXCEPT !.hex = h].hex = h
  BY <1>1 DEF Row
<1>8. h = Append(rs[Len(rs)].hex, i)
  BY DEF h
<1> QED
  BY <1>5, <1>6, <1>7, <1>8

\* and what a new row does.
LEMMA Begun ==
  ASSUME NEW rs \in Seq(Row)
  PROVE  LET ns == Append(rs, [hex |-> <<>>, text |-> <<>>])
         IN  /\ ns \in Seq(Row) /\ Len(ns) = Len(rs) + 1
             /\ \A r \in 1..Len(rs) : ns[r] = rs[r]
             /\ ns[Len(rs) + 1] = [hex |-> <<>>, text |-> <<>>]
<1>1. [hex |-> <<>>, text |-> <<>>] \in Row
  BY DEF Row
<1> QED
  BY <1>1

\* One pass of the loop makes n + 1 bytes of n: the row before is given its text,
\* a row is begun where sixteen are full, and the last byte closes its own.
LEMMA PassPrintsByte ==
  ASSUME i \in Nat, NEW Size \in Int, i < Size, NEW rs, PageOf(rs, i, Size)
  PROVE  PageOf(LastRowEnded(HexPrinted(RowBegun(RowEnded(rs))), Size), i + 1, Size)
<1> DEFINE R == Len(rs)
           ended == RowEnded(rs)
           begun == RowBegun(ended)
           hexed == HexPrinted(begun)
           last == LastRowEnded(hexed, Size)
           R2 == Len(hexed)
<1>1. rs \in Seq(Row) /\ R \in Nat /\ i <= 16 * R /\ 16 * R < i + 16
  BY DEF PageOf, PerRow
<1>2. \A r \in 1..R : rs[r].hex = Offsets(16 * (r - 1), IF r < R THEN 16 * r ELSE i)
  BY DEF PageOf, PerRow
<1>3. \A r \in 1..R : rs[r].text = IF r < R THEN rs[r].hex ELSE <<>>
  BY DEF PageOf
<1>4. /\ i % 16 = 0 <=> i = 16 * R
      /\ i # 16 * R => i - (i % 16) = 16 * (R - 1)
  BY <1>1, RowArithmetic
<1>5. /\ hexed \in Seq(Row) /\ R2 \in Nat \ {0}
      /\ i + 1 <= 16 * R2 /\ 16 * R2 < i + 1 + 16 /\ i - (i % 16) = 16 * (R2 - 1)
      /\ \A r \in 1..R2 :
            /\ hexed[r].hex = Offsets(16 * (r - 1), IF r < R2 THEN 16 * r ELSE i + 1)
            /\ hexed[r].text = IF r < R2 THEN hexed[r].hex ELSE <<>>
  <2>1. CASE i = 16 * R
    <3>1. /\ ended \in Seq(Row) /\ Len(ended) = R
          /\ \A r \in 1..R : ended[r].hex = rs[r].hex /\ ended[r].text = rs[r].hex
      <4>1. CASE i = 0
        <5>1. R = 0 /\ ended = rs
          BY <1>1, <2>1, <4>1 DEF RowEnded
        <5> QED
          BY <1>1, <5>1
      <4>2. CASE i # 0
        <5>1. R > 0 /\ i - 16 = 16 * (R - 1)
          BY <1>1, <2>1, <4>2
        <5>2. ended = WithText(rs, Offsets(16 * (R - 1), i))
          BY <1>4, <2>1, <4>2, <5>1 DEF RowEnded, PerRow
        <5>3. Offsets(16 * (R - 1), i) \in Seq(Int)
          BY <1>1, OffsetsAreOffsets
        <5>4. rs[R].hex = Offsets(16 * (R - 1), i)
          BY <1>1, <1>2, <5>1
        <5> HIDE DEF ended
        <5>5. /\ ended \in Seq(Row) /\ Len(ended) = R
              /\ \A r \in 1..R :
                    /\ ended[r].hex = rs[r].hex
                    /\ ended[r].text = IF r = R THEN rs[R].hex ELSE rs[r].text
          BY <1>1, <5>1, <5>2, <5>3, <5>4, Texted
        <5>6. \A r \in 1..R : r # R => r < R
          BY <1>1
        <5> QED
          BY <1>3, <5>5, <5>6
      <4> QED
        BY <4>1, <4>2
    <3>2. begun = Append(ended, [hex |-> <<>>, text |-> <<>>])
      BY <1>4, <2>1 DEF RowBegun, PerRow
    <3> HIDE DEF ended
    <3>3. /\ begun \in Seq(Row) /\ Len(begun) = R + 1
          /\ \A r \in 1..R : begun[r] = ended[r]
          /\ begun[R + 1] = [hex |-> <<>>, text |-> <<>>]
      BY <3>1, <3>2, Begun
    <3> HIDE DEF begun
    <3>4. /\ hexed \in Seq(Row) /\ R2 = R + 1
          /\ \A r \in 1..R + 1 :
                /\ hexed[r].text = begun[r].text
                /\ hexed[r].hex = IF r = R + 1 THEN Append(begun[r].hex, i) ELSE begun[r].hex
      BY <1>1, <3>3, Hexed
    <3> HIDE DEF hexed
    <3>5. hexed[R + 1].text = <<>> /\ hexed[R + 1].hex = Offsets(16 * R, i + 1)
      <4>1. Append(<<>>, i) = Offsets(i, i + 1)
        <5>1. Append(Offsets(i, i), i) = Offsets(i, i + 1)
          BY OneMore
        <5>2. Offsets(i, i) = <<>>
          BY NoneYet
        <5> QED
          BY <5>1, <5>2
      <4>2. R + 1 \in 1..R + 1
        BY <1>1
      <4>3. begun[R + 1].hex = <<>> /\ begun[R + 1].text = <<>>
        BY <3>3
      <4>4. /\ hexed[R + 1].text = begun[R + 1].text
            /\ hexed[R + 1].hex = Append(begun[R + 1].hex, i)
        BY <3>4, <4>2
      <4> QED
        BY <2>1, <4>1, <4>3, <4>4
    <3>6. ASSUME NEW r \in 1..R + 1, r # R + 1
          PROVE  /\ hexed[r].hex = Offsets(16 * (r - 1), 16 * r)
                 /\ hexed[r].text = hexed[r].hex
      <4>1. r \in 1..R /\ (IF r < R THEN 16 * r ELSE i) = 16 * r
        BY <1>1, <2>1, <3>6
      <4>2. rs[r].hex = Offsets(16 * (r - 1), 16 * r)
        BY <1>2, <4>1
      <4> QED
        BY <3>1, <3>3, <3>4, <3>6, <4>1, <4>2
    <3>7. 16 * (R + 1 - 1) = 16 * R /\ i - (i % 16) = 16 * R
      BY <1>1, <1>4, <2>1
    <3>8. ASSUME NEW r \in 1..R + 1
          PROVE  /\ hexed[r].hex = Offsets(16 * (r - 1), IF r < R + 1 THEN 16 * r ELSE i + 1)
                 /\ hexed[r].text = IF r < R + 1 THEN hexed[r].hex ELSE <<>>
      <4>1. CASE r = R + 1
        BY <1>1, <3>5, <3>7, <4>1
      <4>2. CASE r # R + 1
        <5>1. r < R + 1
          BY <1>1, <4>2
        <5> QED
          BY <3>6, <4>2, <5>1
      <4> QED
        BY <4>1, <4>2
    <3>9. i + 1 <= 16 * (R + 1) /\ 16 * (R + 1) < i + 1 + 16 /\ R + 1 \in Nat \ {0}
      BY <1>1, <2>1
    <3> QED
      BY <3>4, <3>7, <3>8, <3>9
  <2>2. CASE i # 16 * R
    <3>1. i % 16 # 0 /\ R > 0 /\ i + 1 <= 16 * R /\ 16 * (R - 1) <= i
      BY <1>1, <1>4, <2>2
    <3>2. begun = rs
      BY <3>1 DEF RowBegun, RowEnded, PerRow
    <3> HIDE DEF begun
    <3>3. /\ hexed \in Seq(Row) /\ R2 = R
          /\ \A r \in 1..R :
                /\ hexed[r].text = rs[r].text
                /\ hexed[r].hex = IF r = R THEN Append(rs[r].hex, i) ELSE rs[r].hex
      BY <1>1, <3>1, <3>2, Hexed
    <3> HIDE DEF hexed
    <3>4. Append(rs[R].hex, i) = Offsets(16 * (R - 1), i + 1)
      <4>1. rs[R].hex = Offsets(16 * (R - 1), i)
        BY <1>1, <1>2, <3>1
      <4> DEFINE first == 16 * (R - 1)
      <4>2. first \in Int /\ i \in Int /\ first <= i
        BY <1>1, <3>1
      <4> HIDE DEF first
      <4>3. Append(Offsets(first, i), i) = Offsets(first, i + 1)
        BY <4>2, OneMore, Zenon
      <4> USE DEF first
      <4> QED
        BY <4>1, <4>3
    <3>5. \A r \in 1..R : r # R => r < R
      BY <1>1
    <3>6. ASSUME NEW r \in 1..R
          PROVE  /\ hexed[r].hex = Offsets(16 * (r - 1), IF r < R THEN 16 * r ELSE i + 1)
                 /\ hexed[r].text = IF r < R THEN hexed[r].hex ELSE <<>>
      <4>1. CASE r = R
        <5>1. ~(r < R) /\ rs[r].text = <<>>
          BY <1>1, <1>3, <4>1
        <5>2. hexed[r].text = rs[r].text /\ hexed[r].hex = Append(rs[R].hex, i)
          BY <3>3, <4>1
        <5>3. 16 * (r - 1) = 16 * (R - 1)
          BY <4>1
        <5> QED
          BY <3>4, <5>1, <5>2, <5>3
      <4>2. CASE r # R
        BY <1>2, <1>3, <3>3, <3>5, <4>2
      <4> QED
        BY <4>1, <4>2
    <3>7. 16 * R < i + 1 + 16 /\ R \in Nat \ {0}
      BY <1>1, <3>1
    <3> QED
      BY <1>4, <2>2, <3>1, <3>3, <3>6, <3>7
  <2> QED
    BY <2>1, <2>2
<1> HIDE DEF hexed
<1>6. ASSUME NEW r \in 1..R2
      PROVE  r # R2 => r < R2
  BY <1>5
<1>7. ASSUME i = Size - 1
      PROVE  PageOf(last, i + 1, Size)
  <2> DEFINE text == Offsets(16 * (R2 - 1), i + 1)
  <2>0. i - (i % 16) = 16 * (R2 - 1) /\ i + 1 = Size
    BY <1>5, <1>7
  <2>1. last = WithText(hexed, text) /\ i + 1 = Size
    BY <1>7, <2>0 DEF LastRowEnded, PerRow
  <2>2. text \in Seq(Int)
    <3> DEFINE first == 16 * (R2 - 1)
    <3>1. first \in Int /\ i + 1 \in Int
      BY <1>5
    <3> HIDE DEF first
    <3>2. Offsets(first, i + 1) \in Seq(Int)
      BY <3>1, OffsetsAreOffsets
    <3> QED
      BY <3>2 DEF first
  <2>3. hexed[R2].hex = text
    BY <1>5
  <2> HIDE DEF text, last
  <2>4. /\ last \in Seq(Row) /\ Len(last) = R2
        /\ \A r \in 1..R2 : /\ last[r].hex = hexed[r].hex
                             /\ last[r].text = IF r = R2 THEN text ELSE hexed[r].text
    <3>1. hexed \in Seq(Row) /\ R2 > 0
      BY <1>5
    <3> QED
      BY <2>1, <2>2, <3>1, Texted
  <2>5. \A r \in 1..R2 : last[r].text = last[r].hex
    BY <1>5, <1>6, <2>3, <2>4
  <2>6. PageOf(last, i + 1, Size)
    <3>1. last \in Seq(Row) /\ i + 1 <= 16 * Len(last) /\ 16 * Len(last) < i + 1 + 16
      BY <1>5, <2>4
    <3>2. \A r \in 1..R2 :
            last[r].hex = Offsets(16 * (r - 1), IF r < R2 THEN 16 * r ELSE i + 1)
      BY <1>5, <2>4
    <3> QED
      BY <2>1, <2>4, <2>5, <3>1, <3>2 DEF PageOf, PerRow
  <2> QED
    BY <2>6
<1>8. ASSUME i # Size - 1
      PROVE  PageOf(last, i + 1, Size)
  <2>1. last = hexed /\ i + 1 # Size
    BY <1>8 DEF LastRowEnded
  <2>2. PageOf(hexed, i + 1, Size)
    BY <1>5, <2>1 DEF PageOf, PerRow
  <2> QED
    BY <2>1, <2>2
<1>9. PageOf(last, i + 1, Size)
  BY <1>7, <1>8
<1> QED
  BY <1>9 DEF hexed

\* The page of all bytes is the one RowsOf lays out.
LEMMA PageOfAll ==
  ASSUME NEW n \in Nat, NEW rs, PageOf(rs, n, n)
  PROVE  rs = RowsOf(n)
<1> DEFINE R == Len(rs)
           full == n \div 16
           rest == IF n % 16 = 0 THEN 0 ELSE 1
           Laid(r) == Offsets(16 * (r - 1), IF r <= full THEN 16 * r ELSE n)
<1>1. rs \in Seq(Row) /\ R \in Nat /\ n <= 16 * R /\ 16 * R < n + 16
  BY DEF PageOf, PerRow
<1>2. /\ n % 16 = 0 <=> n = 16 * R
      /\ n % 16 = 0 => full = R
      /\ n % 16 # 0 => full = R - 1
  BY <1>1, RowArithmetic
<1>3. full + rest = R
  BY <1>1, <1>2
<1>4. CASE n = 0
  <2>1. R = 0
    BY <1>1, <1>4
  <2>2. rs = <<>>
    BY <1>1, <2>1
  <2> QED
    BY <1>4, <2>2 DEF RowsOf
<1>5. CASE n # 0
  <2>1. RowsOf(n) = [r \in 1..R |-> [hex |-> Laid(r), text |-> Laid(r)]]
    <3>1. ~(n <= 0) /\ 1..full + rest = 1..R
      BY <1>3, <1>5
    <3>2. RowsOf(n) = [r \in 1..full + rest |-> [hex |-> Laid(r), text |-> Laid(r)]]
      BY <3>1 DEF RowsOf, PerRow
    <3> QED
      BY <3>1, <3>2
  <2>2. ASSUME NEW r \in 1..R
        PROVE  rs[r] = [hex |-> Laid(r), text |-> Laid(r)]
    <3>1. (IF r < R THEN 16 * r ELSE n) = (IF r <= full THEN 16 * r ELSE n)
      BY <1>1, <1>2
    <3>2. rs[r].hex = Offsets(16 * (r - 1), IF r < R THEN 16 * r ELSE n)
      BY DEF PageOf, PerRow
    <3>3. rs[r].hex = Laid(r) /\ rs[r].text = Laid(r)
      BY <3>1, <3>2 DEF PageOf
    <3>4. rs[r] \in Row
      BY <1>1
    <3> QED
      BY <3>3, <3>4 DEF Row
  <2> HIDE DEF Laid
  <2>3. rs = [r \in 1..R |-> rs[r]]
    BY <1>1
  <2> QED
    BY <2>1, <2>2, <2>3
<1> QED
  BY <1>4, <1>5

-----------------------------------------------------------------------------
(* The dumps *)

AnyPacket == [protocol : Protocols, size : Nat, ihl : Nat, doff : Nat]

IPHeader(p) == Dump(0, 4 * p.ihl)
NextHeader(p) == Dump(4 * p.ihl, HeaderLength(p) - 4 * p.ihl)
Payload(p) == Dump(ethhdr + HeaderLength(p), p.size - (ethhdr + HeaderLength(p)))

\* A call of PrintData that has begun is on its page, and not beyond its end.
OnThePage ==
    /\ i \in Nat
    /\ dumps # <<>> => /\ Head(dumps).len \in Int
                       /\ i = 0 \/ i <= Head(dumps).len
                       /\ PageOf(rows, i, Head(dumps).len)

\* What has been shown is what the calls made so far had to show.
ShownSoFar ==
    LET A == 4 * pkt.ihl
        H == HeaderLength(pkt)
    IN  \/ /\ dumps = <<IPHeader(pkt), NextHeader(pkt), Payload(pkt)>>
           /\ shown = 0..i - 1
        \/ /\ dumps = <<NextHeader(pkt), Payload(pkt)>>
           /\ shown = 0..A + i - 1
        \/ /\ dumps = <<Payload(pkt)>>
           /\ shown = (0..H - 1) \union (ethhdr + H..ethhdr + H + i - 1)
        \/ /\ dumps = <<>>
           /\ shown = (0..H - 1) \union (ethhdr + H..pkt.size - 1)

DumpInv ==
    /\ pkt \in AnyPacket
    /\ OnThePage
    /\ IF pkt.protocol \in {TCP, UDP, ICMP}
       THEN ShownSoFar /\ IsFiniteSet(shown) /\ printed = Cardinality(shown)
       ELSE dumps = <<>>

\* A packet's lengths are numbers.
LEMMA HeaderTypes ==
  ASSUME NEW p \in AnyPacket
  PROVE  /\ p.ihl \in Nat /\ p.doff \in Nat /\ p.size \in Nat /\ p.protocol \in Protocols
         /\ HeaderLength(p) \in Nat /\ 4 * p.ihl <= HeaderLength(p)
<1>1. p.ihl \in Nat /\ p.doff \in Nat /\ p.size \in Nat /\ p.protocol \in Protocols
  BY DEF AnyPacket
<1> QED
  BY <1>1 DEF HeaderLength, pointer

\* Whatever the protocol, the three calls are laid out alike.
LEMMA DumpsAlike ==
  ASSUME NEW p \in AnyPacket
  PROVE  DumpsOf(p) = IF p.protocol \in {TCP, UDP, ICMP}
                      THEN <<IPHeader(p), NextHeader(p), Payload(p)>> ELSE <<>>
<1>1. p.ihl \in Nat /\ p.doff \in Nat /\ p.size \in Nat
  BY HeaderTypes
<1>2. CASE p.protocol = TCP
  <2>1. HeaderLength(p) = 4 * p.ihl + 4 * p.doff
    BY <1>2 DEF HeaderLength
  <2>2. /\ HeaderLength(p) - 4 * p.ihl = 4 * p.doff
        /\ ethhdr + HeaderLength(p) = ethhdr + 4 * p.ihl + 4 * p.doff
    BY <1>1, <2>1 DEF ethhdr
  <2>3. DumpsOf(p) = print_tcp_packet(p)
    BY <1>2 DEF DumpsOf, TCP, UDP, ICMP
  <2> QED
    BY <1>2, <2>2, <2>3 DEF print_tcp_packet, IPHeader, NextHeader, Payload
<1>3. CASE p.protocol \in {UDP, ICMP}
  <2>1. HeaderLength(p) = 4 * p.ihl + pointer
    BY <1>3 DEF HeaderLength, UDP, ICMP, TCP
  <2>2. /\ HeaderLength(p) - 4 * p.ihl = pointer
        /\ ethhdr + HeaderLength(p) = ethhdr + 4 * p.ihl + pointer
    BY <1>1, <2>1 DEF ethhdr, pointer
  <2>3. DumpsOf(p) = print_udp_packet(p) \/ DumpsOf(p) = print_icmp_packet(p)
    BY <1>3 DEF DumpsOf, UDP, ICMP, TCP
  <2> QED
    BY <1>3, <2>2, <2>3 DEF print_udp_packet, print_icmp_packet, IPHeader, NextHeader, Payload
<1>4. CASE p.protocol \notin {TCP, UDP, ICMP}
  BY <1>4 DEF DumpsOf
<1> QED
  BY <1>2, <1>3, <1>4

\* Whatever is received is such a packet.
LEMMA PacketsAreAny ==
  ASSUME NEW p \in Packets
  PROVE  p \in AnyPacket
<1>1. \A w \in 0..15 : w \in Nat
  OBVIOUS
<1>2. Sizes \subseteq Nat /\ Words \subseteq Nat
  BY <1>1, SizesAssumption, WordsAssumption
<1> QED
  BY <1>2 DEF Packets, AnyPacket

\* A call begins with an empty page.
LEMMA EmptyPage ==
  ASSUME NEW Size \in Int
  PROVE  PageOf(<<>>, 0, Size)
<1>1. <<>> \in Seq(Row) /\ Len(<<>>) = 0
  OBVIOUS
<1> QED
  BY <1>1 DEF PageOf, PerRow

\* The next call of PrintData is the first of those still to be made.
LEMMA Calls ==
  ASSUME NEW p \in AnyPacket
  PROVE  LET a == IPHeader(p)
             h == NextHeader(p)
             d == Payload(p)
         IN  /\ \A c \in {<<a, h, d>>, <<h, d>>, <<d>>} : c # <<>> /\ Head(c).len \in Int
             /\ Head(<<a, h, d>>) = a /\ Tail(<<a, h, d>>) = <<h, d>>
             /\ Head(<<h, d>>) = h /\ Tail(<<h, d>>) = <<d>>
             /\ Head(<<d>>) = d /\ Tail(<<d>>) = <<>>
<1>1. /\ IPHeader(p).len \in Int /\ NextHeader(p).len \in Int /\ Payload(p).len \in Int
  BY HeaderTypes DEF IPHeader, NextHeader, Payload, Dump, ethhdr
<1> QED
  BY <1>1

\* Nothing has been received.
LEMMA InitDumpInv == DumpInit => DumpInv
<1> SUFFICES ASSUME DumpInit PROVE DumpInv
  OBVIOUS
<1>1. pkt \in AnyPacket /\ pkt.protocol = Others
  BY DEF DumpInit, AnyPacket, Protocols
<1>2. OnThePage
  BY DEF DumpInit, OnThePage
<1> QED
  BY <1>1, <1>2 DEF DumpInit, DumpInv, Others, TCP, UDP, ICMP

\* Every step keeps the page: a packet or the end of a call clears it, a pass of the
\* loop adds a byte.
LEMMA StepOnThePage ==
  ASSUME DumpInv, [DumpNext]_dumpvars
  PROVE  OnThePage'
<1>t. pkt \in AnyPacket /\ OnThePage
  BY DEF DumpInv
<1>1. CASE process_packet
  <2>1. PICK p \in Packets : dumps' = DumpsOf(p) /\ i' = 0 /\ rows' = <<>>
    BY <1>1 DEF process_packet
  <2>2. p \in AnyPacket
    BY PacketsAreAny
  <2>3. dumps' # <<>> => Head(dumps').len \in Int
    BY <2>1, <2>2, DumpsAlike, Calls
  <2>4. dumps' # <<>> => PageOf(rows', 0, Head(dumps').len)
    BY <2>1, <2>3, EmptyPage
  <2> QED
    BY <2>1, <2>3, <2>4 DEF OnThePage
<1>2. CASE PrintByte
  <2> DEFINE L == Head(dumps).len
  <2>1. /\ dumps # <<>> /\ i < L /\ i' = i + 1 /\ dumps' = dumps
        /\ rows' = LastRowEnded(HexPrinted(RowBegun(RowEnded(rows))), L)
    BY <1>2 DEF PrintByte
  <2>2. i \in Nat /\ L \in Int /\ PageOf(rows, i, L)
    BY <1>t, <2>1 DEF OnThePage
  <2> HIDE DEF L
  <2>3. PageOf(rows', i + 1, L)
    BY <2>1, <2>2, PassPrintsByte
  <2>4. i + 1 <= L /\ i + 1 \in Nat
    BY <2>1, <2>2
  <2>5. L = Head(dumps') .len
    BY <2>1 DEF L
  <2> QED
    BY <2>1, <2>2, <2>3, <2>4, <2>5 DEF OnThePage
<1>3. CASE PrintEnds
  <2>1. dumps # <<>> /\ dumps' = Tail(dumps) /\ i' = 0 /\ rows' = <<>>
    BY <1>3 DEF PrintEnds
  <2>2. pkt.protocol \in {TCP, UDP, ICMP} /\ ShownSoFar
    BY <2>1 DEF DumpInv
  <2>3. dumps' # <<>> => Head(dumps').len \in Int
    BY <1>t, <2>1, <2>2, Calls DEF ShownSoFar
  <2>4. dumps' # <<>> => PageOf(rows', 0, Head(dumps').len)
    BY <2>1, <2>3, EmptyPage
  <2> QED
    BY <2>1, <2>3, <2>4 DEF OnThePage
<1>4. CASE UNCHANGED dumpvars
  BY <1>4, <1>t DEF dumpvars, OnThePage
<1> QED
  BY <1>1, <1>2, <1>3, <1>4 DEF DumpNext

\* A pass shows one byte that has not been shown.
LEMMA StepShown ==
  ASSUME DumpInv, [DumpNext]_dumpvars
  PROVE  /\ pkt' \in AnyPacket
         /\ IF pkt'.protocol \in {TCP, UDP, ICMP}
            THEN ShownSoFar' /\ IsFiniteSet(shown') /\ printed' = Cardinality(shown')
            ELSE dumps' = <<>>
<1> DEFINE A == 4 * pkt.ihl
           H == HeaderLength(pkt)
<1>t. pkt \in AnyPacket /\ i \in Nat
  BY DEF DumpInv, OnThePage
<1>h. A \in Nat /\ H \in Nat /\ A <= H /\ pkt.size \in Nat
  BY <1>t, HeaderTypes
<1>1. CASE process_packet
  <2>1. PICK p \in Packets :
          pkt' = p /\ dumps' = DumpsOf(p) /\ i' = 0 /\ shown' = {} /\ printed' = 0
    BY <1>1 DEF process_packet
  <2>2. p \in AnyPacket
    BY PacketsAreAny
  <2>3. CASE p.protocol \in {TCP, UDP, ICMP}
    <3>1. dumps' = <<IPHeader(p), NextHeader(p), Payload(p)>>
      BY <2>1, <2>2, <2>3, DumpsAlike
    <3>2. shown' = 0..i' - 1
      BY <2>1
    <3>3. ShownSoFar'
      BY <2>1, <3>1, <3>2 DEF ShownSoFar
    <3>4. IsFiniteSet({}) /\ Cardinality({}) = 0
      BY FS_EmptySet
    <3>5. pkt' \in AnyPacket /\ pkt'.protocol \in {TCP, UDP, ICMP}
      BY <2>1, <2>2, <2>3
    <3>6. IsFiniteSet(shown') /\ printed' = Cardinality(shown')
      BY <2>1, <3>4
    <3> QED
      BY <3>3, <3>5, <3>6
  <2>4. CASE p.protocol \notin {TCP, UDP, ICMP}
    BY <2>1, <2>2, <2>4, DumpsAlike
  <2> QED
    BY <2>3, <2>4
<1>2. CASE PrintByte
  <2>1. /\ dumps # <<>> /\ i < Head(dumps).len /\ UNCHANGED <<pkt, dumps>>
        /\ i' = i + 1 /\ shown' = shown \union {Head(dumps).from + i} /\ printed' = printed + 1
    BY <1>2 DEF PrintByte
  <2>2. /\ pkt.protocol \in {TCP, UDP, ICMP} /\ ShownSoFar
        /\ IsFiniteSet(shown) /\ printed = Cardinality(shown)
    BY <2>1 DEF DumpInv
  <2>3. ShownSoFar' /\ Head(dumps).from + i \notin shown
    <3>1. CASE /\ dumps = <<IPHeader(pkt), NextHeader(pkt), Payload(pkt)>>
               /\ shown = 0..i - 1
      <4>1. Head(dumps).from = 0
        BY <3>1 DEF IPHeader, Dump
      <4>2. shown' = 0..(i + 1) - 1 /\ Head(dumps).from + i \notin shown
        BY <1>t, <2>1, <3>1, <4>1
      <4> QED
        BY <2>1, <3>1, <4>2 DEF ShownSoFar
    <3>2. CASE dumps = <<NextHeader(pkt), Payload(pkt)>> /\ shown = 0..A + i - 1
      <4>1. Head(dumps).from = A
        BY <3>2 DEF NextHeader, Dump
      <4> HIDE DEF A
      <4>2. shown' = 0..A + (i + 1) - 1 /\ Head(dumps).from + i \notin shown
        <5>1. shown' = shown \union {A + i} /\ shown = 0..A + i - 1
          BY <2>1, <3>2, <4>1
        <5>2. 0..A + (i + 1) - 1 = (0..A + i - 1) \union {A + i}
          BY <1>t, <1>h
        <5>3. A + i \notin 0..A + i - 1
          BY <1>t, <1>h
        <5> QED
          BY <4>1, <5>1, <5>2, <5>3
      <4> QED
        BY <2>1, <3>2, <4>2 DEF ShownSoFar, A
    <3>3. CASE /\ dumps = <<Payload(pkt)>>
               /\ shown = (0..H - 1) \union (ethhdr + H..ethhdr + H + i - 1)
      <4>1. Head(dumps).from = ethhdr + H
        BY <3>3 DEF Payload, Dump
      <4> HIDE DEF H
      <4>2. /\ shown' = (0..H - 1) \union (ethhdr + H..ethhdr + H + (i + 1) - 1)
            /\ Head(dumps).from + i \notin shown
        BY <1>t, <1>h, <2>1, <3>3, <4>1 DEF ethhdr
      <4> QED
        BY <2>1, <3>3, <4>2 DEF ShownSoFar, H
    <3> QED
      BY <2>1, <2>2, <3>1, <3>2, <3>3 DEF ShownSoFar
  <2>4. IsFiniteSet(shown') /\ Cardinality(shown') = Cardinality(shown) + 1
    BY <2>1, <2>2, <2>3, FS_AddElement
  <2> QED
    BY <1>t, <2>1, <2>2, <2>3, <2>4
<1>3. CASE PrintEnds
  <2>1. /\ dumps # <<>> /\ i >= Head(dumps).len /\ UNCHANGED <<pkt, shown, printed>>
        /\ i' = 0 /\ dumps' = Tail(dumps)
    BY <1>3 DEF PrintEnds
  <2>2. /\ pkt.protocol \in {TCP, UDP, ICMP} /\ ShownSoFar
        /\ IsFiniteSet(shown) /\ printed = Cardinality(shown)
    BY <2>1 DEF DumpInv
  <2>3. i = 0 \/ i = Head(dumps).len
    BY <2>1 DEF DumpInv, OnThePage
  <2>4. ShownSoFar'
    <3>1. CASE /\ dumps = <<IPHeader(pkt), NextHeader(pkt), Payload(pkt)>>
               /\ shown = 0..i - 1
      <4>1. Head(dumps).len = A
        BY <3>1 DEF IPHeader, Dump
      <4>2. dumps' = <<NextHeader(pkt), Payload(pkt)>>
        BY <2>1, <3>1
      <4> HIDE DEF A
      <4>3. shown' = 0..A + 0 - 1
        BY <1>t, <1>h, <2>1, <2>3, <3>1, <4>1
      <4> QED
        BY <2>1, <4>2, <4>3 DEF ShownSoFar, A
    <3>2. CASE dumps = <<NextHeader(pkt), Payload(pkt)>> /\ shown = 0..A + i - 1
      <4>1. Head(dumps).len = H - A
        BY <3>2 DEF NextHeader, Dump
      <4>2. dumps' = <<Payload(pkt)>>
        BY <2>1, <3>2
      <4> HIDE DEF A, H
      <4>3. A + i = H
        BY <1>t, <1>h, <2>1, <2>3, <4>1
      <4>4. shown' = (0..H - 1) \union (ethhdr + H..ethhdr + H + 0 - 1)
        <5>1. ethhdr + H..ethhdr + H + 0 - 1 = {}
          BY <1>h DEF ethhdr
        <5>2. shown' = 0..A + i - 1
          BY <2>1, <3>2
        <5>3. A + i - 1 = H - 1
          BY <1>t, <1>h, <4>3
        <5> QED
          BY <5>1, <5>2, <5>3
      <4> QED
        BY <2>1, <4>2, <4>4 DEF ShownSoFar, H
    <3>3. CASE /\ dumps = <<Payload(pkt)>>
               /\ shown = (0..H - 1) \union (ethhdr + H..ethhdr + H + i - 1)
      <4>1. Head(dumps).len = pkt.size - (ethhdr + H)
        BY <3>3 DEF Payload, Dump
      <4>2. dumps' = <<>>
        BY <2>1, <3>3
      <4> HIDE DEF H
      <4>3. shown' = (0..H - 1) \union (ethhdr + H..pkt.size - 1)
        BY <1>t, <1>h, <2>1, <2>3, <3>3, <4>1 DEF ethhdr
      <4> QED
        BY <2>1, <4>2, <4>3 DEF ShownSoFar, H
    <3> QED
      BY <2>1, <2>2, <3>1, <3>2, <3>3 DEF ShownSoFar
  <2> QED
    BY <1>t, <2>1, <2>2, <2>4
<1>4. CASE UNCHANGED dumpvars
  BY <1>4, <1>t DEF dumpvars, DumpInv, ShownSoFar
<1> QED
  BY <1>1, <1>2, <1>3, <1>4 DEF DumpNext

\* A call that has come to its end has filled its page.
LEMMA EndedPage == DumpInv => PageComplete
<1> SUFFICES ASSUME DumpInv, dumps # <<>>, i >= Head(dumps).len
             PROVE  rows = RowsOf(Head(dumps).len)
  BY DEF PageComplete
<1> DEFINE L == Head(dumps).len
<1>1. i \in Nat /\ L \in Int /\ (i = 0 \/ i <= L) /\ PageOf(rows, i, L) /\ i >= L
  BY DEF DumpInv, OnThePage
<1> HIDE DEF L
<1>2. CASE L < 0
  <2>1. i = 0
    BY <1>1, <1>2
  <2>2. rows \in Seq(Row) /\ 16 * Len(rows) < i + 16
    BY <1>1 DEF PageOf, PerRow
  <2>3. Len(rows) = 0
    BY <2>1, <2>2
  <2>4. rows = <<>>
    BY <2>2, <2>3
  <2>5. L <= 0
    BY <1>1, <1>2
  <2>6. RowsOf(L) = <<>>
    BY <2>5 DEF RowsOf
  <2> QED
    BY <2>4, <2>6 DEF L
<1>3. CASE L >= 0
  <2>1. i = L
    BY <1>1, <1>3
  <2> QED
    BY <1>1, <2>1, PageOfAll DEF L
<1> QED
  BY <1>1, <1>2, <1>3

\* A packet whose three calls have ended is covered.
LEMMA DumpedPacket == DumpInv => DumpsCoverPacket
<1> SUFFICES ASSUME DumpInv, dumps = <<>>, pkt.protocol \in {TCP, UDP, ICMP}
             PROVE  DumpsCoverPacket
  BY DEF DumpsCoverPacket
<1> DEFINE H == HeaderLength(pkt)
<1>1. H \in Nat /\ pkt.size \in Nat
  BY HeaderTypes DEF DumpInv
<1>2. shown = (0..H - 1) \union (ethhdr + H..pkt.size - 1) /\ printed = Cardinality(shown)
  BY DEF DumpInv, ShownSoFar
<1> HIDE DEF H
<1>3. (0..pkt.size - 1) \ shown \subseteq H..H + ethhdr - 1
  BY <1>1, <1>2 DEF ethhdr
<1>4. shown \ (0..pkt.size - 1) # {} => H > pkt.size
  BY <1>1, <1>2 DEF ethhdr
<1> QED
  BY <1>2, <1>3, <1>4 DEF H, DumpsCoverPacket

\* The invariant of the packet printers holds for packets of any sizes whose
\* headers claim any lengths that fit their fields.
THEOREM DumpInvariant == DumpSpec => []DumpInv
<1>1. DumpInv /\ [DumpNext]_dumpvars => DumpInv'
  BY StepOnThePage, StepShown DEF DumpInv
<1> QED
  BY InitDumpInv, <1>1, PTL DEF DumpSpec

\* PrintData, which keeps track of rows by remainders of its loop variable
\* (packet_printer.cpp:51-95), lays out any number of bytes sixteen to a row and the
\* rest in the last, each row with its text: also a multiple of sixteen, one byte,
\* none, and the negative length of a packet shorter than it claims.
THEOREM EveryPageIsComplete == DumpSpec => []PageComplete
  BY DumpInvariant, EndedPage, PTL

\* The three dumps of a packet never show a byte twice, and leave out at most the
\* length of an Ethernet header in front of the payload (filename.cpp:196).
THEOREM EveryPacketIsCovered == DumpSpec => []DumpsCoverPacket
  BY DumpInvariant, DumpedPacket, PTL

=============================================================================
