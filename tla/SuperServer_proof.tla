-------------------------- MODULE SuperServer_proof --------------------------
(***************************************************************************)
(* Theorems about SuperServer: for any number of services and clients, who   *)
(* answers whom.                                                             *)
(***************************************************************************)
EXTENDS SuperServer, WellFoundedInduction, SequenceTheorems, FiniteSetTheorems, TLAPS

\* What ISS has in its hands: a port while it adopts it, a client while it
\* passes it on, and then the entry it looks at is of the client's service.
InHand ==
    /\ ipc \in {"bind", "connect"} => cur \in Ports
    /\ ipc = "pass" => /\ Index \in 1 .. Len(slots)
                       /\ cur \in Clients
                       /\ PortOf[cur] = slots[Index]

\* Everybody on the way to a server called its port.
OfPort(s, p) == \A i \in 1 .. Len(s) : PortOf[s[i]] = p

OnTheWay == \A p \in Ports : OfPort(backlog[p], p) /\ OfPort(fds[p], p)

FirstClient ==
    \A p \in Ports : spc[p] \in {"close", "first"} =>
        first[p] \in Clients /\ PortOf[first[p]] = p

ServiceInv == TypeOK /\ InHand /\ OnTheWay /\ FirstClient /\ ServedByOwnServer

-----------------------------------------------------------------------------
\* The loop over PFD looks at the least entry that is left.
LEMMA IndexInTodo ==
  ASSUME TypeOK, todo # {}
  PROVE  Index \in todo
<1>1. todo \subseteq Nat
  BY DEF TypeOK
<1> DEFINE LessThan == {ss \in Nat \X Nat : ss[1] < ss[2]}
<1>2. IsWellFoundedOn(LessThan, Nat)
  BY NatLessThanWellFounded, Zenon DEF OpToRel
<1>3. PICK i \in todo : \A j \in todo : ~(<<j, i>> \in LessThan)
  <2> HIDE DEF LessThan
  <2> QED
    BY <1>1, <1>2, WFMin
<1>4. ASSUME NEW j \in todo
      PROVE  i <= j
  <2>1. i \in Nat /\ j \in Nat
    BY <1>1
  <2>2. j < i => <<j, i>> \in LessThan
    BY <2>1, Zenon
  <2> HIDE DEF LessThan
  <2>3. ~(j < i)
    BY <1>3, <2>2
  <2> QED
    BY <2>1, <2>3
<1> QED
  BY <1>4 DEF Index

\* And an entry above 0 is a service.
LEMMA IndexIsSlot ==
  ASSUME TypeOK, todo # {}, Index > 0
  PROVE  Index \in 1 .. Len(slots) /\ slots[Index] \in Ports
<1>1. Index \in todo
  BY IndexInTodo
<1>2. todo \subseteq 0 .. Len(slots) /\ Len(slots) \in Nat /\ slots \in Seq(Ports)
  BY DEF TypeOK
<1>3. Index \in 1 .. Len(slots)
  BY <1>1, <1>2
<1> QED
  BY <1>2, <1>3, ElementOfSeq

\* Taking from a queue and adding to it.
LEMMA Taken ==
  ASSUME NEW S, NEW s \in Seq(S), s # <<>>
  PROVE  Head(s) \in S /\ Tail(s) \in Seq(S)
  OBVIOUS

LEMMA Added ==
  ASSUME NEW S, NEW s \in Seq(S), NEW e \in S
  PROVE  Append(s, e) \in Seq(S)
  OBVIOUS

\* Queues of clients of one port stay so when one is taken or one is added.
LEMMA OfPortTail ==
  ASSUME NEW s \in Seq(Clients), s # <<>>, NEW p, OfPort(s, p)
  PROVE  /\ Tail(s) \in Seq(Clients) /\ OfPort(Tail(s), p)
         /\ Head(s) \in Clients /\ PortOf[Head(s)] = p
  BY HeadTailProperties DEF OfPort

LEMMA OfPortAppend ==
  ASSUME NEW s \in Seq(Clients), NEW p, OfPort(s, p), NEW c \in Clients, PortOf[c] = p
  PROVE  Append(s, c) \in Seq(Clients) /\ OfPort(Append(s, c), p)
  BY AppendProperties DEF OfPort

\* Nobody is on the way to a server before the programs run.
LEMMA InitServiceInv == Init => ServiceInv
<1> SUFFICES ASSUME Init PROVE ServiceInv
  OBVIOUS
<1>1. <<>> \in Seq(Clients) /\ <<>> \in Seq(Ports)
  OBVIOUS
<1>2. TypeOK
  BY <1>1 DEF Init, TypeOK
<1>3. OnTheWay
  BY DEF Init, OnTheWay, OfPort
<1> QED
  BY <1>2, <1>3 DEF Init, ServiceInv, InHand, FirstClient, ServedByOwnServer

-----------------------------------------------------------------------------
\* ISS's exit and the kernel's closing of its sockets keep the types.
LEMMA ExitTypes ==
  ASSUME TypeOK, IssExit
  PROVE  TypeOK'
<1>1. ipc' = "exited" /\ todo' = {} /\ cur' = Nobody /\ tstream' = <<>>
  BY DEF IssExit
<1>2. owner' \in [Ports -> {"none", "server", "iss"}]
  BY DEF TypeOK, IssExit
<1>3. backlog' \in [Ports -> Seq(Clients)]
  BY DEF TypeOK, IssExit
<1>4. cst' \in [Clients -> {"idle", "waiting", "refused", "reset", "hung", "served"}]
  BY DEF TypeOK, IssExit
<1>5. UNCHANGED <<unixOpen, unixConn, fds, servervars, by, heard, sniffing,
                  syns, store, slots, garbled>>
  BY DEF IssExit
<1> QED
  BY <1>1, <1>2, <1>3, <1>4, <1>5 DEF TypeOK, servervars

\* Every step keeps the types.
LEMMA StepTypes ==
  ASSUME TypeOK, InHand, FirstClient, [Next]_vars
  PROVE  TypeOK'
<1> USE PortOfAssumption DEF TypeOK, kernelvars, servervars, clientvars,
                             sniffvars, issvars
<1>1. ASSUME NEW c \in Clients, Connect(c)
      PROVE  TypeOK'
  <2>1. PortOf[c] \in Ports
    OBVIOUS
  <2>2. syns' \in Seq(Ports)
    BY <1>1, <2>1, Added DEF Connect
  <2>3. backlog' \in [Ports -> Seq(Clients)]
    <3>1. Append(backlog[PortOf[c]], c) \in Seq(Clients)
      BY <2>1, Added
    <3> QED
      BY <1>1, <2>1, <3>1 DEF Connect
  <2> QED
    BY <1>1, <2>2, <2>3 DEF Connect
<1>2. ASSUME NEW p \in Ports, ServerStart(p)
      PROVE  TypeOK'
  BY <1>2 DEF ServerStart
<1>3. ASSUME NEW p \in Ports, ServerStep(p)
      PROVE  TypeOK'
  <2>1. CASE ServerBind(p)
    BY <1>3, <2>1 DEF ServerBind
  <2>2. CASE ServerBindFails(p)
    BY <1>3, <2>2 DEF ServerBindFails
  <2>3. CASE ServerAccept(p)
    <3>1. Head(backlog[p]) \in Clients /\ Tail(backlog[p]) \in Seq(Clients)
      BY <2>3, Taken DEF ServerAccept
    <3> QED
      BY <2>3, <3>1 DEF ServerAccept
  <2>4. CASE ServerClose(p)
    BY <1>3, <2>4 DEF ServerClose
  <2>5. CASE ServerFirst(p)
    BY <1>3, <2>5 DEF FirstClient, ServerFirst, Serve
  <2>6. CASE ServerHandoff(p)
    BY <1>3, <2>6 DEF ServerHandoff
  <2>7. CASE ServerLoop(p)
    <3>1. Head(fds[p]) \in Clients /\ Tail(fds[p]) \in Seq(Clients)
      BY <2>7, Taken DEF ServerLoop
    <3>2. fds' \in [Ports -> Seq(Clients)]
      BY <2>7, <3>1 DEF ServerLoop
    <3> QED
      BY <2>7, <3>1, <3>2 DEF ServerLoop, Serve
  <2> QED
    BY <1>3, <2>1, <2>2, <2>3, <2>4, <2>5, <2>6, <2>7 DEF ServerStep
<1>4. CASE SnifferStart
  BY <1>4 DEF SnifferStart
<1>5. CASE Sniff
  <2>1. Head(syns) \in Ports /\ Tail(syns) \in Seq(Ports)
    BY <1>5, Taken DEF Sniff
  <2>2. store' \in Seq(Ports) /\ tstream' \in Seq(Ports)
    <3>1. Append(store, Head(syns)) \in Seq(Ports) /\ Append(tstream, Head(syns)) \in Seq(Ports)
      BY <2>1, Added
    <3>2. \/ store' = store /\ tstream' = tstream
          \/ store' = Append(store, Head(syns)) /\ tstream' \in {tstream, Append(tstream, Head(syns))}
      BY <1>5 DEF Sniff
    <3> QED
      BY <3>1, <3>2
  <2>3. heard' \in [Clients -> SUBSET Ports]
    <3>1. CASE heard' = heard
      BY <3>1
    <3>2. CASE heard' = [c \in Clients |->
                           IF cst[c] = "served" /\ store # <<>>
                           THEN heard[c] \cup {Head(syns)} ELSE heard[c]]
      BY <2>1, <3>2
    <3> QED
      BY <1>5, <3>1, <3>2 DEF Sniff
  <2> QED
    BY <1>5, <2>1, <2>2, <2>3 DEF Sniff
<1>6. CASE SniffKilled
  <2>1. <<>> \in Seq(Ports)
    OBVIOUS
  <2> QED
    BY <1>6, <2>1 DEF SniffKilled
<1>7. CASE IssStart
  BY <1>7 DEF IssStart
<1>8. CASE IssStep
  <2>1. CASE IssPoll
    <3>1. Ready \subseteq 0 .. Len(slots)
      BY DEF Ready
    <3> QED
      BY <2>1, <3>1 DEF IssPoll
  <2>2. CASE IssRecv
    <3>1. Head(tstream) \in Ports /\ Tail(tstream) \in Seq(Ports)
      BY <2>2, Taken DEF IssRecv
    <3> QED
      BY <2>2, <3>1 DEF IssRecv
  <2>3. CASE IssBind
    BY <1>8, <2>3 DEF InHand, IssBind
  <2>4. CASE IssBindFails
    BY <2>4, ExitTypes DEF IssBindFails
  <2>5. CASE IssConnect
    <3>1. cur \in Ports
      BY <2>5 DEF InHand, IssConnect
    <3>2. slots' \in Seq(Ports) /\ Len(slots') = Len(slots) + 1
      BY <2>5, <3>1, AppendProperties DEF IssConnect
    <3>3. todo' \subseteq 0 .. Len(slots')
      <4>1. todo' = todo \/ todo' = todo \cup {Len(slots) + 1}
        BY <2>5 DEF IssConnect
      <4>2. Len(slots) \in Nat /\ todo \subseteq 0 .. Len(slots)
        OBVIOUS
      <4> HIDE DEF TypeOK
      <4>3. ASSUME NEW i \in todo'
            PROVE  i \in 0 .. Len(slots) + 1
        <5>1. i \in todo \/ i = Len(slots) + 1
          BY <4>1
        <5>2. i \in 0 .. Len(slots) \/ i = Len(slots) + 1
          BY <4>2, <5>1
        <5> QED
          BY <4>2, <5>2
      <4> QED
        BY <3>2, <4>3
    <3>4. garbled' \in BOOLEAN
      BY <2>5 DEF IssConnect
    <3> QED
      BY <2>5, <3>2, <3>3, <3>4 DEF IssConnect
  <2>6. CASE IssConnectFails
    BY <2>6, ExitTypes DEF IssConnectFails
  <2>7. CASE IssAccept
    <3>1. slots[Index] \in Ports
      BY <2>7, IndexIsSlot DEF IssAccept
    <3>2. backlog[slots[Index]] \in Seq(Clients) /\ backlog[slots[Index]] # <<>>
      BY <2>7, <3>1 DEF IssAccept
    <3>3. /\ Head(backlog[slots[Index]]) \in Clients
          /\ Tail(backlog[slots[Index]]) \in Seq(Clients)
      BY <3>2, Taken
    <3> QED
      BY <2>7, <3>1, <3>3 DEF IssAccept
  <2>8. CASE IssPass
    <3>1. slots[Index] \in Ports /\ cur \in Clients
      BY <2>8 DEF IssPass, InHand
    <3>2. Append(fds[slots[Index]], cur) \in Seq(Clients)
      BY <3>1, Added
    <3> QED
      BY <2>8, <3>1, <3>2 DEF IssPass, Usfds
  <2>9. CASE IssKilled
    BY <2>9, ExitTypes DEF IssKilled
  <2> QED
    BY <1>8, <2>1, <2>2, <2>3, <2>4, <2>5, <2>6, <2>7, <2>8, <2>9 DEF IssStep
<1>9. CASE UNCHANGED vars
  BY <1>9 DEF vars
<1> QED
  BY <1>1, <1>2, <1>3, <1>4, <1>5, <1>6, <1>7, <1>8, <1>9 DEF Next

-----------------------------------------------------------------------------
\* Every step keeps who is on the way to whom.  IssAccept is the step that
\* relies on the arrays being aligned: the entry it takes a client from is the
\* entry IssPass finds the server by.
LEMMA StepOnTheWay ==
  ASSUME ServiceInv, [Next]_vars
  PROVE  OnTheWay'
<1> USE PortOfAssumption DEF ServiceInv, kernelvars, servervars, clientvars,
                             sniffvars, issvars
<1>t. /\ backlog \in [Ports -> Seq(Clients)] /\ fds \in [Ports -> Seq(Clients)]
      /\ backlog' \in [Ports -> Seq(Clients)] /\ fds' \in [Ports -> Seq(Clients)]
  BY StepTypes DEF TypeOK
<1>e. \A p \in Ports : OfPort(<<>>, p)
  BY DEF OfPort
<1>u. UNCHANGED <<backlog, fds>> => OnTheWay'
  BY DEF OnTheWay
<1>1. ASSUME NEW c \in Clients, Connect(c)
      PROVE  OnTheWay'
  <2>1. \/ UNCHANGED backlog
        \/ backlog' = [backlog EXCEPT ![PortOf[c]] = Append(@, c)]
    BY <1>1 DEF Connect
  <2>2. PortOf[c] \in Ports /\ UNCHANGED fds
    BY <1>1 DEF Connect
  <2>3. OfPort(Append(backlog[PortOf[c]], c), PortOf[c])
    BY <1>t, <2>2, OfPortAppend DEF OnTheWay
  <2> QED
    BY <1>t, <2>1, <2>2, <2>3 DEF OnTheWay
<1>2. ASSUME NEW p \in Ports, ServerStart(p)
      PROVE  OnTheWay'
  BY <1>2, <1>u DEF ServerStart
<1>3. ASSUME NEW p \in Ports, ServerStep(p)
      PROVE  OnTheWay'
  <2>1. CASE ServerBind(p)
    BY <2>1, <1>u DEF ServerBind
  <2>2. CASE ServerBindFails(p)
    BY <2>2, <1>t, <1>e DEF ServerBindFails, OnTheWay
  <2>3. CASE ServerAccept(p)
    <3>1. OfPort(Tail(backlog[p]), p)
      BY <2>3, <1>t, OfPortTail DEF ServerAccept, OnTheWay
    <3> QED
      BY <2>3, <1>t, <3>1 DEF ServerAccept, OnTheWay
  <2>4. CASE ServerClose(p)
    BY <2>4, <1>t, <1>e DEF ServerClose, OnTheWay
  <2>5. CASE ServerFirst(p)
    BY <2>5, <1>u DEF ServerFirst
  <2>6. CASE ServerHandoff(p)
    BY <2>6, <1>u DEF ServerHandoff
  <2>7. CASE ServerLoop(p)
    <3>1. OfPort(Tail(fds[p]), p)
      BY <2>7, <1>t, OfPortTail DEF ServerLoop, OnTheWay
    <3> QED
      BY <2>7, <1>t, <3>1 DEF ServerLoop, OnTheWay
  <2> QED
    BY <1>3, <2>1, <2>2, <2>3, <2>4, <2>5, <2>6, <2>7 DEF ServerStep
<1>4. CASE SnifferStart
  BY <1>4, <1>u DEF SnifferStart
<1>5. CASE Sniff
  BY <1>5, <1>u DEF Sniff
<1>6. CASE SniffKilled
  BY <1>6, <1>u DEF SniffKilled
<1>7. CASE IssStart
  BY <1>7, <1>u DEF IssStart
<1>8. CASE IssStep
  <2>1. CASE IssPoll
    BY <2>1, <1>u DEF IssPoll
  <2>2. CASE IssRecv
    BY <2>2, <1>u DEF IssRecv
  <2>3. CASE IssBind
    BY <2>3, <1>u DEF IssBind
  <2>4. ASSUME IssExit
        PROVE  OnTheWay'
    BY <2>4, <1>t, <1>e DEF IssExit, OnTheWay
  <2>5. CASE IssConnect
    BY <2>5, <1>u DEF IssConnect
  <2>6. CASE IssAccept
    <3>1. slots[Index] \in Ports
      BY <2>6, IndexIsSlot DEF IssAccept
    <3>2. OfPort(Tail(backlog[slots[Index]]), slots[Index])
      BY <2>6, <1>t, <3>1, OfPortTail DEF IssAccept, OnTheWay
    <3> QED
      BY <2>6, <1>t, <3>1, <3>2 DEF IssAccept, OnTheWay
  <2>7. CASE IssPass
    <3>1. cur \in Clients /\ PortOf[cur] = slots[Index] /\ slots[Index] \in Ports
      BY <2>7 DEF IssPass, InHand
    <3>2. OfPort(Append(fds[slots[Index]], cur), slots[Index])
      BY <1>t, <3>1, OfPortAppend DEF OnTheWay
    <3> QED
      BY <2>7, <1>t, <3>1, <3>2 DEF IssPass, Usfds, OnTheWay
  <2> QED
    BY <1>8, <2>1, <2>2, <2>3, <2>4, <2>5, <2>6, <2>7
    DEF IssStep, IssBindFails, IssConnectFails, IssKilled
<1>9. CASE UNCHANGED vars
  BY <1>9, <1>u DEF vars
<1> QED
  BY <1>1, <1>2, <1>3, <1>4, <1>5, <1>6, <1>7, <1>8, <1>9 DEF Next

\* The three parts of the invariant about one process each.
LEMMA StepInHand ==
  ASSUME ServiceInv, [Next]_vars
  PROVE  InHand'
<1> USE DEF ServiceInv
<1>u. UNCHANGED issvars => InHand'
  BY DEF issvars, InHand, Index
<1>1. ASSUME NEW c \in Clients, Connect(c)
      PROVE  UNCHANGED issvars
  BY <1>1 DEF Connect
<1>2. ASSUME NEW p \in Ports, ServerStart(p) \/ ServerStep(p)
      PROVE  UNCHANGED issvars
  BY <1>2 DEF ServerStart, ServerStep, ServerBind, ServerBindFails, ServerAccept,
              ServerClose, ServerFirst, ServerHandoff, ServerLoop
<1>3. CASE SnifferStart
  BY <1>3 DEF SnifferStart, InHand
<1>4. CASE Sniff \/ SniffKilled
  BY <1>4, <1>u DEF Sniff, SniffKilled
<1>5. CASE IssStart
  BY <1>5 DEF IssStart, InHand
<1>6. CASE IssStep
  <2>1. CASE IssPoll
    BY <2>1 DEF IssPoll, InHand
  <2>2. CASE IssRecv
    <3>1. Head(tstream) \in Ports
      BY <2>2, Taken DEF IssRecv, TypeOK
    <3> QED
      BY <2>2, <3>1 DEF IssRecv, InHand
  <2>3. CASE IssBind
    BY <2>3 DEF IssBind, InHand
  <2>4. ASSUME IssExit
        PROVE  InHand'
    BY <2>4 DEF IssExit, InHand
  <2>5. CASE IssConnect
    BY <2>5 DEF IssConnect, InHand
  <2>6. CASE IssAccept
    <3>1. Index \in 1 .. Len(slots) /\ slots[Index] \in Ports
      BY <2>6, IndexIsSlot DEF IssAccept
    <3>2. /\ backlog[slots[Index]] \in Seq(Clients) /\ backlog[slots[Index]] # <<>>
          /\ OfPort(backlog[slots[Index]], slots[Index])
      BY <2>6, <3>1 DEF IssAccept, OnTheWay, TypeOK
    <3>3. cur' \in Clients /\ PortOf[cur'] = slots[Index]
      BY <2>6, <3>2, OfPortTail DEF IssAccept
    <3>4. ipc' = "pass" /\ slots' = slots /\ Index' = Index
      BY <2>6 DEF IssAccept, Index
    <3> QED
      BY <3>1, <3>3, <3>4 DEF InHand
  <2>7. CASE IssPass
    BY <2>7 DEF IssPass, InHand
  <2> QED
    BY <1>6, <2>1, <2>2, <2>3, <2>4, <2>5, <2>6, <2>7
    DEF IssStep, IssBindFails, IssConnectFails, IssKilled
<1>7. CASE UNCHANGED vars
  BY <1>7, <1>u DEF vars
<1> QED
  BY <1>u, <1>1, <1>2, <1>3, <1>4, <1>5, <1>6, <1>7 DEF Next

LEMMA StepFirstClient ==
  ASSUME ServiceInv, [Next]_vars
  PROVE  FirstClient'
<1> USE DEF ServiceInv
<1>u. UNCHANGED servervars => FirstClient'
  BY DEF servervars, FirstClient
<1>t. spc \in [Ports -> {"down", "bind", "accept", "close", "first", "handoff", "loop", "exited"}]
      /\ first \in [Ports -> Clients \cup {Nobody}]
  BY DEF TypeOK
<1>1. ASSUME NEW p \in Ports, ServerStart(p) \/ ServerStep(p)
      PROVE  FirstClient'
  <2>1. CASE ServerStart(p)
    BY <2>1, <1>t DEF ServerStart, FirstClient
  <2>2. CASE ServerBind(p)
    BY <2>2, <1>t DEF ServerBind, FirstClient
  <2>3. CASE ServerBindFails(p)
    BY <2>3, <1>t DEF ServerBindFails, FirstClient
  <2>4. CASE ServerAccept(p)
    <3>1. Head(backlog[p]) \in Clients /\ PortOf[Head(backlog[p])] = p
      BY <2>4, OfPortTail DEF ServerAccept, OnTheWay, TypeOK
    <3> QED
      BY <2>4, <1>t, <3>1 DEF ServerAccept, FirstClient
  <2>5. CASE ServerClose(p)
    BY <2>5, <1>t DEF ServerClose, FirstClient
  <2>6. CASE ServerFirst(p)
    BY <2>6, <1>t DEF ServerFirst, FirstClient
  <2>7. CASE ServerHandoff(p)
    BY <2>7, <1>t DEF ServerHandoff, FirstClient
  <2>8. CASE ServerLoop(p)
    BY <2>8, <1>u DEF ServerLoop
  <2> QED
    BY <1>1, <2>1, <2>2, <2>3, <2>4, <2>5, <2>6, <2>7, <2>8 DEF ServerStep
<1>2. CASE IssStep
  BY <1>2, <1>u DEF IssStep, IssPoll, IssRecv, IssBind, IssBindFails, IssConnect,
                    IssConnectFails, IssAccept, IssPass, IssKilled, IssExit
<1>3. CASE UNCHANGED vars
  BY <1>3, <1>u DEF vars
<1> QED
  BY <1>u, <1>1, <1>2, <1>3
  DEF Next, Connect, SnifferStart, Sniff, SniffKilled, IssStart

LEMMA StepServed ==
  ASSUME ServiceInv, [Next]_vars
  PROVE  ServedByOwnServer'
<1> USE DEF ServiceInv
<1>t. cst \in [Clients -> {"idle", "waiting", "refused", "reset", "hung", "served"}]
      /\ by \in [Clients -> Ports \cup {Nobody}]
  BY DEF TypeOK
<1>u. (/\ UNCHANGED by
       /\ \A c \in Clients : cst'[c] = "served" => cst[c] = "served")
      => ServedByOwnServer'
  BY DEF ServedByOwnServer
<1>s. ASSUME NEW c \in Clients, NEW p \in Ports, Serve(c, p), PortOf[c] = p
      PROVE  ServedByOwnServer'
  BY <1>t, <1>s DEF Serve, ServedByOwnServer
<1>1. ASSUME NEW c \in Clients, Connect(c)
      PROVE  ServedByOwnServer'
  BY <1>1, <1>t, <1>u DEF Connect
<1>2. ASSUME NEW p \in Ports, ServerStart(p) \/ ServerStep(p)
      PROVE  ServedByOwnServer'
  <2>1. CASE ServerBindFails(p)
    BY <2>1, <1>t, <1>u DEF ServerBindFails
  <2>2. CASE ServerClose(p)
    BY <2>2, <1>t, <1>u DEF ServerClose
  <2>3. CASE ServerFirst(p)
    BY <2>3, <1>s DEF ServerFirst, FirstClient
  <2>4. CASE ServerLoop(p)
    <3>1. Head(fds[p]) \in Clients /\ PortOf[Head(fds[p])] = p
      BY <2>4, OfPortTail DEF ServerLoop, OnTheWay, TypeOK
    <3> QED
      BY <2>4, <3>1, <1>s DEF ServerLoop
  <2>5. CASE ServerStart(p) \/ ServerBind(p) \/ ServerAccept(p) \/ ServerHandoff(p)
    BY <2>5, <1>u DEF ServerStart, ServerBind, ServerAccept, ServerHandoff, clientvars
  <2> QED
    BY <1>2, <2>1, <2>2, <2>3, <2>4, <2>5 DEF ServerStep
<1>3. CASE SnifferStart \/ Sniff \/ SniffKilled \/ IssStart
  BY <1>3, <1>u DEF SnifferStart, Sniff, SniffKilled, IssStart, clientvars
<1>4. CASE IssStep
  <2>1. ASSUME IssExit
        PROVE  ServedByOwnServer'
    BY <2>1, <1>t, <1>u DEF IssExit
  <2>2. CASE IssPoll \/ IssRecv \/ IssBind \/ IssConnect \/ IssAccept \/ IssPass
    BY <2>2, <1>u DEF IssPoll, IssRecv, IssBind, IssConnect, IssAccept, IssPass, clientvars
  <2> QED
    BY <1>4, <2>1, <2>2 DEF IssStep, IssBindFails, IssConnectFails, IssKilled
<1>5. CASE UNCHANGED vars
  BY <1>5, <1>u DEF vars, clientvars
<1> QED
  BY <1>1, <1>2, <1>3, <1>4, <1>5 DEF Next

-----------------------------------------------------------------------------
\* Types, queues and hands in every reachable state.
THEOREM ServiceInvariant == Spec => []ServiceInv
<1>1. Init => ServiceInv
  BY InitServiceInv
<1>2. ServiceInv /\ [Next]_vars => ServiceInv'
  BY StepTypes, StepOnTheWay, StepInHand, StepFirstClient, StepServed DEF ServiceInv
<1> QED
  BY <1>1, <1>2, PTL DEF Spec

\* The types of the super-server's world.
THEOREM TypeCorrect == Spec => []TypeOK
  BY ServiceInvariant, PTL DEF ServiceInv

\* Whoever is answered is answered by the server whose port it called, for any
\* number of services and clients and in whatever order ports are adopted
\* (ISS.c:182-241).
THEOREM OwnServer == Spec => []ServedByOwnServer
  BY ServiceInvariant, PTL DEF ServiceInv

-----------------------------------------------------------------------------
(* Who holds a port, and where a waiting client is *)

Distinct(s) == \A i, j \in 1 .. Len(s) : s[i] = s[j] => i = j

\* A port belongs to its server until the server closes it, to ISS from bind
\* to exit.
PortsHeld ==
    /\ \A p \in Ports : spc[p] \in {"accept", "close"} <=> owner[p] = "server"
    /\ ipc # "exited" => \A i \in 1 .. Len(slots) : owner[slots[i]] = "iss"
    /\ ipc = "connect" => owner[cur] = "iss"

\* What T has reported it has stored, and ISS holds it once: still to be read,
\* in its hands or in its arrays.
ReportedOnce ==
    /\ Distinct(slots) /\ Distinct(tstream)
    /\ \A p \in Ports : Contains(slots, p) => Contains(store, p) /\ ~Contains(tstream, p)
    /\ \A p \in Ports : Contains(tstream, p) => Contains(store, p)
    /\ ipc \in {"bind", "connect"} =>
          /\ Contains(store, cur) /\ ~Contains(slots, cur) /\ ~Contains(tstream, cur)

\* Hands that hold nothing are empty.
EmptyHands ==
    /\ ipc = "exited" => todo = {}
    /\ ipc \notin {"bind", "connect", "pass"} => cur = Nobody
    /\ \A p \in Ports : spc[p] \notin {"close", "first"} => first[p] = Nobody

QueuesDistinct == \A p \in Ports : Distinct(backlog[p]) /\ Distinct(fds[p])

\* The places of a client that waits: one of them, for its port.
Backlogged(c) == Contains(backlog[PortOf[c]], c)
IsFirst(c) == first[PortOf[c]] = c
Passed(c) == Contains(fds[PortOf[c]], c)
Accepted(c) == cur = c

WaitsInOnePlace(c) ==
    /\ cst[c] = "waiting" <=> Backlogged(c) \/ IsFirst(c) \/ Passed(c) \/ Accepted(c)
    /\ Backlogged(c) => ~IsFirst(c) /\ ~Passed(c) /\ ~Accepted(c)
    /\ IsFirst(c) => ~Passed(c) /\ ~Accepted(c)
    /\ Passed(c) => ~Accepted(c)

WaitsOnce == \A c \in Clients : WaitsInOnePlace(c)

\* Whoever poll has seen waiting is still there until ISS accepts it.
SeenWaits ==
    ~garbled => \A i \in todo : i > 0 =>
        backlog[slots[i]] # <<>> \/ (ipc = "pass" /\ i = Index)

PlaceInv ==
    /\ ServiceInv /\ PortsHeld /\ ReportedOnce /\ EmptyHands /\ QueuesDistinct
    /\ WaitsOnce /\ SeenWaits

-----------------------------------------------------------------------------
(* Queues without repetition *)

LEMMA TakenOnce ==
  ASSUME NEW S, NEW s \in Seq(S), s # <<>>, Distinct(s)
  PROVE  /\ Distinct(Tail(s)) /\ Contains(s, Head(s)) /\ Head(s) \in S /\ Tail(s) \in Seq(S)
         /\ \A e : Contains(Tail(s), e) <=> Contains(s, e) /\ e # Head(s)
<1>1. /\ Len(s) \in Nat \ {0} /\ Head(s) \in S /\ Tail(s) \in Seq(S) /\ Head(s) = s[1]
      /\ Len(Tail(s)) = Len(s) - 1
      /\ \A k \in 1 .. Len(s) - 1 : Tail(s)[k] = s[k + 1]
  BY HeadTailProperties, EmptySeq
<1>2. \A k \in 1 .. Len(s) - 1 : k + 1 \in 1 .. Len(s) /\ k + 1 # 1
  BY <1>1
<1>3. \A k \in 1 .. Len(s) : k = 1 \/ (k - 1 \in 1 .. Len(s) - 1 /\ s[k] = Tail(s)[k - 1])
  BY <1>1
<1>4. Distinct(Tail(s))
  BY <1>1, <1>2 DEF Distinct
<1>5. 1 \in 1 .. Len(s)
  BY <1>1
<1>6. ASSUME NEW e, Contains(Tail(s), e)
      PROVE  Contains(s, e) /\ e # Head(s)
  <2>1. PICK k \in 1 .. Len(s) - 1 : s[k + 1] = e
    BY <1>1, <1>6 DEF Contains
  <2> QED
    BY <1>1, <1>2, <1>5, <2>1 DEF Contains, Distinct
<1>7. ASSUME NEW e, Contains(s, e), e # Head(s)
      PROVE  Contains(Tail(s), e)
  <2>1. PICK k \in 1 .. Len(s) : s[k] = e
    BY <1>7 DEF Contains
  <2>2. k # 1
    BY <1>1, <1>7, <2>1
  <2> QED
    BY <1>1, <1>3, <2>1, <2>2 DEF Contains
<1>8. Contains(s, Head(s))
  BY <1>1, <1>5 DEF Contains
<1> QED
  BY <1>1, <1>4, <1>6, <1>7, <1>8

LEMMA AddedOnce ==
  ASSUME NEW S, NEW s \in Seq(S), NEW e \in S
  PROVE  /\ \A x : Contains(Append(s, e), x) <=> Contains(s, x) \/ x = e
         /\ Distinct(s) /\ ~Contains(s, e) => Distinct(Append(s, e))
         /\ Append(s, e) # <<>>
<1>1. /\ Append(s, e) \in Seq(S) /\ Len(s) \in Nat
      /\ Len(Append(s, e)) = Len(s) + 1 /\ Append(s, e) # <<>>
      /\ \A k \in 1 .. Len(s) : Append(s, e)[k] = s[k]
      /\ Append(s, e)[Len(s) + 1] = e
  BY AppendProperties
<1>2. /\ \A k \in 1 .. Len(Append(s, e)) : k \in 1 .. Len(s) \/ k = Len(s) + 1
      /\ \A k \in 1 .. Len(s) : k \in 1 .. Len(Append(s, e))
      /\ Len(s) + 1 \in 1 .. Len(Append(s, e))
  BY <1>1
<1>3. \A x : Contains(Append(s, e), x) <=> Contains(s, x) \/ x = e
  BY <1>1, <1>2 DEF Contains
<1>4. Distinct(s) /\ ~Contains(s, e) => Distinct(Append(s, e))
  BY <1>1, <1>2 DEF Contains, Distinct
<1> QED
  BY <1>1, <1>3, <1>4

LEMMA EmptyDistinct == Distinct(<<>>) /\ \A e : ~Contains(<<>>, e)
<1>1. Len(<<>>) = 0
  OBVIOUS
<1> QED
  BY <1>1 DEF Distinct, Contains

\* Nobody is anywhere before the programs run.
LEMMA InitPlaceInv == Init => PlaceInv
<1> SUFFICES ASSUME Init PROVE PlaceInv
  OBVIOUS
<1>1. Len(<<>>) = 0
  OBVIOUS
<1>2. PortsHeld /\ ReportedOnce /\ EmptyHands /\ QueuesDistinct /\ SeenWaits
  BY <1>1, EmptyDistinct DEF Init, PortsHeld, ReportedOnce, EmptyHands, QueuesDistinct, SeenWaits
<1>3. WaitsOnce
  BY EmptyDistinct, NamesAssumption, PortOfAssumption
  DEF Init, WaitsOnce, WaitsInOnePlace, Backlogged, IsFirst, Passed, Accepted
<1> QED
  BY <1>2, <1>3, InitServiceInv DEF PlaceInv

-----------------------------------------------------------------------------
\* A port changes hands by bind, close and exit only.
LEMMA StepPorts ==
  ASSUME PlaceInv, [Next]_vars
  PROVE  PortsHeld'
<1> USE DEF PlaceInv
<1>t. /\ owner \in [Ports -> {"none", "server", "iss"}]
      /\ spc \in [Ports -> {"down", "bind", "accept", "close", "first", "handoff", "loop", "exited"}]
      /\ slots \in Seq(Ports) /\ Len(slots) \in Nat
      /\ \A i \in 1 .. Len(slots) : slots[i] \in Ports
      /\ ipc \in {"bind", "connect"} => cur \in Ports
  BY ElementOfSeq DEF ServiceInv, TypeOK, InHand
<1>u. UNCHANGED <<owner, spc, ipc, slots, cur>> => PortsHeld'
  BY DEF PortsHeld
<1>1. ASSUME NEW c \in Clients, Connect(c)
      PROVE  PortsHeld'
  BY <1>1, <1>u DEF Connect, servervars, issvars
<1>2. ASSUME NEW p \in Ports, ServerStart(p) \/ ServerStep(p)
      PROVE  PortsHeld'
  <2>1. UNCHANGED <<ipc, slots, cur>>
    BY <1>2 DEF ServerStart, ServerStep, ServerBind, ServerBindFails, ServerAccept,
                ServerClose, ServerFirst, ServerHandoff, ServerLoop, issvars
  <2>2. CASE ServerBind(p)
    BY <2>1, <2>2, <1>t DEF ServerBind, PortsHeld
  <2>3. CASE ServerClose(p)
    BY <2>1, <2>3, <1>t DEF ServerClose, PortsHeld
  <2>4. CASE ServerStart(p) \/ ServerBindFails(p) \/ ServerFirst(p) \/ ServerHandoff(p)
    <3>1. /\ UNCHANGED owner /\ spc[p] \notin {"accept", "close"}
          /\ \E l \in {"bind", "exited", "handoff", "loop"} : spc' = [spc EXCEPT ![p] = l]
      BY <2>4 DEF ServerStart, ServerBindFails, ServerFirst, ServerHandoff, kernelvars
    <3> QED
      BY <2>1, <3>1, <1>t DEF PortsHeld
  <2>5. CASE ServerAccept(p)
    BY <2>1, <2>5, <1>t DEF ServerAccept, PortsHeld
  <2>6. CASE ServerLoop(p)
    BY <2>6, <1>u, <2>1 DEF ServerLoop, servervars
  <2> QED
    BY <1>2, <2>2, <2>3, <2>4, <2>5, <2>6 DEF ServerStep
<1>3. CASE SnifferStart \/ IssStart
  BY <1>3 DEF SnifferStart, IssStart, PortsHeld, kernelvars, servervars
<1>4. CASE Sniff \/ SniffKilled
  BY <1>4, <1>u DEF Sniff, SniffKilled, kernelvars, servervars, issvars
<1>5. CASE IssStep
  <2>1. UNCHANGED spc
    BY <1>5 DEF IssStep, IssPoll, IssRecv, IssBind, IssBindFails, IssConnect,
                IssConnectFails, IssAccept, IssPass, IssKilled, IssExit, servervars
  <2>2. CASE IssPoll
    BY <2>2, <1>u DEF IssPoll, kernelvars, servervars
  <2>3. CASE IssRecv
    BY <2>1, <2>3 DEF IssRecv, PortsHeld, kernelvars
  <2>4. CASE IssBind
    BY <2>1, <2>4, <1>t DEF IssBind, PortsHeld
  <2>5. ASSUME IssExit
        PROVE  PortsHeld'
    BY <2>1, <2>5, <1>t DEF IssExit, PortsHeld
  <2>6. CASE IssConnect
    <3>1. /\ UNCHANGED owner /\ ipc = "connect" /\ ipc' = "poll" /\ cur \in Ports
          /\ slots' = Append(slots, cur)
      BY <2>6, <1>t DEF IssConnect
    <3>2. \A i \in 1 .. Len(slots') : (i \in 1 .. Len(slots) /\ slots'[i] = slots[i]) \/ slots'[i] = cur
      BY <1>t, <3>1, AppendProperties
    <3> QED
      BY <2>1, <3>1, <3>2 DEF PortsHeld
  <2>7. CASE IssAccept \/ IssPass
    BY <2>1, <2>7 DEF IssAccept, IssPass, PortsHeld
  <2> QED
    BY <1>5, <2>2, <2>3, <2>4, <2>5, <2>6, <2>7
    DEF IssStep, IssBindFails, IssConnectFails, IssKilled
<1>6. CASE UNCHANGED vars
  BY <1>6, <1>u DEF vars, kernelvars, servervars, issvars
<1> QED
  BY <1>1, <1>2, <1>3, <1>4, <1>5, <1>6 DEF Next

\* T stores what it reports, and ISS moves a report from place to place.
LEMMA StepReported ==
  ASSUME PlaceInv, [Next]_vars
  PROVE  ReportedOnce'
<1> USE DEF PlaceInv
<1>t. /\ slots \in Seq(Ports) /\ tstream \in Seq(Ports) /\ store \in Seq(Ports)
      /\ syns \in Seq(Ports)
      /\ ipc \in {"bind", "connect"} => cur \in Ports
  BY DEF ServiceInv, TypeOK, InHand
<1>u. UNCHANGED <<slots, tstream, store, ipc, cur>> => ReportedOnce'
  BY DEF ReportedOnce
<1>v. ASSUME UNCHANGED <<slots, tstream, store>>, ipc' \notin {"bind", "connect"}
      PROVE  ReportedOnce'
  BY <1>v DEF ReportedOnce
<1>1. ASSUME NEW c \in Clients, Connect(c)
      PROVE  ReportedOnce'
  BY <1>1, <1>u DEF Connect, issvars
<1>2. ASSUME NEW p \in Ports, ServerStart(p) \/ ServerStep(p)
      PROVE  ReportedOnce'
  BY <1>2, <1>u DEF ServerStart, ServerStep, ServerBind, ServerBindFails, ServerAccept,
                    ServerClose, ServerFirst, ServerHandoff, ServerLoop, sniffvars, issvars
<1>3. CASE SnifferStart \/ IssStart
  BY <1>3, <1>v DEF SnifferStart, IssStart, sniffvars
<1>4. CASE SniffKilled
  BY <1>4, <1>u DEF SniffKilled, issvars
<1>5. CASE Sniff
  <2>1. UNCHANGED <<slots, ipc, cur>>
    BY <1>5 DEF Sniff, issvars
  <2>2. CASE UNCHANGED <<store, tstream>>
    BY <2>1, <2>2, <1>u
  <2> DEFINE p == Head(syns)
  <2>3. CASE /\ ~Contains(store, p) /\ store' = Append(store, p)
             /\ tstream' = IF ipc = "exited" THEN tstream ELSE Append(tstream, p)
    <3>1. p \in Ports
      BY <1>5, <1>t, Taken DEF Sniff
    <3> HIDE DEF p
    <3>2. \A q : Contains(store', q) <=> Contains(store, q) \/ q = p
      BY <1>t, <2>3, <3>1, AddedOnce
    <3>3. ~Contains(tstream, p) /\ ~Contains(slots, p)
      BY <1>t, <2>3, <3>1 DEF ReportedOnce
    <3>4. \A q : Contains(tstream', q) => Contains(tstream, q) \/ q = p
      BY <1>t, <2>3, <3>1, AddedOnce
    <3>5. Distinct(tstream')
      BY <1>t, <2>3, <3>1, <3>3, AddedOnce DEF ReportedOnce
    <3> QED
      BY <1>t, <2>1, <2>3, <3>2, <3>3, <3>4, <3>5 DEF ReportedOnce
  <2> QED
    BY <1>5, <2>2, <2>3 DEF Sniff, Check
<1>6. CASE IssStep
  <2>1. CASE IssPoll
    BY <2>1, <1>u DEF IssPoll, sniffvars
  <2>2. CASE IssRecv
    <3>1. /\ tstream # <<>> /\ cur' = Head(tstream) /\ tstream' = Tail(tstream)
          /\ UNCHANGED <<slots, store>>
      BY <2>2 DEF IssRecv
    <3>2. /\ Distinct(tstream') /\ Contains(tstream, cur')
          /\ \A q : Contains(tstream', q) <=> Contains(tstream, q) /\ q # cur'
      BY <1>t, <3>1, TakenOnce DEF ReportedOnce
    <3> QED
      BY <1>t, <3>1, <3>2 DEF ReportedOnce
  <2>3. CASE IssBind
    BY <2>3 DEF IssBind, sniffvars, ReportedOnce
  <2>4. ASSUME IssExit
        PROVE  ReportedOnce'
    BY <2>4, EmptyDistinct DEF IssExit, ReportedOnce
  <2>5. CASE IssConnect
    <3>1. /\ UNCHANGED <<store, tstream>> /\ ipc = "connect" /\ ipc' = "poll" /\ cur \in Ports
          /\ slots' = Append(slots, cur)
      BY <2>5, <1>t DEF IssConnect, sniffvars
    <3>2. /\ \A q : Contains(slots', q) <=> Contains(slots, q) \/ q = cur
          /\ Distinct(slots')
      BY <1>t, <3>1, AddedOnce DEF ReportedOnce
    <3> QED
      BY <1>t, <3>1, <3>2 DEF ReportedOnce
  <2>6. CASE IssAccept \/ IssPass
    BY <2>6, <1>v DEF IssAccept, IssPass, sniffvars
  <2> QED
    BY <1>6, <2>1, <2>2, <2>3, <2>4, <2>5, <2>6
    DEF IssStep, IssBindFails, IssConnectFails, IssKilled
<1>7. CASE UNCHANGED vars
  BY <1>7, <1>u DEF vars, sniffvars, issvars
<1> QED
  BY <1>1, <1>2, <1>3, <1>4, <1>5, <1>6, <1>7 DEF Next

\* Hands are emptied when what they hold is passed on.
LEMMA StepHands ==
  ASSUME PlaceInv, [Next]_vars
  PROVE  EmptyHands'
<1> USE DEF PlaceInv, EmptyHands
<1>t. /\ spc \in [Ports -> {"down", "bind", "accept", "close", "first", "handoff", "loop", "exited"}]
      /\ first \in [Ports -> Clients \cup {Nobody}]
  BY DEF ServiceInv, TypeOK
<1>u. UNCHANGED <<ipc, cur, todo, spc, first>> => EmptyHands'
  OBVIOUS
<1>1. ASSUME NEW c \in Clients, Connect(c)
      PROVE  EmptyHands'
  BY <1>1, <1>u DEF Connect, servervars, issvars
<1>2. ASSUME NEW p \in Ports, ServerStart(p) \/ ServerStep(p)
      PROVE  EmptyHands'
  <2>1. UNCHANGED <<ipc, cur, todo>>
    BY <1>2 DEF ServerStart, ServerStep, ServerBind, ServerBindFails, ServerAccept,
                ServerClose, ServerFirst, ServerHandoff, ServerLoop, issvars
  <2>2. CASE ServerAccept(p) \/ ServerFirst(p)
    BY <2>1, <2>2, <1>t DEF ServerAccept, ServerFirst
  <2>3. CASE ServerClose(p)
    BY <2>1, <2>3, <1>t DEF ServerClose
  <2>4. CASE ServerStart(p) \/ ServerBind(p) \/ ServerBindFails(p) \/ ServerHandoff(p)
    <3>1. /\ UNCHANGED first /\ spc[p] \notin {"first", "close"}
          /\ \E l \in {"bind", "accept", "exited", "loop"} : spc' = [spc EXCEPT ![p] = l]
      BY <2>4 DEF ServerStart, ServerBind, ServerBindFails, ServerHandoff
    <3> QED
      BY <2>1, <3>1, <1>t
  <2>5. CASE ServerLoop(p)
    BY <2>1, <2>5, <1>u DEF ServerLoop, servervars
  <2> QED
    BY <1>2, <2>2, <2>3, <2>4, <2>5 DEF ServerStep
<1>3. CASE SnifferStart \/ Sniff \/ SniffKilled \/ IssStart
  BY <1>3, <1>u DEF SnifferStart, Sniff, SniffKilled, IssStart, servervars, issvars
<1>4. CASE IssStep
  BY <1>4 DEF IssStep, IssPoll, IssRecv, IssBind, IssBindFails, IssConnect,
              IssConnectFails, IssAccept, IssPass, IssKilled, IssExit, servervars
<1>5. CASE UNCHANGED vars
  BY <1>5, <1>u DEF vars, servervars, issvars
<1> QED
  BY <1>1, <1>2, <1>3, <1>4, <1>5 DEF Next

\* Only ISS takes from a backlog that it has adopted.
LEMMA StepSeen ==
  ASSUME PlaceInv, [Next]_vars
  PROVE  SeenWaits'
<1> USE DEF PlaceInv
<1>t. /\ slots \in Seq(Ports) /\ Len(slots) \in Nat /\ todo \subseteq 0 .. Len(slots)
      /\ \A i \in 1 .. Len(slots) : slots[i] \in Ports
      /\ backlog \in [Ports -> Seq(Clients)] /\ garbled \in BOOLEAN
  BY ElementOfSeq DEF ServiceInv, TypeOK
<1>i. \A i \in todo : i > 0 => i \in 1 .. Len(slots) /\ slots[i] \in Ports
  BY <1>t
<1>u. UNCHANGED <<slots, todo, ipc, garbled, backlog>> => SeenWaits'
  BY DEF SeenWaits, Index
<1>k. ASSUME UNCHANGED <<slots, todo, ipc, garbled>>,
             \A i \in todo : i > 0 /\ backlog[slots[i]] # <<>> => backlog'[slots[i]] # <<>>
      PROVE  SeenWaits'
  BY <1>k DEF SeenWaits, Index
<1>1. ASSUME NEW c \in Clients, Connect(c)
      PROVE  SeenWaits'
  <2>1. UNCHANGED <<slots, todo, ipc, garbled>>
    BY <1>1 DEF Connect, issvars
  <2>2. \/ UNCHANGED backlog
        \/ backlog' = [backlog EXCEPT ![PortOf[c]] = Append(@, c)]
    BY <1>1 DEF Connect
  <2>3. PortOf[c] \in Ports /\ Append(backlog[PortOf[c]], c) # <<>>
    BY <1>t, PortOfAssumption, AddedOnce
  <2>4. \A p \in Ports : backlog[p] # <<>> => backlog'[p] # <<>>
    BY <1>t, <2>2, <2>3
  <2> QED
    BY <1>i, <1>k, <2>1, <2>4
<1>2. ASSUME NEW p \in Ports, ServerStart(p) \/ ServerStep(p)
      PROVE  SeenWaits'
  <2>1. UNCHANGED <<slots, todo, ipc, garbled>>
    BY <1>2 DEF ServerStart, ServerStep, ServerBind, ServerBindFails, ServerAccept,
                ServerClose, ServerFirst, ServerHandoff, ServerLoop, issvars
  <2>2. CASE ServerAccept(p) \/ ServerClose(p)
    <3>1. owner[p] = "server" /\ \A q \in Ports \ {p} : backlog'[q] = backlog[q]
      BY <2>2, <1>t DEF ServerAccept, ServerClose, PortsHeld
    <3>2. \A i \in todo : i > 0 => slots[i] # p
      <4>1. CASE ipc = "exited"
        BY <4>1 DEF EmptyHands
      <4>2. CASE ipc # "exited"
        BY <1>i, <3>1, <4>2 DEF PortsHeld
      <4> QED
        BY <4>1, <4>2
    <3> QED
      BY <1>i, <1>k, <2>1, <3>1, <3>2
  <2>3. CASE UNCHANGED backlog
    BY <1>k, <2>1, <2>3
  <2> QED
    BY <1>2, <2>2, <2>3 DEF ServerStart, ServerStep, ServerBind, ServerBindFails, ServerFirst,
                            ServerHandoff, ServerLoop, kernelvars
<1>3. CASE SnifferStart \/ IssStart
  BY <1>3 DEF SnifferStart, IssStart, SeenWaits, kernelvars
<1>4. CASE Sniff \/ SniffKilled
  BY <1>4, <1>u DEF Sniff, SniffKilled, kernelvars, issvars
<1>5. CASE IssStep
  <2>1. CASE IssPoll
    BY <2>1 DEF IssPoll, SeenWaits, Ready, kernelvars
  <2>2. CASE IssRecv
    BY <2>2 DEF IssRecv, SeenWaits, kernelvars
  <2>3. CASE IssBind
    BY <2>3 DEF IssBind, SeenWaits
  <2>4. ASSUME IssExit
        PROVE  SeenWaits'
    BY <2>4 DEF IssExit, SeenWaits
  <2>5. CASE IssConnect
    <3>1. /\ UNCHANGED backlog /\ cur \in Ports /\ slots' = Append(slots, cur) /\ ipc = "connect"
          /\ garbled' \/ (UNCHANGED <<todo, garbled>>)
      BY <2>5, <1>t DEF IssConnect, ServiceInv, InHand
    <3>2. \A i \in 1 .. Len(slots) : slots'[i] = slots[i]
      BY <1>t, <3>1, AppendProperties
    <3> QED
      BY <1>i, <3>1, <3>2 DEF SeenWaits
  <2>6. CASE IssAccept
    <3>1. /\ UNCHANGED <<slots, todo, garbled>> /\ ipc = "poll" /\ ipc' = "pass" /\ Index' = Index
          /\ backlog' = [backlog EXCEPT ![slots[Index]] = Tail(@)]
      BY <2>6 DEF IssAccept, Index
    <3>2. Index \in 1 .. Len(slots)
      BY <2>6, IndexIsSlot DEF IssAccept, ServiceInv
    <3>3. \A i \in todo : i > 0 /\ i # Index => slots[i] # slots[Index]
      BY <1>i, <3>2 DEF ReportedOnce, Distinct
    <3>4. \A i \in todo : i > 0 /\ i # Index => backlog'[slots[i]] = backlog[slots[i]]
      BY <1>i, <1>t, <3>1, <3>3
    <3> QED
      BY <3>1, <3>4 DEF SeenWaits
  <2>7. CASE IssPass
    BY <2>7 DEF IssPass, SeenWaits
  <2> QED
    BY <1>5, <2>1, <2>2, <2>3, <2>4, <2>5, <2>6, <2>7
    DEF IssStep, IssBindFails, IssConnectFails, IssKilled
<1>6. CASE UNCHANGED vars
  BY <1>6, <1>u DEF vars, kernelvars, issvars
<1> QED
  BY <1>1, <1>2, <1>3, <1>4, <1>5, <1>6 DEF Next

\* Wherever a client is, it is on the way to the server whose port it called.
LEMMA PlaceIsOwn ==
  ASSUME PlaceInv, NEW c \in Clients, NEW p \in Ports,
         Contains(backlog[p], c) \/ Contains(fds[p], c) \/ first[p] = c
  PROVE  PortOf[c] = p
<1> USE DEF PlaceInv, ServiceInv
<1>1. CASE Contains(backlog[p], c) \/ Contains(fds[p], c)
  BY <1>1 DEF Contains, OnTheWay, OfPort
<1>2. CASE first[p] = c
  BY <1>2, NamesAssumption DEF EmptyHands, FirstClient
<1> QED
  BY <1>1, <1>2

\* A client that gets in line was not in it.
LEMMA StepDistinct ==
  ASSUME PlaceInv, [Next]_vars
  PROVE  QueuesDistinct'
<1> USE DEF PlaceInv
<1>t. backlog \in [Ports -> Seq(Clients)] /\ fds \in [Ports -> Seq(Clients)]
  BY DEF ServiceInv, TypeOK
<1>d. \A p \in Ports : Distinct(backlog[p]) /\ Distinct(fds[p])
  BY DEF QueuesDistinct
<1>u. UNCHANGED <<backlog, fds>> => QueuesDistinct'
  BY DEF QueuesDistinct
<1>1. ASSUME NEW c \in Clients, Connect(c)
      PROVE  QueuesDistinct'
  <2>1. /\ PortOf[c] \in Ports /\ UNCHANGED fds /\ cst[c] = "idle"
        /\ \/ UNCHANGED backlog
           \/ backlog' = [backlog EXCEPT ![PortOf[c]] = Append(@, c)]
    BY <1>1, PortOfAssumption DEF Connect
  <2>2. ~Contains(backlog[PortOf[c]], c)
    BY <2>1 DEF WaitsOnce, WaitsInOnePlace, Backlogged
  <2>3. Distinct(Append(backlog[PortOf[c]], c))
    BY <1>t, <1>d, <2>1, <2>2, AddedOnce
  <2> QED
    BY <1>t, <1>d, <2>1, <2>3 DEF QueuesDistinct
<1>2. ASSUME NEW p \in Ports, ServerStart(p) \/ ServerStep(p)
      PROVE  QueuesDistinct'
  <2>1. CASE ServerBindFails(p) \/ ServerClose(p)
    BY <2>1, <1>t, <1>d, EmptyDistinct DEF ServerBindFails, ServerClose, QueuesDistinct
  <2>2. CASE ServerAccept(p)
    <3>1. Distinct(Tail(backlog[p]))
      BY <2>2, <1>t, <1>d, TakenOnce DEF ServerAccept
    <3> QED
      BY <2>2, <3>1, <1>t, <1>d DEF ServerAccept, QueuesDistinct
  <2>3. CASE ServerLoop(p)
    <3>1. Distinct(Tail(fds[p]))
      BY <2>3, <1>t, <1>d, TakenOnce DEF ServerLoop
    <3> QED
      BY <2>3, <3>1, <1>t, <1>d DEF ServerLoop, QueuesDistinct
  <2>4. CASE ServerStart(p) \/ ServerBind(p) \/ ServerFirst(p) \/ ServerHandoff(p)
    BY <2>4, <1>u DEF ServerStart, ServerBind, ServerFirst, ServerHandoff, kernelvars
  <2> QED
    BY <1>2, <2>1, <2>2, <2>3, <2>4 DEF ServerStep
<1>3. CASE SnifferStart \/ Sniff \/ SniffKilled \/ IssStart
  BY <1>3, <1>u DEF SnifferStart, Sniff, SniffKilled, IssStart, kernelvars
<1>4. CASE IssStep
  <2>1. ASSUME IssExit
        PROVE  QueuesDistinct'
    BY <2>1, <1>t, <1>d, EmptyDistinct DEF IssExit, QueuesDistinct
  <2>2. CASE IssPoll \/ IssRecv \/ IssBind \/ IssConnect
    BY <2>2, <1>u DEF IssPoll, IssRecv, IssBind, IssConnect, kernelvars
  <2>3. CASE IssAccept
    <3>1. slots[Index] \in Ports
      BY <2>3, IndexIsSlot DEF IssAccept, ServiceInv
    <3>2. Distinct(Tail(backlog[slots[Index]]))
      BY <2>3, <1>t, <1>d, <3>1, TakenOnce DEF IssAccept
    <3> QED
      BY <2>3, <3>1, <3>2, <1>t, <1>d DEF IssAccept, QueuesDistinct
  <2>4. CASE IssPass
    <3>1. cur \in Clients /\ PortOf[cur] = slots[Index] /\ slots[Index] \in Ports
      BY <2>4, PortOfAssumption DEF IssPass, ServiceInv, InHand
    <3>2. ~Contains(fds[slots[Index]], cur)
      BY <3>1 DEF WaitsOnce, WaitsInOnePlace, Passed, Accepted
    <3>3. Distinct(Append(fds[slots[Index]], cur))
      BY <1>t, <1>d, <3>1, <3>2, AddedOnce
    <3> QED
      BY <2>4, <3>1, <3>3, <1>t, <1>d DEF IssPass, Usfds, QueuesDistinct
  <2> QED
    BY <1>4, <2>1, <2>2, <2>3, <2>4 DEF IssStep, IssBindFails, IssConnectFails, IssKilled
<1>5. CASE UNCHANGED vars
  BY <1>5, <1>u DEF vars, kernelvars
<1> QED
  BY <1>1, <1>2, <1>3, <1>4, <1>5 DEF Next

\* A client goes from the backlog to the server's first accept, or through
\* ISS's hands to the Unix socket, and is answered from there.
LEMMA StepWaits ==
  ASSUME PlaceInv, [Next]_vars
  PROVE  WaitsOnce'
<1> USE DEF PlaceInv
<1>t. /\ backlog \in [Ports -> Seq(Clients)] /\ fds \in [Ports -> Seq(Clients)]
      /\ cst \in [Clients -> {"idle", "waiting", "refused", "reset", "hung", "served"}]
      /\ first \in [Ports -> Clients \cup {Nobody}]
      /\ \A p \in Ports : Distinct(backlog[p]) /\ Distinct(fds[p])
      /\ \A c \in Clients : PortOf[c] \in Ports
  BY PortOfAssumption DEF ServiceInv, TypeOK, QueuesDistinct
<1>w. \A c \in Clients : WaitsInOnePlace(c)
  BY DEF WaitsOnce
<1>h. \A c \in Clients : ipc # "pass" => cur # c
  BY NamesAssumption DEF ServiceInv, InHand, EmptyHands
<1>u. UNCHANGED <<cst, backlog, first, fds, cur>> => WaitsOnce'
  BY DEF WaitsOnce, WaitsInOnePlace, Backlogged, IsFirst, Passed, Accepted
<1> USE DEF Backlogged, IsFirst, Passed, Accepted
<1>1. ASSUME NEW c \in Clients, Connect(c)
      PROVE  WaitsOnce'
  <2>1. /\ UNCHANGED <<first, fds, cur>> /\ cst[c] = "idle"
        /\ \/ UNCHANGED backlog /\ cst' = [cst EXCEPT ![c] = "refused"]
           \/ /\ cst' = [cst EXCEPT ![c] = "waiting"]
              /\ backlog' = [backlog EXCEPT ![PortOf[c]] = Append(@, c)]
    BY <1>1 DEF Connect, servervars, issvars
  <2>2. CASE UNCHANGED backlog /\ cst' = [cst EXCEPT ![c] = "refused"]
    BY <1>t, <1>w, <2>1, <2>2 DEF WaitsOnce, WaitsInOnePlace
  <2>3. CASE /\ cst' = [cst EXCEPT ![c] = "waiting"]
             /\ backlog' = [backlog EXCEPT ![PortOf[c]] = Append(@, c)]
    <3>1. \A e \in Clients : Contains(backlog'[PortOf[e]], e) <=> Contains(backlog[PortOf[e]], e) \/ e = c
      <4>1. \A e : Contains(Append(backlog[PortOf[c]], c), e) <=> Contains(backlog[PortOf[c]], e) \/ e = c
        BY <1>t, AddedOnce
      <4> QED
        BY <1>t, <2>3, <4>1
    <3> QED
      BY <1>t, <1>w, <2>1, <2>3, <3>1 DEF WaitsOnce, WaitsInOnePlace
  <2> QED
    BY <2>1, <2>2, <2>3
<1>2. ASSUME NEW p \in Ports, ServerStart(p) \/ ServerStep(p)
      PROVE  WaitsOnce'
  <2>1. CASE ServerBindFails(p)
    <3>1. /\ UNCHANGED <<backlog, first, cur>>
          /\ cst' = [c \in Clients |-> IF Contains(fds[p], c) THEN "hung" ELSE cst[c]]
          /\ fds' = [fds EXCEPT ![p] = <<>>]
      BY <2>1 DEF ServerBindFails, issvars
    <3>2. \A c \in Clients : Contains(fds[p], c) <=> Passed(c) /\ PortOf[c] = p
      BY PlaceIsOwn
    <3>3. \A c \in Clients : Contains(fds'[PortOf[c]], c) <=> Passed(c) /\ PortOf[c] # p
      BY <1>t, <3>1, EmptyDistinct
    <3> QED
      BY <1>w, <3>1, <3>2, <3>3 DEF WaitsOnce, WaitsInOnePlace
  <2>2. CASE ServerAccept(p)
    <3> DEFINE h == Head(backlog[p])
    <3>1. /\ UNCHANGED <<cst, fds, cur>> /\ backlog[p] # <<>> /\ spc[p] = "accept"
          /\ first' = [first EXCEPT ![p] = h]
          /\ backlog' = [backlog EXCEPT ![p] = Tail(@)]
      BY <2>2 DEF ServerAccept, clientvars, issvars
    <3>2. /\ h \in Clients /\ Contains(backlog[p], h)
          /\ \A e : Contains(Tail(backlog[p]), e) <=> Contains(backlog[p], e) /\ e # h
      BY <1>t, <3>1, TakenOnce
    <3>3. PortOf[h] = p
      BY <3>2, PlaceIsOwn
    <3> HIDE DEF h
    <3>4. \A c \in Clients : Contains(backlog'[PortOf[c]], c) <=> Backlogged(c) /\ c # h
      BY <1>t, <3>1, <3>2, <3>3
    <3>5. first[p] = Nobody /\ \A c \in Clients : c # Nobody
      BY <3>1, NamesAssumption DEF EmptyHands
    <3>6. \A c \in Clients : first'[PortOf[c]] = c <=> IsFirst(c) \/ c = h
      BY <1>t, <3>1, <3>3, <3>5
    <3> QED
      BY <1>w, <3>1, <3>2, <3>3, <3>4, <3>6 DEF WaitsOnce, WaitsInOnePlace
  <2>3. CASE ServerClose(p)
    <3>1. /\ UNCHANGED <<first, fds, cur>>
          /\ cst' = [c \in Clients |-> IF Contains(backlog[p], c) THEN "reset" ELSE cst[c]]
          /\ backlog' = [backlog EXCEPT ![p] = <<>>]
      BY <2>3 DEF ServerClose, issvars
    <3>2. \A c \in Clients : Contains(backlog[p], c) <=> Backlogged(c) /\ PortOf[c] = p
      BY PlaceIsOwn
    <3>3. \A c \in Clients : Contains(backlog'[PortOf[c]], c) <=> Backlogged(c) /\ PortOf[c] # p
      BY <1>t, <3>1, EmptyDistinct
    <3> QED
      BY <1>w, <3>1, <3>2, <3>3 DEF WaitsOnce, WaitsInOnePlace
  <2>4. CASE ServerFirst(p)
    <3>1. /\ UNCHANGED <<backlog, fds, cur>> /\ spc[p] = "first"
          /\ cst' = [cst EXCEPT ![first[p]] = "served"]
          /\ first' = [first EXCEPT ![p] = Nobody]
      BY <2>4 DEF ServerFirst, Serve, kernelvars, issvars
    <3>2. first[p] \in Clients /\ PortOf[first[p]] = p
      BY <3>1 DEF ServiceInv, FirstClient
    <3>3. \A c \in Clients : first'[PortOf[c]] = c <=> IsFirst(c) /\ c # first[p]
      BY <1>t, <3>1, <3>2, NamesAssumption
    <3>4. \A c \in Clients : cst'[c] = IF c = first[p] THEN "served" ELSE cst[c]
      BY <1>t, <3>1, <3>2
    <3> QED
      BY <1>w, <3>1, <3>2, <3>3, <3>4 DEF WaitsOnce, WaitsInOnePlace
  <2>5. CASE ServerLoop(p)
    <3> DEFINE h == Head(fds[p])
    <3>1. /\ UNCHANGED <<backlog, first, cur>> /\ fds[p] # <<>>
          /\ cst' = [cst EXCEPT ![h] = "served"]
          /\ fds' = [fds EXCEPT ![p] = Tail(@)]
      BY <2>5 DEF ServerLoop, Serve, servervars, issvars
    <3>2. /\ h \in Clients /\ Contains(fds[p], h)
          /\ \A e : Contains(Tail(fds[p]), e) <=> Contains(fds[p], e) /\ e # h
      BY <1>t, <3>1, TakenOnce
    <3>3. PortOf[h] = p
      BY <3>2, PlaceIsOwn
    <3> HIDE DEF h
    <3>4. \A c \in Clients : Contains(fds'[PortOf[c]], c) <=> Passed(c) /\ c # h
      BY <1>t, <3>1, <3>2, <3>3
    <3>5. \A c \in Clients : cst'[c] = IF c = h THEN "served" ELSE cst[c]
      BY <1>t, <3>1, <3>2
    <3> QED
      BY <1>w, <3>1, <3>2, <3>3, <3>4, <3>5 DEF WaitsOnce, WaitsInOnePlace
  <2>6. CASE ServerStart(p) \/ ServerBind(p) \/ ServerHandoff(p)
    BY <2>6, <1>u DEF ServerStart, ServerBind, ServerHandoff, clientvars, issvars
  <2> QED
    BY <1>2, <2>1, <2>2, <2>3, <2>4, <2>5, <2>6 DEF ServerStep
<1>3. CASE SnifferStart \/ Sniff \/ SniffKilled \/ IssStart
  BY <1>3, <1>u DEF SnifferStart, Sniff, SniffKilled, IssStart, kernelvars, servervars,
                    clientvars, issvars
<1>4. CASE IssStep
  <2>1. CASE IssPoll \/ IssBind
    BY <2>1, <1>u DEF IssPoll, IssBind, kernelvars, servervars, clientvars
  <2>2. CASE IssRecv \/ IssConnect
    <3>1. UNCHANGED <<cst, backlog, first, fds>> /\ ipc # "pass" /\ ipc' # "pass"
      BY <2>2 DEF IssRecv, IssConnect, kernelvars, servervars, clientvars
    <3>2. cur' \in Ports \cup {Nobody}
      <4>1. tstream # <<>> => Head(tstream) \in Ports
        BY Taken DEF ServiceInv, TypeOK
      <4> QED
        BY <2>2, <4>1 DEF IssRecv, IssConnect
    <3>3. \A c \in Clients : cur # c /\ cur' # c
      BY <1>h, <3>1, <3>2, NamesAssumption
    <3> QED
      BY <1>w, <3>1, <3>3 DEF WaitsOnce, WaitsInOnePlace
  <2>3. ASSUME IssExit
        PROVE  WaitsOnce'
    <3> DEFINE mine == {p \in Ports : owner[p] = "iss"}
    <3>1. /\ UNCHANGED <<first, fds>> /\ cur' = Nobody
          /\ \A c \in Clients : cst'[c] =
                IF c = cur \/ cst[c] = "hung" \/ \E p \in mine : Contains(backlog[p], c)
                THEN "reset" ELSE cst[c]
          /\ backlog' = [p \in Ports |-> IF p \in mine THEN <<>> ELSE backlog[p]]
      BY <2>3 DEF IssExit, servervars
    <3>2. \A c \in Clients :
             (\E p \in mine : Contains(backlog[p], c)) <=> PortOf[c] \in mine /\ Backlogged(c)
      BY <1>t, PlaceIsOwn
    <3> HIDE DEF mine
    <3>3. \A c \in Clients :
             Contains(backlog'[PortOf[c]], c) <=> PortOf[c] \notin mine /\ Backlogged(c)
      BY <1>t, <3>1, EmptyDistinct
    <3>4. \A c \in Clients : cur' # c
      BY <3>1, NamesAssumption
    <3> QED
      BY <1>w, <3>1, <3>2, <3>3, <3>4 DEF WaitsOnce, WaitsInOnePlace
  <2>4. CASE IssAccept
    <3> DEFINE p == slots[Index]
               h == Head(backlog[p])
    <3>1. p \in Ports
      BY <2>4, IndexIsSlot DEF IssAccept, ServiceInv
    <3>2. /\ UNCHANGED <<cst, first, fds>> /\ backlog[p] # <<>> /\ ipc = "poll"
          /\ cur' = h /\ backlog' = [backlog EXCEPT ![p] = Tail(@)]
      BY <2>4 DEF IssAccept, servervars, clientvars
    <3>3. /\ h \in Clients /\ Contains(backlog[p], h)
          /\ \A e : Contains(Tail(backlog[p]), e) <=> Contains(backlog[p], e) /\ e # h
      BY <1>t, <3>1, <3>2, TakenOnce
    <3>4. PortOf[h] = p
      BY <3>1, <3>3, PlaceIsOwn
    <3> HIDE DEF h, p
    <3>5. \A c \in Clients : Contains(backlog'[PortOf[c]], c) <=> Backlogged(c) /\ c # h
      BY <1>t, <3>1, <3>2, <3>3, <3>4
    <3>6. \A c \in Clients : cur # c
      BY <1>h, <3>2
    <3> QED
      BY <1>w, <3>2, <3>3, <3>4, <3>5, <3>6 DEF WaitsOnce, WaitsInOnePlace
  <2>5. CASE IssPass
    <3>1. cur \in Clients /\ PortOf[cur] = slots[Index] /\ slots[Index] \in Ports
      BY <2>5, <1>t DEF IssPass, ServiceInv, InHand
    <3>2. /\ UNCHANGED <<cst, backlog, first>> /\ cur' = Nobody
          /\ fds' = [fds EXCEPT ![slots[Index]] = Append(@, cur)]
      BY <2>5 DEF IssPass, Usfds, servervars, clientvars
    <3>3. \A e : Contains(Append(fds[PortOf[cur]], cur), e) <=> Contains(fds[PortOf[cur]], e) \/ e = cur
      BY <1>t, <3>1, AddedOnce
    <3>4. \A c \in Clients : Contains(fds'[PortOf[c]], c) <=> Passed(c) \/ c = cur
      BY <1>t, <3>1, <3>2, <3>3
    <3>5. \A c \in Clients : cur' # c
      BY <3>2, NamesAssumption
    <3> QED
      BY <1>w, <3>1, <3>2, <3>4, <3>5 DEF WaitsOnce, WaitsInOnePlace
  <2> QED
    BY <1>4, <2>1, <2>2, <2>3, <2>4, <2>5
    DEF IssStep, IssBindFails, IssConnectFails, IssKilled
<1>5. CASE UNCHANGED vars
  BY <1>5, <1>u DEF vars, kernelvars, servervars, clientvars, issvars
<1> QED
  BY <1>1, <1>2, <1>3, <1>4, <1>5 DEF Next

\* Ports, reports, queues and hands in every reachable state.
THEOREM PlaceInvariant == Spec => []PlaceInv
<1>1. Init => PlaceInv
  BY InitPlaceInv
<1>2. ASSUME PlaceInv, [Next]_vars
      PROVE  PlaceInv'
  <2>1. ServiceInv'
    BY <1>2, StepTypes, StepOnTheWay, StepInHand, StepFirstClient, StepServed
    DEF PlaceInv, ServiceInv
  <2> QED
    BY <1>2, <2>1, StepPorts, StepReported, StepHands, StepDistinct, StepWaits, StepSeen
    DEF PlaceInv
<1> QED
  BY <1>1, <1>2, PTL DEF Spec

LEMMA OneOrNone ==
  ASSUME NEW S, NEW e, S \subseteq {e}
  PROVE  Cardinality(S) = IF e \in S THEN 1 ELSE 0
<1>1. CASE e \in S
  <2>1. S = {e}
    BY <1>1
  <2> QED
    BY <1>1, <2>1, FS_Singleton
<1>2. CASE e \notin S
  <2>1. S = {}
    BY <1>2
  <2> QED
    BY <1>2, <2>1, FS_EmptySet
<1> QED
  BY <1>1, <1>2

\* Each kind of place holds a client at its own port or nowhere.
LEMMA WaitsOnceMeansOnePlace == PlaceInv => OnePlace
<1> SUFFICES ASSUME PlaceInv, NEW c \in Clients
             PROVE  PlacesOf(c) = IF cst[c] = "waiting" THEN 1 ELSE 0
  BY DEF OnePlace
<1> DEFINE B == {p \in Ports : Contains(backlog[p], c)}
           F == {p \in Ports : first[p] = c}
           D == {p \in Ports : Contains(fds[p], c)}
<1>1. B \subseteq {PortOf[c]} /\ F \subseteq {PortOf[c]} /\ D \subseteq {PortOf[c]}
  BY PlaceIsOwn
<1>2. PortOf[c] \in Ports
  BY PortOfAssumption
<1>3. /\ PortOf[c] \in B <=> Backlogged(c)
      /\ PortOf[c] \in F <=> IsFirst(c)
      /\ PortOf[c] \in D <=> Passed(c)
  BY <1>2 DEF Backlogged, IsFirst, Passed
<1>4. PlacesOf(c) = Cardinality(B) + Cardinality(F) + Cardinality(D) + (IF cur = c THEN 1 ELSE 0)
  BY DEF PlacesOf
<1> HIDE DEF B, F, D
<1>5. /\ Cardinality(B) = IF Backlogged(c) THEN 1 ELSE 0
      /\ Cardinality(F) = IF IsFirst(c) THEN 1 ELSE 0
      /\ Cardinality(D) = IF Passed(c) THEN 1 ELSE 0
  BY <1>1, <1>3, OneOrNone
<1>6. WaitsInOnePlace(c)
  BY DEF PlaceInv, WaitsOnce
<1> QED
  BY <1>4, <1>5, <1>6 DEF WaitsInOnePlace, Accepted

\* While a port changes hands between a server and ISS, whoever waits for an
\* answer is in exactly one place, and whoever does not wait in none: no
\* client is answered twice or lost (ISS.c:182-241, S1.c:139-196).
THEOREM ClientsInOnePlace == Spec => []OnePlace
  BY PlaceInvariant, WaitsOnceMeansOnePlace, PTL

\* What is in the arrays is not in the stream, and neither repeats.
LEMMA ReportedMeansAdoptedOnce == PlaceInv => AdoptedOnce
<1> SUFFICES ASSUME PlaceInv
             PROVE  AdoptedOnce
  OBVIOUS
<1> DEFINE all == slots \o tstream
<1>1. slots \in Seq(Ports) /\ tstream \in Seq(Ports) /\ Len(slots) \in Nat /\ Len(tstream) \in Nat
  BY DEF PlaceInv, ServiceInv, TypeOK
<1>2. /\ all \in Seq(Ports) /\ Len(all) = Len(slots) + Len(tstream)
      /\ \A i \in 1 .. Len(slots) + Len(tstream) :
            all[i] = IF i <= Len(slots) THEN slots[i] ELSE tstream[i - Len(slots)]
  BY <1>1, ConcatProperties
<1> HIDE DEF all
<1>3. DOMAIN all = 1 .. Len(slots) + Len(tstream)
  BY <1>2, LenProperties
<1>4. Distinct(slots) /\ Distinct(tstream)
  BY DEF PlaceInv, ReportedOnce
<1>5. ASSUME NEW i \in 1 .. Len(slots), NEW j \in 1 .. Len(tstream)
      PROVE  slots[i] # tstream[j]
  <2>1. slots[i] \in Ports /\ Contains(slots, slots[i])
    BY <1>1, ElementOfSeq DEF Contains
  <2>2. ~Contains(tstream, slots[i])
    BY <2>1 DEF PlaceInv, ReportedOnce
  <2> QED
    BY <2>2 DEF Contains
<1>6. ASSUME NEW a \in DOMAIN all, NEW b \in DOMAIN all, all[a] = all[b]
      PROVE  a = b
  <2> DEFINE n == Len(slots)
  <2>1. /\ a \in 1 .. n \/ a - n \in 1 .. Len(tstream)
        /\ b \in 1 .. n \/ b - n \in 1 .. Len(tstream)
        /\ a \in Nat /\ b \in Nat
    BY <1>1, <1>3
  <2>2. /\ a \in 1 .. n => all[a] = slots[a]
        /\ a \notin 1 .. n => all[a] = tstream[a - n]
        /\ b \in 1 .. n => all[b] = slots[b]
        /\ b \notin 1 .. n => all[b] = tstream[b - n]
    BY <1>1, <1>2, <1>3
  <2>3. CASE a \in 1 .. n /\ b \in 1 .. n
    BY <1>4, <1>6, <2>2, <2>3 DEF Distinct
  <2>4. CASE a \notin 1 .. n /\ b \notin 1 .. n
    <3>1. a - n = b - n
      BY <1>4, <1>6, <2>1, <2>2, <2>4 DEF Distinct
    <3> QED
      BY <1>1, <2>1, <3>1
  <2> QED
    BY <1>5, <1>6, <2>1, <2>2, <2>3, <2>4
<1> QED
  BY <1>6 DEF AdoptedOnce, IsInjective, all

\* T reports a port once (T.c:83), so ISS never listens on one port twice.
THEOREM PortsAdoptedOnce == Spec => []AdoptedOnce
  BY PlaceInvariant, ReportedMeansAdoptedOnce, PTL

\* ISS blocks in accept, deaf to every other port, only after it has read a
\* revents that poll never wrote (ISS.c:171-173, 236).
THEOREM BlocksOnlyWhenGarbled == Spec => []BlockedOnlyWhenGarbled
<1>1. PlaceInv => BlockedOnlyWhenGarbled
  <2> SUFFICES ASSUME PlaceInv, IssBlockedInAccept
               PROVE  garbled
    BY DEF BlockedOnlyWhenGarbled
  <2>1. Index \in todo
    BY IndexInTodo DEF IssBlockedInAccept, PlaceInv, ServiceInv
  <2> QED
    BY <2>1 DEF IssBlockedInAccept, PlaceInv, SeenWaits
<1> QED
  BY <1>1, PlaceInvariant, PTL
=============================================================================
