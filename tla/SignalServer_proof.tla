------------------------- MODULE SignalServer_proof -------------------------
(***************************************************************************)
(* Theorems about SignalServer: for any number of services and clients and    *)
(* any size of the ring, what is in the queue and in the ring.               *)
(***************************************************************************)
EXTENDS SignalServer, FiniteSetTheorems, SequenceTheorems, WellFoundedInduction, TLAPS

Addresses == Clients \union {Nobody, Garbage}

Entries == 0..RingSize - 1

TypeOK ==
    /\ cst \in [Clients -> {"idle", "first", "queued", "taken", "answered", "reset"}]
    /\ spc \in {"poll", "look", "store", "copy", "read", "write", "fork", "close"}
    /\ todo \subseteq Services /\ cur \in Services \union {0} /\ who \in Addresses
    /\ reg \in Entries /\ N \in Entries
    /\ LastTen \in [Entries -> Addresses] /\ log \in Seq(Addresses)
    /\ listens \in [Services -> BOOLEAN] /\ heirs \in [Services -> SUBSET Services]
    /\ firstQ \in [Services -> Seq(Clients)] /\ ownQ \in [Services -> Seq(Clients)]
    /\ pending \in BOOLEAN /\ handling \in BOOLEAN /\ raced \in BOOLEAN
    /\ msgq \in Seq(Addresses) /\ merged \in Nat /\ left \in Nat
    /\ pc \in [Services -> {"down", "bind", "accept", "msgsnd", "kill", "answer"}]
    /\ greet \in [Services -> Addresses] /\ client \in [Services -> Addresses]

\* A service is forked once: the server still has the listening socket of those
\* it has not started, and of the one it has just started until close(sfd[i]).
ForkedOnce ==
    /\ \A s \in Services : listens[s] /\ pc[s] # "down" => spc = "close" /\ s = cur
    /\ \A s \in todo : listens[s] /\ firstQ[s] # <<>>
    /\ spc \in {"store", "copy", "read", "write", "fork", "close"} =>
         cur \in Services \ todo /\ listens[cur]

\* The entries before n, going back round the ring, are the last notes.
RingEnds(ring, notes, n) ==
    \A j \in 1..RingSize :
        j <= Len(notes) => ring[(n + RingSize - j) % RingSize] = notes[Len(notes) + 1 - j]

\* The entry the next address goes to, once the main loop's note is complete.
Top == IF spc \in {"read", "write"} THEN (N + 1) % RingSize ELSE N

\* Unless the handler has come between, the main loop writes at the N that it
\* read, and adds 1 to it, and the ring is the end of the log, the latest entry
\* before Top.
RingKept ==
    ~raced =>
        /\ handling => spc \notin {"copy", "read", "write"}
        /\ spc \in {"copy", "write"} => reg = N
        /\ RingEnds(LastTen, log, Top)

ServerInv == TypeOK /\ ForkedOnce /\ QueueAccounted /\ RingKept

-----------------------------------------------------------------------------
(* The ring *)

\* Arithmetic modulo the size of the ring, for numbers below twice the size.
LEMMA ModSmall ==
  ASSUME NEW r \in Nat \ {0}, NEW n \in 0..r - 1
  PROVE  n % r = n /\ (n + r) % r = n
  OBVIOUS

LEMMA NextEntry ==
  ASSUME NEW n \in Entries
  PROVE  (n + 1) % RingSize = IF n + 1 = RingSize THEN 0 ELSE n + 1
<1>1. RingSize \in Nat \ {0} /\ n \in 0..RingSize - 1
  BY RingSizeAssumption DEF Entries
<1>2. CASE n + 1 = RingSize
  <2>1. (0 + RingSize) % RingSize = 0
    BY <1>1, ModSmall
  <2> QED
    BY <1>1, <1>2, <2>1
<1>3. CASE n + 1 # RingSize
  <2>1. n + 1 \in 0..RingSize - 1
    BY <1>1, <1>3
  <2> QED
    BY <1>1, <1>3, <2>1, ModSmall
<1> QED
  BY <1>2, <1>3

LEMMA EarlierEntry ==
  ASSUME NEW n \in Entries, NEW j \in 1..RingSize
  PROVE  (n + RingSize - j) % RingSize = IF n >= j THEN n - j ELSE n + RingSize - j
<1>1. RingSize \in Nat \ {0} /\ n \in 0..RingSize - 1
  BY RingSizeAssumption DEF Entries
<1>2. CASE n >= j
  <2>1. n - j \in 0..RingSize - 1 /\ n + RingSize - j = (n - j) + RingSize
    BY <1>1, <1>2
  <2> QED
    BY <1>1, <1>2, <2>1, ModSmall
<1>3. CASE ~(n >= j)
  <2>1. n + RingSize - j \in 0..RingSize - 1
    BY <1>1, <1>3
  <2> QED
    BY <1>1, <1>3, <2>1, ModSmall
<1> QED
  BY <1>2, <1>3

\* Noting an address in the entry after the latest keeps the ring the end of
\* the log, also when the entry overwrites the oldest.
LEMMA NotingKeepsRing ==
  ASSUME NEW ring \in [Entries -> Addresses], NEW notes \in Seq(Addresses),
         NEW n \in Entries, NEW a \in Addresses, RingEnds(ring, notes, n)
  PROVE  RingEnds([ring EXCEPT ![n] = a], Append(notes, a), (n + 1) % RingSize)
<1> DEFINE ring2 == [ring EXCEPT ![n] = a]
           notes2 == Append(notes, a)
           m == (n + 1) % RingSize
<1>1. RingSize \in Nat \ {0} /\ n \in 0..RingSize - 1
  BY RingSizeAssumption DEF Entries
<1>2. m = (IF n + 1 = RingSize THEN 0 ELSE n + 1) /\ m \in Entries
  BY <1>1, NextEntry DEF Entries
<1>3. /\ Len(notes) \in Nat /\ Len(notes2) = Len(notes) + 1
      /\ notes2[Len(notes) + 1] = a
      /\ \A i \in 1..Len(notes) : notes2[i] = notes[i]
  BY AppendProperties
<1>4. ring2[n] = a /\ \A k \in Entries \ {n} : ring2[k] = ring[k]
  OBVIOUS
<1> HIDE DEF ring2, notes2, m
<1>5. ASSUME NEW j \in 1..RingSize, j <= Len(notes2)
      PROVE  ring2[(m + RingSize - j) % RingSize] = notes2[Len(notes2) + 1 - j]
  <2> DEFINE k == (m + RingSize - j) % RingSize
  <2>1. k = IF m >= j THEN m - j ELSE m + RingSize - j
    BY <1>2, EarlierEntry
  <2>2. CASE j = 1
    <3>1. k = n
      BY <1>1, <1>2, <2>1, <2>2
    <3> QED
      BY <1>3, <1>4, <2>2, <3>1
  <2>3. CASE j # 1
    <3> DEFINE i == j - 1
    <3>1. i \in 1..RingSize /\ i <= Len(notes)
      BY <1>1, <1>3, <1>5, <2>3
    <3>2. (n + RingSize - i) % RingSize = IF n >= i THEN n - i ELSE n + RingSize - i
      BY <3>1, EarlierEntry
    <3>3. k = (n + RingSize - i) % RingSize /\ k \in Entries \ {n}
      BY <1>1, <1>2, <2>1, <2>3, <3>2 DEF Entries
    <3>4. ring[k] = notes[Len(notes) + 1 - i]
      BY <3>1, <3>3 DEF RingEnds
    <3>5. Len(notes) + 1 - i \in 1..Len(notes) /\ Len(notes2) + 1 - j = Len(notes) + 1 - i
      BY <1>1, <1>3, <3>1
    <3> QED
      BY <1>3, <1>4, <3>3, <3>4, <3>5
  <2> QED
    BY <2>2, <2>3
<1> QED
  BY <1>5 DEF RingEnds, ring2, notes2, m

-----------------------------------------------------------------------------
(* Sets and queues *)

\* The main loop looks at the least service that is left.
LEMMA LeastInTodo ==
  ASSUME todo \subseteq Services, todo # {}
  PROVE  Min(todo) \in todo
<1>1. todo \subseteq Nat
  BY ServicesAssumption
<1> DEFINE LessThan == {ss \in Nat \X Nat : ss[1] < ss[2]}
<1>2. IsWellFoundedOn(LessThan, Nat)
  BY NatLessThanWellFounded, Zenon DEF OpToRel
<1>3. PICK n \in todo : \A m \in todo : ~(<<m, n>> \in LessThan)
  <2> HIDE DEF LessThan
  <2> QED
    BY <1>1, <1>2, WFMin
<1>4. ASSUME NEW m \in todo
      PROVE  n <= m
  <2>1. m \in Nat /\ n \in Nat
    BY <1>1
  <2>2. m < n => <<m, n>> \in LessThan
    BY <2>1, Zenon
  <2> HIDE DEF LessThan
  <2>3. ~(m < n)
    BY <1>3, <2>2
  <2> QED
    BY <2>1, <2>3
<1> QED
  BY <1>4 DEF Min

LEMMA Taking ==
  ASSUME NEW S, NEW s \in Seq(S), s # <<>>
  PROVE  /\ Head(s) \in S /\ Tail(s) \in Seq(S)
         /\ Len(s) \in Nat /\ Len(Tail(s)) = Len(s) - 1
  BY HeadTailProperties

LEMMA Adding ==
  ASSUME NEW S, NEW s \in Seq(S), NEW e \in S
  PROVE  /\ Append(s, e) \in Seq(S) /\ Append(s, e) # <<>>
         /\ Len(s) \in Nat /\ Len(Append(s, e)) = Len(s) + 1
  BY AppendProperties

\* Services about to signal: their number changes by one with a service that
\* comes to do so, or has done so.
Killers == {s \in Services : pc[s] = "kill"}

LEMMA KillersFinite == IsFiniteSet(Killers) /\ Cardinality(Killers) \in Nat
<1>1. Killers \in SUBSET Services
  BY DEF Killers
<1>2. IsFiniteSet(Killers)
  BY <1>1, ServicesAssumption, FS_Subset
<1> QED
  BY <1>2, FS_CardinalityType

LEMMA OneMoreKiller ==
  ASSUME TypeOK, NEW s \in Services, pc[s] # "kill", pc' = [pc EXCEPT ![s] = "kill"]
  PROVE  Cardinality(Killers') = Cardinality(Killers) + 1
<1>1. Killers' = Killers \union {s} /\ s \notin Killers
  BY DEF TypeOK, Killers
<1> QED
  BY <1>1, KillersFinite, FS_AddElement

LEMMA OneKillerLess ==
  ASSUME TypeOK, NEW s \in Services, NEW p, pc[s] = "kill", p # "kill",
         pc' = [pc EXCEPT ![s] = p]
  PROVE  Cardinality(Killers') = Cardinality(Killers) - 1
<1>1. Killers' = Killers \ {s} /\ s \in Killers
  BY DEF TypeOK, Killers
<1> QED
  BY <1>1, KillersFinite, FS_RemoveElement

LEMMA SameKillers ==
  ASSUME TypeOK, NEW s \in Services, NEW p, pc[s] # "kill", p # "kill",
         pc' = [pc EXCEPT ![s] = p]
  PROVE  Killers' = Killers
  BY DEF TypeOK, Killers

-----------------------------------------------------------------------------
\* Nothing is started at first; what an earlier run left is in the queue.
LEMMA InitServerInv == Init => ServerInv
<1> SUFFICES ASSUME Init PROVE ServerInv
  OBVIOUS
<1> USE RingSizeAssumption, LeftInQueueAssumption DEF Init
<1>1. \A S : <<>> \in Seq(S)
  OBVIOUS
<1>2. left \in Nat
  OBVIOUS
<1>3. msgq \in Seq(Addresses) /\ Len(msgq) = left
  <2>1. msgq \in [1..left -> Addresses]
    BY DEF Addresses
  <2> QED
    BY <1>2, <2>1, SeqDef
<1>4. TypeOK
  <2>1. 0 \in Entries
    BY DEF Entries
  <2>2. LastTen \in [Entries -> Addresses] /\ who \in Addresses
    BY DEF Entries, Addresses
  <2>3. /\ firstQ \in [Services -> Seq(Clients)] /\ ownQ \in [Services -> Seq(Clients)]
        /\ log \in Seq(Addresses)
    BY <1>1
  <2>4. greet \in [Services -> Addresses] /\ client \in [Services -> Addresses]
    BY DEF Addresses
  <2> QED
    BY <1>2, <1>3, <2>1, <2>2, <2>3, <2>4 DEF TypeOK
<1>5. ForkedOnce
  BY DEF ForkedOnce
<1>6. QueueAccounted
  <2>1. {s \in Services : pc[s] = "kill"} = {}
    OBVIOUS
  <2>2. Cardinality({s \in Services : pc[s] = "kill"}) = 0
    BY <2>1, FS_EmptySet
  <2> QED
    BY <1>2, <1>3, <2>2 DEF QueueAccounted, One
<1>7. RingKept
  BY DEF RingKept, RingEnds
<1> QED
  BY <1>4, <1>5, <1>6, <1>7 DEF ServerInv

\* Every step keeps the types.
LEMMA StepTypes ==
  ASSUME ServerInv, [Next]_vars
  PROVE  TypeOK'
<1> USE RingSizeAssumption, ServiceOfAssumption
    DEF ServerInv, TypeOK, servervars, ringvars, sockvars, sigvars, servicevars
<1>m. \A n \in Entries : (n + 1) % RingSize \in Entries
  BY NextEntry DEF Entries
<1>1. ASSUME NEW c \in Clients, ClientConnect(c)
      PROVE  TypeOK'
  <2> DEFINE s == ServiceOf[c]
  <2>1. s \in Services
    OBVIOUS
  <2>2. \/ ownQ' = ownQ /\ firstQ' = [firstQ EXCEPT ![s] = Append(firstQ[s], c)]
        \/ firstQ' = firstQ /\ ownQ' = [ownQ EXCEPT ![s] = Append(ownQ[s], c)]
    BY <1>1 DEF ClientConnect
  <2> HIDE DEF s
  <2>3. Append(firstQ[s], c) \in Seq(Clients) /\ Append(ownQ[s], c) \in Seq(Clients)
    BY <2>1, Adding
  <2>4. firstQ' \in [Services -> Seq(Clients)]
    BY <2>1, <2>2, <2>3
  <2>5. ownQ' \in [Services -> Seq(Clients)]
    BY <2>1, <2>2, <2>3
  <2> QED
    BY <1>1, <2>4, <2>5 DEF ClientConnect
<1>2. CASE MainPoll
  BY <1>2 DEF MainPoll
<1>3. CASE MainAccept
  <2> DEFINE s == Min(todo)
  <2>1. s \in Services /\ s \in todo /\ firstQ[s] # <<>>
    BY <1>3, LeastInTodo DEF MainAccept, ForkedOnce
  <2> HIDE DEF s
  <2>2. Head(firstQ[s]) \in Clients /\ Tail(firstQ[s]) \in Seq(Clients)
    BY <2>1, Taking
  <2>3. /\ cur' = s /\ firstQ' = [firstQ EXCEPT ![s] = Tail(@)] /\ todo' = todo \ {s}
        /\ \/ who' = Head(firstQ[s]) /\ cst' = [cst EXCEPT ![Head(firstQ[s])] = "taken"]
           \/ who' = Garbage /\ cst' = [cst EXCEPT ![Head(firstQ[s])] = "reset"]
    BY <1>3 DEF MainAccept, s
  <2>4. cst' \in [Clients -> {"idle", "first", "queued", "taken", "answered", "reset"}]
    BY <2>2, <2>3
  <2>5. who' \in Addresses /\ firstQ' \in [Services -> Seq(Clients)]
    BY <2>1, <2>2, <2>3 DEF Addresses
  <2>6. cur' \in Services \union {0} /\ todo' \subseteq Services
    BY <2>1, <2>3
  <2>7. /\ spc' \in {"poll", "look", "store", "copy", "read", "write", "fork", "close"}
        /\ UNCHANGED <<reg, N, LastTen, log, listens, heirs, ownQ, sigvars, servicevars>>
    BY <1>3 DEF MainAccept
  <2> QED
    BY <2>4, <2>5, <2>6, <2>7
<1>i. CASE MainIndex
  BY <1>i DEF MainIndex
<1>4. CASE MainStore
  <2>1. Append(log, who) \in Seq(Addresses) /\ 0 \in Entries
    BY Adding, RingSizeAssumption DEF Entries
  <2> QED
    BY <1>4, <2>1 DEF MainStore
<1>5. CASE MainRead
  BY <1>5 DEF MainRead
<1>6. CASE MainWrite
  BY <1>6, <1>m DEF MainWrite, Entries
<1>7. CASE MainFork
  <2>1. cur \in Services
    BY <1>7 DEF MainFork, MainAt, ForkedOnce
  <2>2. heirs' \in [Services -> SUBSET Services]
    BY <1>7, <2>1 DEF MainFork
  <2>3. greet' \in [Services -> Addresses] /\ who' \in Addresses
    BY <1>7, <2>1 DEF MainFork, Addresses
  <2> QED
    BY <1>7, <2>2, <2>3 DEF MainFork
<1>8. CASE MainClose
  <2>1. <<>> \in Seq(Clients)
    OBVIOUS
  <2>2. firstQ' = firstQ \/ firstQ' = [firstQ EXCEPT ![cur] = <<>>]
    BY <1>8 DEF MainClose
  <2>3. firstQ' \in [Services -> Seq(Clients)]
    BY <2>1, <2>2
  <2>4. cst' \in [Clients -> {"idle", "first", "queued", "taken", "answered", "reset"}]
    <3>1. \/ cst' = cst
          \/ cst' = [c \in Clients |-> IF cst[c] = "first" /\ ServiceOf[c] = cur
                                       THEN "reset" ELSE cst[c]]
      BY <1>8 DEF MainClose
    <3> QED
      BY <3>1
  <2> QED
    BY <1>8, <2>3, <2>4 DEF MainClose
<1>9. CASE HandlerEnter
  BY <1>9 DEF HandlerEnter
<1>10. CASE HandlerReceive
  <2>1. Head(msgq) \in Addresses /\ Tail(msgq) \in Seq(Addresses)
    BY <1>10, Taking DEF HandlerReceive
  <2>2. Append(log, Head(msgq)) \in Seq(Addresses)
    BY <2>1, Adding
  <2> QED
    BY <1>10, <1>m, <2>1, <2>2 DEF HandlerReceive
<1>11. ASSUME NEW s \in Services, ServiceGreet(s)
       PROVE  TypeOK'
  BY <1>11 DEF ServiceGreet, Addresses
<1>12. ASSUME NEW s \in Services, ServiceStep(s)
       PROVE  TypeOK'
  <2>1. CASE ServiceBind(s)
    BY <2>1 DEF ServiceBind
  <2>2. CASE ServiceAccept(s)
    <3>1. Head(ownQ[s]) \in Clients /\ Tail(ownQ[s]) \in Seq(Clients)
      BY <2>2, Taking DEF ServiceAccept
    <3>2. client' \in [Services -> Addresses]
      BY <2>2, <3>1 DEF ServiceAccept, Addresses
    <3>3. ownQ' \in [Services -> Seq(Clients)]
      BY <2>2, <3>1 DEF ServiceAccept
    <3> QED
      BY <2>2, <3>2, <3>3 DEF ServiceAccept
  <2>3. CASE ServiceSend(s)
    <3>1. Append(msgq, client[s]) \in Seq(Addresses)
      BY Adding
    <3> QED
      BY <2>3, <3>1 DEF ServiceSend
  <2>4. CASE ServiceKill(s)
    BY <2>4 DEF ServiceKill
  <2>5. CASE ServiceAnswer(s)
    BY <2>5 DEF ServiceAnswer, Addresses
  <2> QED
    BY <1>12, <2>1, <2>2, <2>3, <2>4, <2>5 DEF ServiceStep
<1>13. CASE UNCHANGED vars
  BY <1>13 DEF vars
<1> QED
  BY <1>1, <1>2, <1>3, <1>i, <1>4, <1>5, <1>6, <1>7, <1>8, <1>9, <1>10, <1>11, <1>12, <1>13
  DEF Next, MainStep

\* Every step keeps a service from being forked twice: close(sfd[i]) comes
\* before the next poll.
LEMMA StepForked ==
  ASSUME ServerInv, [Next]_vars
  PROVE  ForkedOnce'
<1> USE DEF ServerInv, TypeOK, MainAt, servervars, ringvars, sockvars, sigvars, servicevars
<1>u. UNCHANGED <<spc, todo, cur, listens, firstQ, pc>> => ForkedOnce'
  BY DEF ForkedOnce
<1>1. ASSUME NEW c \in Clients, ClientConnect(c)
      PROVE  ForkedOnce'
  <2> DEFINE s == ServiceOf[c]
  <2>1. s \in Services
    BY ServiceOfAssumption
  <2>2. firstQ' = firstQ \/ firstQ' = [firstQ EXCEPT ![s] = Append(firstQ[s], c)]
    BY <1>1 DEF ClientConnect
  <2>3. UNCHANGED <<spc, todo, cur, listens, pc>>
    BY <1>1 DEF ClientConnect
  <2> HIDE DEF s
  <2>4. Append(firstQ[s], c) # <<>>
    BY <2>1, Adding
  <2>5. \A t \in Services : firstQ[t] # <<>> => firstQ'[t] # <<>>
    BY <2>1, <2>2, <2>4
  <2> QED
    BY <2>3, <2>5 DEF ForkedOnce
<1>2. CASE MainPoll
  BY <1>2 DEF MainPoll, ForkedOnce
<1>3. CASE MainAccept
  <2> DEFINE s == Min(todo)
  <2>1. s \in todo
    BY <1>3, LeastInTodo DEF MainAccept
  <2>2. /\ cur' = s /\ todo' = todo \ {s} /\ spc = "look" /\ spc' = "store"
        /\ firstQ' = [firstQ EXCEPT ![s] = Tail(@)] /\ UNCHANGED <<listens, pc>>
    BY <1>3 DEF MainAccept
  <2> HIDE DEF s
  <2> QED
    BY <2>1, <2>2 DEF ForkedOnce
<1>4. CASE MainIndex \/ MainStore \/ MainRead \/ MainWrite
  BY <1>4 DEF MainIndex, MainStore, MainRead, MainWrite, ForkedOnce
<1>5. CASE MainFork
  BY <1>5 DEF MainFork, ForkedOnce
<1>6. CASE MainClose
  <2>1. /\ spc = "close" /\ listens' = [listens EXCEPT ![cur] = FALSE]
        /\ spc' = (IF todo = {} THEN "poll" ELSE "look") /\ UNCHANGED <<todo, cur, pc>>
    BY <1>6 DEF MainClose
  <2>2. \A t \in Services : t # cur => firstQ'[t] = firstQ[t]
    BY <1>6 DEF MainClose
  <2> QED
    BY <2>1, <2>2 DEF ForkedOnce
<1>7. CASE HandlerEnter \/ HandlerReceive
  BY <1>7, <1>u DEF HandlerEnter, HandlerReceive
<1>8. ASSUME NEW s \in Services, ServiceGreet(s)
      PROVE  ForkedOnce'
  BY <1>8, <1>u DEF ServiceGreet
<1>9. ASSUME NEW s \in Services, ServiceStep(s)
      PROVE  ForkedOnce'
  <2>1. pc[s] # "down" /\ \A t \in Services : t # s => pc'[t] = pc[t]
    BY <1>9 DEF ServiceStep, ServiceBind, ServiceAccept, ServiceSend, ServiceKill, ServiceAnswer
  <2>2. UNCHANGED <<spc, todo, cur, listens, firstQ>>
    BY <1>9 DEF ServiceStep, ServiceBind, ServiceAccept, ServiceSend, ServiceKill, ServiceAnswer
  <2> QED
    BY <2>1, <2>2 DEF ForkedOnce
<1>10. CASE UNCHANGED vars
  BY <1>10, <1>u DEF vars
<1> QED
  BY <1>1, <1>2, <1>3, <1>4, <1>5, <1>6, <1>7, <1>8, <1>9, <1>10 DEF Next, MainStep

\* The account's sum when a message is sent, a signal is sent, the handler
\* starts, and the handler has taken its message.
LEMMA Sums ==
  \A k, p, h, m, l \in Nat :
    /\ (k + 1) + p + h + m + l = (k + p + h + m + l) + 1
    /\ (k - 1) + 1 + h + (m + p) + l = k + p + h + m + l
    /\ k + 0 + 1 + m + l = k + 1 + 0 + m + l
    /\ k + p + 0 + m + l = (k + p + 1 + m + l) - 1
  OBVIOUS

\* Every step keeps the account of the queue.  MainFork relies on a service not
\* being started again while it is about to signal.
LEMMA StepQueue ==
  ASSUME ServerInv, [Next]_vars
  PROVE  QueueAccounted'
<1> USE DEF MainAt, servervars, ringvars, sockvars, sigvars, servicevars
<1>t. TypeOK
  BY DEF ServerInv
<1> DEFINE Account == Len(msgq) = Cardinality(Killers) + One(pending) + One(handling) + merged + left
<1>q. Account
  BY DEF ServerInv, QueueAccounted, Killers
<1> SUFFICES Account'
  BY DEF QueueAccounted, Killers
<1>k. /\ Cardinality(Killers) \in Nat /\ Len(msgq) \in Nat
      /\ merged \in Nat /\ left \in Nat
  BY <1>t, KillersFinite DEF TypeOK
<1>o. \A b \in BOOLEAN : One(b) \in Nat
  BY DEF One
<1>b. pending \in BOOLEAN /\ handling \in BOOLEAN
  BY <1>t DEF TypeOK
<1>u. Killers' = Killers /\ UNCHANGED sigvars => Account'
  BY <1>q
<1>1. ASSUME NEW c \in Clients, ClientConnect(c)
      PROVE  Account'
  BY <1>1, <1>u DEF ClientConnect, Killers
<1>2. CASE MainPoll \/ MainAccept \/ MainIndex \/ MainStore
  BY <1>2, <1>u DEF MainPoll, MainAccept, MainIndex, MainStore, Killers
<1>3. CASE MainRead \/ MainWrite \/ MainClose
  BY <1>3, <1>u DEF MainRead, MainWrite, MainClose, Killers
<1>4. CASE MainFork
  <2>1. cur \in Services /\ pc[cur] = "down" /\ pc' = [pc EXCEPT ![cur] = "bind"]
    BY <1>4 DEF MainFork, ServerInv, ForkedOnce
  <2>2. Killers' = Killers
    BY <1>t, <2>1, SameKillers
  <2> QED
    BY <1>4, <1>u, <2>2 DEF MainFork
<1>5. CASE HandlerEnter
  <2>1. Killers' = Killers /\ UNCHANGED <<msgq, merged, left>>
    BY <1>5 DEF HandlerEnter, Killers
  <2>2. pending /\ ~handling /\ ~pending' /\ handling'
    BY <1>5 DEF HandlerEnter
  <2>3. Account <=> Len(msgq) = Cardinality(Killers) + 1 + 0 + merged + left
    BY <2>2 DEF One
  <2>4. Account' <=> Len(msgq) = Cardinality(Killers) + 0 + 1 + merged + left
    BY <2>1, <2>2 DEF One
  <2> QED
    BY <1>k, <1>q, <2>3, <2>4, Sums
<1>6. CASE HandlerReceive
  <2>1. Killers' = Killers /\ UNCHANGED <<pending, merged, left>>
    BY <1>6 DEF HandlerReceive, Killers
  <2>2. handling /\ ~handling' /\ Len(msgq') = Len(msgq) - 1
    BY <1>t, <1>6, Taking DEF TypeOK, HandlerReceive
  <2>3. Account <=> Len(msgq) = Cardinality(Killers) + One(pending) + 1 + merged + left
    BY <2>2 DEF One
  <2>4. Account' <=> Len(msgq) - 1 = Cardinality(Killers) + One(pending) + 0 + merged + left
    BY <2>1, <2>2 DEF One
  <2>5. One(pending) \in Nat
    BY <1>o, <1>b
  <2> QED
    BY <1>k, <1>q, <2>3, <2>4, <2>5, Sums
<1>7. ASSUME NEW s \in Services, ServiceGreet(s)
      PROVE  Account'
  BY <1>7, <1>u DEF ServiceGreet, Killers
<1>8. ASSUME NEW s \in Services, ServiceStep(s)
      PROVE  Account'
  <2>1. CASE ServiceBind(s) \/ ServiceAccept(s) \/ ServiceAnswer(s)
    <3>1. Killers' = Killers
      BY <1>t, <2>1, SameKillers DEF ServiceBind, ServiceAccept, ServiceAnswer
    <3> QED
      BY <2>1, <1>u, <3>1 DEF ServiceBind, ServiceAccept, ServiceAnswer
  <2>2. CASE ServiceSend(s)
    <3>1. Cardinality(Killers') = Cardinality(Killers) + 1
      BY <1>t, <2>2, OneMoreKiller DEF ServiceSend
    <3>2. Len(msgq') = Len(msgq) + 1 /\ UNCHANGED <<pending, handling, merged, left>>
      BY <1>t, <2>2, Adding DEF TypeOK, ServiceSend
    <3>3. /\ One(pending)' = One(pending) /\ One(handling)' = One(handling)
          /\ merged' = merged /\ left' = left
      BY <3>2 DEF One
    <3>4. One(pending) \in Nat /\ One(handling) \in Nat
      BY <1>o, <1>b
    <3>5. Account' <=> Len(msgq) + 1 = (Cardinality(Killers) + 1) + One(pending) + One(handling) + merged + left
      BY <3>1, <3>2, <3>3
    <3> QED
      BY <1>k, <1>q, <3>4, <3>5, Sums
  <2>3. CASE ServiceKill(s)
    <3>1. Cardinality(Killers') = Cardinality(Killers) - 1
      BY <1>t, <2>3, OneKillerLess DEF ServiceKill
    <3>2. /\ UNCHANGED <<msgq, handling, left>> /\ pending'
          /\ merged' = IF pending THEN merged + 1 ELSE merged
      BY <2>3 DEF ServiceKill
    <3>3. /\ One(pending)' = 1 /\ One(handling)' = One(handling)
          /\ merged' = merged + One(pending) /\ left' = left /\ msgq' = msgq
      BY <1>k, <1>b, <3>2 DEF One
    <3>4. One(pending) \in Nat /\ One(handling) \in Nat
      BY <1>o, <1>b
    <3>5. Account' <=> Len(msgq) = (Cardinality(Killers) - 1) + 1 + One(handling) + (merged + One(pending)) + left
      BY <3>1, <3>3
    <3> QED
      BY <1>k, <1>q, <3>4, <3>5, Sums
  <2> QED
    BY <1>8, <2>1, <2>2, <2>3 DEF ServiceStep
<1>9. CASE UNCHANGED vars
  BY <1>9, <1>u DEF vars, Killers
<1> QED
  BY <1>1, <1>2, <1>3, <1>4, <1>5, <1>6, <1>7, <1>8, <1>9 DEF Next, MainStep

\* Every step keeps the ring, as long as the handler stays out of the main
\* loop's note.
LEMMA StepRing ==
  ASSUME ServerInv, [Next]_vars
  PROVE  RingKept'
<1> USE DEF ServerInv, TypeOK, MainAt, servervars, ringvars, sockvars, sigvars, servicevars
<1>u. UNCHANGED <<spc, reg, N, LastTen, log, handling, raced>> => RingKept'
  BY DEF RingKept, Top
<1>1. ASSUME NEW c \in Clients, ClientConnect(c)
      PROVE  RingKept'
  BY <1>1, <1>u DEF ClientConnect
<1>2. CASE MainPoll \/ MainAccept \/ MainFork \/ MainClose
  <2>1. /\ spc \notin {"copy", "read", "write"} /\ spc' \notin {"copy", "read", "write"}
        /\ UNCHANGED <<N, LastTen, log, raced>>
    BY <1>2 DEF MainPoll, MainAccept, MainFork, MainClose
  <2> QED
    BY <2>1 DEF RingKept, Top
<1>i. CASE MainIndex
  <2>1. /\ spc = "store" /\ spc' = "copy" /\ ~handling /\ reg' = N
        /\ UNCHANGED <<N, LastTen, log, handling, raced>>
    BY <1>i DEF MainIndex
  <2> QED
    BY <2>1 DEF RingKept, Top
<1>3. CASE MainStore
  <2>1. /\ spc = "copy" /\ spc' = "read" /\ ~handling /\ UNCHANGED <<N, handling, raced>>
        /\ LastTen' = [LastTen EXCEPT ![reg] = who] /\ log' = Append(log, who)
    BY <1>3 DEF MainStore
  <2>r. ~raced => reg = N
    BY <2>1 DEF RingKept
  <2>2. ~raced => RingEnds(LastTen, log, N)
    BY <2>1 DEF RingKept, Top
  <2>3. ~raced => RingEnds(LastTen', log', (N + 1) % RingSize)
    BY <2>1, <2>r, <2>2, NotingKeepsRing
  <2> QED
    BY <2>1, <2>3 DEF RingKept, Top
<1>4. CASE MainRead
  <2>1. /\ spc = "read" /\ spc' = "write" /\ ~handling /\ reg' = N
        /\ UNCHANGED <<N, LastTen, log, handling, raced>>
    BY <1>4 DEF MainRead
  <2> QED
    BY <2>1 DEF RingKept, Top
<1>5. CASE MainWrite
  <2>1. /\ spc = "write" /\ spc' = "fork" /\ N' = (reg + 1) % RingSize
        /\ UNCHANGED <<LastTen, log, handling, raced>>
    BY <1>5 DEF MainWrite
  <2>2. ~raced => N' = (N + 1) % RingSize
    BY <2>1 DEF RingKept
  <2> QED
    BY <2>1, <2>2 DEF RingKept, Top
<1>6. CASE HandlerEnter
  <2>1. /\ raced' = (raced \/ spc \in {"copy", "read", "write"})
        /\ UNCHANGED <<spc, reg, N, LastTen, log>>
    BY <1>6 DEF HandlerEnter
  <2> QED
    BY <2>1 DEF RingKept, Top
<1>7. CASE HandlerReceive
  <2>1. /\ handling /\ ~handling' /\ N' = (N + 1) % RingSize /\ UNCHANGED <<spc, reg, raced>>
        /\ LastTen' = [LastTen EXCEPT ![N] = Head(msgq)] /\ log' = Append(log, Head(msgq))
    BY <1>7 DEF HandlerReceive
  <2>2. Head(msgq) \in Addresses
    BY <1>7, Taking DEF HandlerReceive
  <2>3. ~raced => spc \notin {"copy", "read", "write"} /\ RingEnds(LastTen, log, N)
    BY <2>1 DEF RingKept, Top
  <2>4. ~raced => RingEnds(LastTen', log', N')
    BY <2>1, <2>2, <2>3, NotingKeepsRing
  <2> QED
    BY <2>1, <2>3, <2>4 DEF RingKept, Top
<1>8. ASSUME NEW s \in Services, ServiceGreet(s) \/ ServiceStep(s)
      PROVE  RingKept'
  BY <1>8, <1>u DEF ServiceGreet, ServiceStep, ServiceBind, ServiceAccept, ServiceSend,
     ServiceKill, ServiceAnswer
<1>9. CASE UNCHANGED vars
  BY <1>9, <1>u DEF vars
<1> QED
  BY <1>1, <1>2, <1>i, <1>3, <1>4, <1>5, <1>6, <1>7, <1>8, <1>9 DEF Next, MainStep

-----------------------------------------------------------------------------
\* Services are started once, the queue is accounted for and the ring is kept,
\* in whatever order the main loop, its handler and the services run.
THEOREM ServerInvariant == Spec => []ServerInv
<1>1. Init => ServerInv
  BY InitServerInv
<1>2. ServerInv /\ [Next]_vars => ServerInv'
  BY StepTypes, StepForked, StepQueue, StepRing DEF ServerInv
<1> QED
  BY <1>1, <1>2, PTL DEF Spec

\* Signals coalesce and messages do not (server.c:22); the queue holds one
\* message per service about to signal, pending signal and running handler, and
\* those left behind by merged signals and an earlier run.
THEOREM QueueIsAccounted == Spec => []QueueAccounted
<1>1. ServerInv => QueueAccounted
  BY DEF ServerInv
<1> QED
  BY <1>1, ServerInvariant, PTL

\* So the handler never waits in msgrcv, with the main loop behind it
\* (server.c:22).
THEOREM HandlerNeverWaits == Spec => [](handling => msgq # <<>>)
<1>1. ServerInv => (handling => msgq # <<>>)
  <2> SUFFICES ASSUME ServerInv, handling PROVE Len(msgq) > 0
    OBVIOUS
  <2>1. Cardinality(Killers) \in Nat
    BY KillersFinite
  <2>2. Len(msgq) = Cardinality(Killers) + One(pending) + One(handling) + merged + left
    BY DEF ServerInv, QueueAccounted, Killers
  <2> QED
    BY <2>1, <2>2 DEF ServerInv, TypeOK, One
<1> QED
  BY <1>1, ServerInvariant, PTL

\* The main loop and the handler write one ring and one index (server.c:23, 75);
\* the ring holds the last addresses noted as long as the handler has never run
\* within the main loop's own note, from its first read of N to its write of N.
THEOREM RingIsLastNoted == Spec => []RingIsLast
<1>1. ServerInv => RingIsLast
  BY DEF ServerInv, RingKept, RingEnds, Top, RingIsLast
<1> QED
  BY <1>1, ServerInvariant, PTL

=============================================================================
