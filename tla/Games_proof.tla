---------------------------- MODULE Games_proof -----------------------------
(***************************************************************************)
(* Theorems about the two games.  About BallGame: what the unlocked first     *)
(* and second keep and what the screen shows of them, for any players and any *)
(* number of guesses.  About Lottery, whose definitions have other names:      *)
(* that the judge is fair to any clients, whatever number of coupons they ask  *)
(* for.                                                                      *)
(***************************************************************************)
EXTENDS BallGame, Lottery, SequenceTheorems, TLAPS
Results == Players \cup {Nobody}

Labels == {"none", "recv", "test1", "set1", "say1", "test2", "set2", "say2"}

TypeOK ==
    /\ backlog \in [Teams -> Seq(Players)]
    /\ todo \subseteq Teams
    /\ tpc \in [Teams -> {"down", "connect", "recv_fd", "create", "join", "ended"}]
    /\ pfds \in [Teams -> Seq(Players)]
    /\ first \in [Teams -> Results] /\ second \in [Teams -> Results]
    /\ hpc \in [Teams -> [Seats -> Labels]]
    /\ decided \in [Teams -> Results \X Results]
    /\ used \in [Teams -> BOOLEAN] /\ onAir \in [Teams -> BOOLEAN]
    /\ screen \in BOOLEAN

\* The referee holds a player where it uses one: the teams it has still to
\* serve, without the one it is serving, have somebody waiting.
RefereeHolds ==
    /\ \A t \in Teams : \A k \in 1 .. Len(backlog[t]) : TeamOf[backlog[t][k]] = t
    /\ rpc = "accept" => todo # {} /\ \A t \in todo : backlog[t] # <<>>
    /\ rpc \in {"open", "wait"} =>
          cur \in Players /\ \A t \in todo \ {TeamOf[cur]} : backlog[t] # <<>>

\* A team that receives a descriptor receives a player.
LinkIsPlayer ==
    /\ DOMAIN link = Teams
    /\ \A t \in Teams : tpc[t] = "recv_fd" => link[t] \in Players \cup {"queued", "dropped"}

\* Threads run between pthread_create and pthread_join only, on two players.
Joined ==
    \A t \in Teams :
        /\ tpc[t] \in {"join", "ended"} => Len(pfds[t]) = 2
        /\ tpc[t] # "join" => \A i \in Seats : hpc[t][i] = "none"

\* A thread that is about to write found the variable free in this round.
WritesUndecided ==
    \A t \in Teams, i \in Seats :
        /\ hpc[t][i] = "set1" => decided[t][1] = Nobody
        /\ hpc[t][i] = "set2" => decided[t][2] = Nobody

\* The first round starts with nothing decided, the last one ends with both.
FirstAndLast ==
    \A t \in Teams :
        /\ ~used[t] /\ tpc[t] # "join" => first[t] = Nobody /\ second[t] = Nobody
        /\ tpc[t] = "ended" => first[t] # Nobody /\ second[t] # Nobody

\* Whoever a result names is on the screen, or a thread is still to say it.
Told(t, rank, p, pc) ==
    p # Nobody => <<rank, t, p>> \in shown \/ \E i \in Seats : hpc[t][i] = pc

Announced ==
    \A t \in Teams : onAir[t] =>
        screen /\ Told(t, "First", first[t], "say1") /\ Told(t, "Second", second[t], "say2")

GameInv ==
    /\ TypeOK /\ RefereeHolds /\ LinkIsPlayer /\ Joined
    /\ WritesUndecided /\ DecidedStays /\ FirstAndLast /\ Announced

-----------------------------------------------------------------------------
\* Nothing is decided before the programs run.
LEMMA InitGameInv == Init => GameInv
<1> SUFFICES ASSUME Init PROVE GameInv
  OBVIOUS
<1>1. <<>> \in Seq(Players) /\ Len(<<>>) = 0
  OBVIOUS
<1>2. TypeOK
  BY <1>1 DEF Init, TypeOK, Results, Labels
<1>3. RefereeHolds /\ LinkIsPlayer /\ Joined /\ Announced
  BY <1>1 DEF Init, RefereeHolds, LinkIsPlayer, Joined, Announced, Seats
<1>4. WritesUndecided /\ DecidedStays /\ FirstAndLast
  BY DEF Init, WritesUndecided, DecidedStays, FirstAndLast
<1> QED
  BY <1>2, <1>3, <1>4 DEF GameInv

\* Taking the player that came first, and adding one.
LEMMA Taken ==
  ASSUME NEW s \in Seq(Players), s # <<>>
  PROVE  /\ Head(s) \in Players /\ Tail(s) \in Seq(Players)
         /\ \E k \in 1 .. Len(s) : Head(s) = s[k]
         /\ \A k \in 1 .. Len(Tail(s)) : \E j \in 1 .. Len(s) : Tail(s)[k] = s[j]
<1>1. Len(s) \in Nat /\ Len(s) # 0
  BY EmptySeq
<1>2. /\ Head(s) \in Players /\ Tail(s) \in Seq(Players) /\ Head(s) = s[1]
      /\ Len(Tail(s)) = Len(s) - 1
      /\ \A k \in 1 .. Len(s) - 1 : Tail(s)[k] = s[k + 1]
  BY HeadTailProperties
<1>3. ASSUME NEW k \in 1 .. Len(Tail(s))
      PROVE  Tail(s)[k] = s[k + 1] /\ k + 1 \in 1 .. Len(s)
  BY <1>1, <1>2
<1>4. 1 \in 1 .. Len(s)
  BY <1>1
<1> QED
  BY <1>2, <1>3, <1>4

\* The team the referee serves next is one of those it has to.
LEMMA PolledInTodo ==
  ASSUME TypeOK, todo # {}
  PROVE  Polled \in todo /\ Polled \in Teams
  BY DEF TypeOK, Polled, Teams

\* One thread of one team goes on, the others stay where they are.
LEMMA OneThread ==
  ASSUME hpc \in [Teams -> [Seats -> Labels]], NEW t \in Teams, NEW i \in Seats,
         NEW pc \in Labels, ThreadGoto(t, i, pc)
  PROVE  /\ hpc' \in [Teams -> [Seats -> Labels]]
         /\ \A u \in Teams, j \in Seats :
               hpc'[u][j] = IF u = t /\ j = i THEN pc ELSE hpc[u][j]
<1>1. hpc' = [hpc EXCEPT ![t] = [hpc[t] EXCEPT ![i] = pc]]
  BY DEF ThreadGoto
<1>2. [hpc[t] EXCEPT ![i] = pc] \in [Seats -> Labels]
  OBVIOUS
<1> QED
  BY <1>1, <1>2

\* A step leaves a team's threads, or starts them all together on two players.
LEMMA StepTypes ==
  ASSUME TypeOK, RefereeHolds, LinkIsPlayer, Joined, [Next]_vars
  PROVE  TypeOK'
<1> USE DEF TypeOK, Results, Labels, playervars, refvars, unixvars, collectvars,
            roundvars, screenvars
<1>1. CASE ScreenStart
  BY <1>1 DEF ScreenStart
<1>2. CASE RefStart
  BY <1>2 DEF RefStart
<1>3. CASE RefStep
  <2>1. CASE RefPoll
    BY <2>1 DEF RefPoll
  <2>2. CASE RefAccept
    <3>1. Polled \in Teams /\ backlog[Polled] # <<>>
      BY <2>2, PolledInTodo DEF RefAccept, RefereeHolds
    <3>2. Tail(backlog[Polled]) \in Seq(Players)
      BY <3>1, Taken
    <3> QED
      BY <2>2, <3>1, <3>2 DEF RefAccept
  <2>3. CASE RefOpen
    BY <2>3 DEF RefOpen
  <2>4. CASE RefHandOver
    BY <2>4 DEF RefHandOver
  <2>5. CASE RefAcceptFails
    BY <2>5 DEF RefAcceptFails
  <2> QED
    BY <1>3, <2>1, <2>2, <2>3, <2>4, <2>5 DEF RefStep
<1>4. ASSUME NEW p \in Players, PlayerConnect(p)
      PROVE  TypeOK'
  <2>1. TeamOf[p] \in Teams
    BY TeamOfAssumption DEF Teams
  <2>2. Append(backlog[TeamOf[p]], p) \in Seq(Players)
    BY <2>1, AppendProperties
  <2> QED
    BY <1>4, <2>1, <2>2 DEF PlayerConnect
<1>5. ASSUME NEW p \in Players, PlayerLeave(p)
      PROVE  TypeOK'
  BY <1>5 DEF PlayerLeave
<1>6. ASSUME NEW p \in Players, NEW right \in BOOLEAN, PlayerGuess(p, right)
      PROVE  TypeOK'
  BY <1>6 DEF PlayerGuess
<1>7. ASSUME NEW t \in Teams, TeamStart(t)
      PROVE  TypeOK'
  BY <1>7 DEF TeamStart
<1>8. ASSUME NEW t \in Teams, TeamStep(t)
      PROVE  TypeOK'
  <2>1. CASE TeamConnect(t)
    BY <1>8, <2>1 DEF TeamConnect
  <2>2. CASE TeamRecvFd(t)
    <3>1. \/ pfds' = pfds
          \/ pfds' = [pfds EXCEPT ![t] = Append(@, link[t])] /\ link[t] \in Players
      BY <2>2 DEF TeamRecvFd, LinkIsPlayer
    <3>2. pfds' \in [Teams -> Seq(Players)]
      <4>1. CASE pfds' = pfds
        BY <4>1
      <4>2. CASE pfds' = [pfds EXCEPT ![t] = Append(@, link[t])] /\ link[t] \in Players
        <5>1. Append(pfds[t], link[t]) \in Seq(Players)
          BY <4>2, AppendProperties
        <5> QED
          BY <4>2, <5>1
      <4> QED
        BY <3>1, <4>1, <4>2
    <3> QED
      BY <2>2, <3>2 DEF TeamRecvFd
  <2>3. CASE TeamCreate(t)
    BY <2>3 DEF TeamCreate
  <2>4. CASE TeamJoin(t)
    BY <2>4 DEF TeamJoin
  <2>5. ASSUME NEW i \in Seats, ThreadStep(t, i)
        PROVE  TypeOK'
    <3>1. CASE ThreadRecv(t, i)
      BY <3>1 DEF ThreadRecv, ThreadGoto
    <3>2. CASE ThreadTest1(t, i)
      BY <3>2 DEF ThreadTest1, ThreadGoto
    <3>3. CASE ThreadTest2(t, i)
      BY <3>3 DEF ThreadTest2, ThreadGoto
    <3>4. CASE ThreadSet(t, i)
      <4>1. pfds[t][i] \in Players
        <5>1. Len(pfds[t]) = 2 /\ pfds[t] \in Seq(Players) /\ i \in 1 .. 2
          BY <3>4 DEF ThreadSet, ThreadAt, Joined, Seats
        <5> QED
          BY <5>1, ElementOfSeq
      <4>2. \/ ThreadGoto(t, i, "say1") \/ ThreadGoto(t, i, "say2")
        BY <3>4 DEF ThreadSet
      <4>3. /\ first' \in [Teams -> Players \cup {Nobody}]
            /\ second' \in [Teams -> Players \cup {Nobody}]
        BY <3>4, <4>1 DEF ThreadSet
      <4>4. hpc' \in [Teams -> [Seats -> Labels]]
        BY <4>2, OneThread
      <4> QED
        BY <3>4, <4>3, <4>4 DEF ThreadSet
    <3>5. CASE ThreadSay(t, i)
      BY <3>5 DEF ThreadSay, ThreadGoto
    <3> QED
      BY <2>5, <3>1, <3>2, <3>3, <3>4, <3>5 DEF ThreadStep
  <2> QED
    BY <1>8, <2>1, <2>2, <2>3, <2>4, <2>5 DEF TeamStep
<1>9. CASE UNCHANGED vars
  BY <1>9 DEF vars
<1> QED
  BY <1>1, <1>2, <1>3, <1>4, <1>5, <1>6, <1>7, <1>8, <1>9 DEF Next

-----------------------------------------------------------------------------
\* Somebody waits for every team the referee still has to serve.
LEMMA StepReferee ==
  ASSUME TypeOK, RefereeHolds, [Next]_vars
  PROVE  RefereeHolds'
<1> USE DEF RefereeHolds
<1>u. UNCHANGED refvars => RefereeHolds'
  BY DEF refvars
<1>t. backlog \in [Teams -> Seq(Players)] /\ todo \subseteq Teams
  BY DEF TypeOK
<1>1. ASSUME NEW p \in Players, PlayerConnect(p)
      PROVE  RefereeHolds'
  <2>1. /\ TeamOf[p] \in Teams
        /\ backlog' = [backlog EXCEPT ![TeamOf[p]] = Append(@, p)]
        /\ UNCHANGED <<rpc, todo, cur>>
    BY <1>1, TeamOfAssumption DEF PlayerConnect, Teams
  <2> DEFINE old == backlog[TeamOf[p]]
  <2>2. /\ old \in Seq(Players) /\ Len(old) \in Nat /\ Append(old, p) # <<>>
        /\ Len(Append(old, p)) = Len(old) + 1
        /\ \A k \in 1 .. Len(old) : Append(old, p)[k] = old[k]
        /\ Append(old, p)[Len(old) + 1] = p
    BY <1>t, <2>1, AppendProperties
  <2>3. ASSUME NEW k \in 1 .. Len(Append(old, p))
        PROVE  TeamOf[Append(old, p)[k]] = TeamOf[p]
    <3>1. k \in 1 .. Len(old) \/ k = Len(old) + 1
      BY <2>2
    <3> QED
      BY <2>1, <2>2, <3>1
  <2> HIDE DEF old
  <2>4. \A t \in Teams : backlog'[t] = IF t = TeamOf[p] THEN Append(old, p) ELSE backlog[t]
    BY <1>t, <2>1 DEF old
  <2> QED
    BY <2>1, <2>2, <2>3, <2>4
<1>2. CASE RefStart
  BY <1>2 DEF RefStart
<1>3. CASE RefStep
  <2>1. CASE RefPoll
    BY <2>1 DEF RefPoll
  <2>2. CASE RefAccept
    <3>1. Polled \in todo /\ Polled \in Teams /\ backlog[Polled] # <<>>
      BY <2>2, PolledInTodo DEF RefAccept
    <3>2. /\ Head(backlog[Polled]) \in Players
          /\ TeamOf[Head(backlog[Polled])] = Polled
          /\ \A k \in 1 .. Len(Tail(backlog[Polled])) :
                TeamOf[Tail(backlog[Polled])[k]] = Polled
      BY <1>t, <3>1, Taken
    <3>3. /\ cur' = Head(backlog[Polled]) /\ rpc' = "open" /\ todo' = todo
          /\ backlog' = [backlog EXCEPT ![Polled] = Tail(@)]
      BY <2>2 DEF RefAccept
    <3>4. \A t \in Teams :
             backlog'[t] = IF t = Polled THEN Tail(backlog[Polled]) ELSE backlog[t]
      BY <1>t, <3>1, <3>3
    <3>5. \A t \in todo : backlog[t] # <<>>
      BY <2>2 DEF RefAccept
    <3> QED
      BY <1>t, <3>1, <3>2, <3>3, <3>4, <3>5
  <2>3. CASE RefOpen
    BY <2>3 DEF RefOpen
  <2>4. CASE RefHandOver
    BY <2>4 DEF RefHandOver
  <2>5. CASE RefAcceptFails
    BY <2>5 DEF RefAcceptFails
  <2> QED
    BY <1>3, <2>1, <2>2, <2>3, <2>4, <2>5 DEF RefStep
<1>4. CASE UNCHANGED vars
  BY <1>4, <1>u DEF vars
<1>5. ASSUME NEW t \in Teams, TeamStart(t) \/ TeamStep(t)
      PROVE  UNCHANGED refvars
  BY <1>5 DEF TeamStart, TeamStep, TeamConnect, TeamRecvFd, TeamCreate, TeamJoin,
              ThreadStep, ThreadRecv, ThreadTest1, ThreadTest2, ThreadSet, ThreadSay
<1>6. ASSUME NEW p \in Players, PlayerLeave(p) \/ \E right \in BOOLEAN : PlayerGuess(p, right)
      PROVE  UNCHANGED refvars
  BY <1>6 DEF PlayerLeave, PlayerGuess
<1>7. CASE ScreenStart
  BY <1>7, <1>u DEF ScreenStart
<1> QED
  BY <1>u, <1>1, <1>2, <1>3, <1>4, <1>5, <1>6, <1>7 DEF Next

\* What waits for a team that receives is a player the referee was serving.
LEMMA StepLink ==
  ASSUME TypeOK, RefereeHolds, LinkIsPlayer, [Next]_vars
  PROVE  LinkIsPlayer'
<1> USE DEF LinkIsPlayer
<1>t. tpc \in [Teams -> {"down", "connect", "recv_fd", "create", "join", "ended"}]
  BY DEF TypeOK
<1>u. UNCHANGED <<link, tpc>> => LinkIsPlayer'
  OBVIOUS
<1>1. CASE RefHandOver
  <2>1. cur \in Players /\ UNCHANGED tpc
    BY <1>1 DEF RefHandOver, RefereeHolds, collectvars
  <2>2. link' = [[u \in Teams |-> Dropped(link[u])] EXCEPT ![TeamOf[cur]] = cur]
    BY <1>1 DEF RefHandOver
  <2>3. \A u \in Teams : link'[u] \in {cur, Dropped(link[u])}
    BY <2>2
  <2> QED
    BY <2>1, <2>2, <2>3 DEF Dropped
<1>2. CASE RefAcceptFails
  BY <1>2 DEF RefAcceptFails, Dropped, collectvars
<1>3. ASSUME NEW t \in Teams, TeamStart(t) \/ TeamConnect(t) \/ TeamRecvFd(t)
      PROVE  LinkIsPlayer'
  BY <1>3, <1>t DEF TeamStart, TeamConnect, TeamRecvFd, unixvars
<1>4. ASSUME NEW t \in Teams, TeamCreate(t) \/ TeamJoin(t)
      PROVE  LinkIsPlayer'
  BY <1>4, <1>t DEF TeamCreate, TeamJoin, unixvars
<1>5. ASSUME NEW t \in Teams, \E i \in Seats : ThreadStep(t, i)
      PROVE  UNCHANGED <<link, tpc>>
  BY <1>5 DEF ThreadStep, ThreadRecv, ThreadTest1, ThreadTest2, ThreadSet, ThreadSay,
              unixvars, collectvars
<1>6. CASE ScreenStart \/ RefStart \/ RefPoll \/ RefAccept \/ RefOpen \/ UNCHANGED vars
  BY <1>6, <1>u DEF ScreenStart, RefStart, RefPoll, RefAccept, RefOpen, vars,
                    unixvars, collectvars
<1>7. ASSUME NEW p \in Players,
             PlayerConnect(p) \/ PlayerLeave(p) \/ \E right \in BOOLEAN : PlayerGuess(p, right)
      PROVE  UNCHANGED <<link, tpc>>
  BY <1>7 DEF PlayerConnect, PlayerLeave, PlayerGuess, unixvars, collectvars
<1> QED
  BY <1>u, <1>1, <1>2, <1>3, <1>4, <1>5, <1>6, <1>7 DEF Next, RefStep, TeamStep

-----------------------------------------------------------------------------
(* The rounds *)

\* What the steps outside the rounds leave alone.
gamevars == <<collectvars, roundvars, screenvars>>

LEMMA OutsideRounds ==
  ASSUME [Next]_vars
  PROVE  \/ UNCHANGED gamevars
         \/ ScreenStart
         \/ \E t \in Teams : \/ TeamStart(t) \/ TeamConnect(t) \/ TeamRecvFd(t)
                             \/ TeamCreate(t) \/ TeamJoin(t)
                             \/ \E i \in Seats : ThreadStep(t, i)
<1> USE DEF gamevars
<1>1. CASE RefStart \/ RefStep
  BY <1>1 DEF RefStart, RefStep, RefPoll, RefAccept, RefOpen, RefHandOver, RefAcceptFails
<1>2. ASSUME NEW p \in Players,
             PlayerConnect(p) \/ PlayerLeave(p) \/ \E right \in BOOLEAN : PlayerGuess(p, right)
      PROVE  UNCHANGED gamevars
  BY <1>2 DEF PlayerConnect, PlayerLeave, PlayerGuess
<1>3. CASE UNCHANGED vars
  BY <1>3 DEF vars
<1> QED
  BY <1>1, <1>2, <1>3 DEF Next, TeamStep

\* A thread's step is a step of a team that waits in pthread_join.
LEMMA ThreadMoves ==
  ASSUME NEW t \in Teams, NEW i \in Seats, ThreadStep(t, i)
  PROVE  /\ tpc[t] = "join" /\ UNCHANGED <<collectvars, used, decided, screen, onAir>>
         /\ \E pc \in Labels : ThreadGoto(t, i, pc)
<1> USE DEF Labels, ThreadAt, screenvars
<1>1. CASE ThreadRecv(t, i)
  BY <1>1 DEF ThreadRecv
<1>2. CASE ThreadTest1(t, i)
  BY <1>2 DEF ThreadTest1
<1>3. CASE ThreadTest2(t, i)
  BY <1>3 DEF ThreadTest2
<1>4. CASE ThreadSet(t, i)
  BY <1>4 DEF ThreadSet
<1>5. CASE ThreadSay(t, i)
  BY <1>5 DEF ThreadSay
<1> QED
  BY <1>1, <1>2, <1>3, <1>4, <1>5 DEF ThreadStep

\* A round has two players and is joined as a whole.
LEMMA StepJoined ==
  ASSUME TypeOK, Joined, [Next]_vars
  PROVE  Joined'
<1> USE DEF Joined
<1>t. /\ tpc \in [Teams -> {"down", "connect", "recv_fd", "create", "join", "ended"}]
      /\ hpc \in [Teams -> [Seats -> Labels]]
      /\ pfds \in [Teams -> Seq(Players)]
  BY DEF TypeOK
<1>u. UNCHANGED <<tpc, pfds, hpc>> => Joined'
  OBVIOUS
<1>1. CASE UNCHANGED gamevars \/ ScreenStart
  BY <1>1, <1>u DEF gamevars, ScreenStart, collectvars, roundvars
<1>2. ASSUME NEW t \in Teams, TeamStart(t) \/ TeamConnect(t)
      PROVE  Joined'
  BY <1>2, <1>t DEF TeamStart, TeamConnect, roundvars
<1>3. ASSUME NEW t \in Teams, TeamRecvFd(t)
      PROVE  Joined'
  <2>1. /\ tpc[t] = "recv_fd" /\ UNCHANGED hpc
        /\ tpc' = [tpc EXCEPT ![t] = IF Len(pfds'[t]) = 2 THEN "create" ELSE "connect"]
        /\ \A u \in Teams \ {t} : pfds'[u] = pfds[u]
    BY <1>3, <1>t DEF TeamRecvFd, roundvars
  <2> QED
    BY <1>t, <2>1
<1>4. ASSUME NEW t \in Teams, TeamCreate(t)
      PROVE  Joined'
  <2>1. /\ Len(pfds[t]) = 2 /\ UNCHANGED pfds
        /\ tpc' = [tpc EXCEPT ![t] = "join"]
        /\ \A u \in Teams \ {t} : hpc'[u] = hpc[u]
    BY <1>4, <1>t DEF TeamCreate
  <2> QED
    BY <1>t, <2>1
<1>5. ASSUME NEW t \in Teams, TeamJoin(t)
      PROVE  Joined'
  <2>1. /\ tpc[t] = "join" /\ \A i \in Seats : hpc[t][i] = "none"
        /\ UNCHANGED <<pfds, hpc>>
        /\ \A u \in Teams \ {t} : tpc'[u] = tpc[u]
    BY <1>5, <1>t DEF TeamJoin
  <2> QED
    BY <2>1
<1>6. ASSUME NEW t \in Teams, NEW i \in Seats, ThreadStep(t, i)
      PROVE  Joined'
  <2>1. /\ tpc[t] = "join" /\ UNCHANGED <<tpc, pfds>>
        /\ \A u \in Teams, j \in Seats : u # t => hpc'[u][j] = hpc[u][j]
    BY <1>6, <1>t, ThreadMoves, OneThread DEF collectvars
  <2> QED
    BY <2>1
<1> QED
  BY <1>1, <1>2, <1>3, <1>4, <1>5, <1>6, OutsideRounds

\* A thread writes what was free when the round began: it tested it after the
\* round began, and only this round can have changed it since.
LEMMA StepDecided ==
  ASSUME TypeOK, Joined, WritesUndecided, DecidedStays, [Next]_vars
  PROVE  WritesUndecided' /\ DecidedStays'
<1> USE DEF WritesUndecided, DecidedStays
<1>t. /\ hpc \in [Teams -> [Seats -> Labels]]
      /\ first \in [Teams -> Results] /\ second \in [Teams -> Results]
      /\ decided \in [Teams -> Results \X Results]
  BY DEF TypeOK
<1>u. UNCHANGED <<first, second, hpc, decided>> => WritesUndecided' /\ DecidedStays'
  OBVIOUS
<1>1. CASE UNCHANGED gamevars \/ ScreenStart
  BY <1>1, <1>u DEF gamevars, ScreenStart, roundvars
<1>2. ASSUME NEW t \in Teams,
             TeamStart(t) \/ TeamConnect(t) \/ TeamRecvFd(t) \/ TeamJoin(t)
      PROVE  UNCHANGED <<first, second, hpc, decided>>
  BY <1>2 DEF TeamStart, TeamConnect, TeamRecvFd, TeamJoin, roundvars
<1>3. ASSUME NEW t \in Teams, TeamCreate(t)
      PROVE  WritesUndecided' /\ DecidedStays'
  <2>1. /\ \A u \in Teams \ {t} : hpc'[u] = hpc[u] /\ decided'[u] = decided[u]
        /\ \A i \in Seats : hpc'[t][i] = "recv"
        /\ decided'[t] = <<first[t], second[t]>> /\ UNCHANGED <<first, second>>
    BY <1>3, <1>t DEF TeamCreate
  <2> QED
    BY <2>1
<1>4. ASSUME NEW t \in Teams, NEW i \in Seats, ThreadStep(t, i)
      PROVE  WritesUndecided' /\ DecidedStays'
  <2>d. UNCHANGED decided
    BY <1>4, ThreadMoves
  <2>1. CASE ThreadRecv(t, i)
    <3>1. PICK pc \in {"test1", "none"} : ThreadGoto(t, i, pc) /\ UNCHANGED <<first, second>>
      BY <2>1 DEF ThreadRecv
    <3>2. \A u \in Teams, j \in Seats :
             hpc'[u][j] = IF u = t /\ j = i THEN pc ELSE hpc[u][j]
      BY <1>t, <3>1, OneThread DEF Labels
    <3> QED
      BY <2>d, <3>1, <3>2
  <2>2. CASE ThreadTest1(t, i)
    <3>1. ThreadGoto(t, i, IF first[t] = Nobody THEN "set1" ELSE "test2") /\ UNCHANGED <<first, second>>
      BY <2>2 DEF ThreadTest1
    <3>2. \A u \in Teams, j \in Seats :
             hpc'[u][j] = IF u = t /\ j = i THEN (IF first[t] = Nobody THEN "set1" ELSE "test2") ELSE hpc[u][j]
      BY <1>t, <3>1, OneThread DEF Labels
    <3> QED
      BY <2>d, <3>1, <3>2
  <2>3. CASE ThreadTest2(t, i)
    <3>1. ThreadGoto(t, i, IF second[t] = Nobody THEN "set2" ELSE "none") /\ UNCHANGED <<first, second>>
      BY <2>3 DEF ThreadTest2
    <3>2. \A u \in Teams, j \in Seats :
             hpc'[u][j] = IF u = t /\ j = i THEN (IF second[t] = Nobody THEN "set2" ELSE "none") ELSE hpc[u][j]
      BY <1>t, <3>1, OneThread DEF Labels
    <3> QED
      BY <2>d, <3>1, <3>2
  <2>4. CASE ThreadSet(t, i)
    <3>1. CASE hpc[t][i] = "set1"
      <4>1. /\ ThreadGoto(t, i, "say1") /\ UNCHANGED second
            /\ \A u \in Teams \ {t} : first'[u] = first[u]
        BY <1>t, <2>4, <3>1 DEF ThreadSet, ThreadAt
      <4>2. \A u \in Teams, j \in Seats :
               hpc'[u][j] = IF u = t /\ j = i THEN "say1" ELSE hpc[u][j]
        BY <1>t, <4>1, OneThread DEF Labels
      <4> QED
        BY <2>d, <3>1, <4>1, <4>2
    <3>2. CASE hpc[t][i] = "set2"
      <4>1. /\ ThreadGoto(t, i, "say2") /\ UNCHANGED first
            /\ \A u \in Teams \ {t} : second'[u] = second[u]
        BY <1>t, <2>4, <3>2 DEF ThreadSet, ThreadAt
      <4>2. \A u \in Teams, j \in Seats :
               hpc'[u][j] = IF u = t /\ j = i THEN "say2" ELSE hpc[u][j]
        BY <1>t, <4>1, OneThread DEF Labels
      <4> QED
        BY <2>d, <3>2, <4>1, <4>2
    <3> QED
      BY <2>4, <3>1, <3>2 DEF ThreadSet, ThreadAt
  <2>5. CASE ThreadSay(t, i)
    <3>1. ThreadGoto(t, i, "none") /\ UNCHANGED <<first, second>>
      BY <2>5 DEF ThreadSay
    <3>2. \A u \in Teams, j \in Seats :
             hpc'[u][j] = IF u = t /\ j = i THEN "none" ELSE hpc[u][j]
      BY <1>t, <3>1, OneThread DEF Labels
    <3> QED
      BY <2>d, <3>1, <3>2
  <2> QED
    BY <1>4, <2>1, <2>2, <2>3, <2>4, <2>5 DEF ThreadStep
<1> QED
  BY <1>u, <1>1, <1>2, <1>3, <1>4, OutsideRounds

\* No round before the first has decided anything; a game ends with both set.
LEMMA StepFirstAndLast ==
  ASSUME TypeOK, Joined, FirstAndLast, [Next]_vars
  PROVE  FirstAndLast'
<1> USE DEF FirstAndLast
<1>t. /\ tpc \in [Teams -> {"down", "connect", "recv_fd", "create", "join", "ended"}]
      /\ first \in [Teams -> Results] /\ second \in [Teams -> Results]
      /\ used \in [Teams -> BOOLEAN]
  BY DEF TypeOK
<1>u. UNCHANGED <<tpc, first, second, used>> => FirstAndLast'
  OBVIOUS
<1>1. CASE UNCHANGED gamevars \/ ScreenStart
  BY <1>1, <1>u DEF gamevars, ScreenStart, collectvars, roundvars
<1>2. ASSUME NEW t \in Teams, TeamStart(t) \/ TeamConnect(t) \/ TeamRecvFd(t) \/ TeamCreate(t)
      PROVE  FirstAndLast'
  BY <1>2, <1>t DEF TeamStart, TeamConnect, TeamRecvFd, TeamCreate, roundvars
<1>3. ASSUME NEW t \in Teams, TeamJoin(t)
      PROVE  FirstAndLast'
  BY <1>3, <1>t DEF TeamJoin
<1>4. ASSUME NEW t \in Teams, NEW i \in Seats, ThreadStep(t, i)
      PROVE  FirstAndLast'
  <2>1. tpc[t] = "join" /\ UNCHANGED <<tpc, used>>
    BY <1>4, ThreadMoves DEF collectvars
  <2>2. \A u \in Teams \ {t} : first'[u] = first[u] /\ second'[u] = second[u]
    BY <1>4, <1>t DEF ThreadStep, ThreadRecv, ThreadTest1, ThreadTest2, ThreadSet, ThreadSay
  <2> QED
    BY <2>1, <2>2
<1> QED
  BY <1>u, <1>1, <1>2, <1>3, <1>4, OutsideRounds

-----------------------------------------------------------------------------
(* The screen *)

\* The last thread to write announces after it has written: whatever it finds
\* then is the result, whichever thread has put it there.
LEMMA StepAnnounced ==
  ASSUME TypeOK, Joined, FirstAndLast, Announced, [Next]_vars
  PROVE  Announced'
<1>t. /\ hpc \in [Teams -> [Seats -> Labels]]
      /\ first \in [Teams -> Results] /\ second \in [Teams -> Results]
      /\ onAir \in [Teams -> BOOLEAN] /\ screen \in BOOLEAN
  BY DEF TypeOK
<1>u. UNCHANGED <<first, second, hpc, onAir, screen, shown>> => Announced'
  BY DEF Announced, Told
<1>1. CASE UNCHANGED gamevars
  BY <1>1, <1>u DEF gamevars, roundvars, screenvars
<1>2. CASE ScreenStart
  BY <1>2 DEF ScreenStart, roundvars, Announced, Told
<1>3. ASSUME NEW t \in Teams,
             TeamStart(t) \/ TeamConnect(t) \/ TeamRecvFd(t) \/ TeamJoin(t)
      PROVE  UNCHANGED <<first, second, hpc, onAir, screen, shown>>
  BY <1>3 DEF TeamStart, TeamConnect, TeamRecvFd, TeamJoin, roundvars, screenvars
<1>4. ASSUME NEW t \in Teams, TeamCreate(t)
      PROVE  Announced'
  <2>1. /\ tpc[t] = "create" /\ UNCHANGED <<first, second, screen, shown>>
        /\ \A u \in Teams \ {t} : hpc'[u] = hpc[u] /\ onAir'[u] = onAir[u]
        /\ onAir'[t] = IF used[t] THEN onAir[t] ELSE screen
    BY <1>4, <1>t DEF TeamCreate
  <2>2. ASSUME NEW u \in Teams \ {t}, onAir'[u]
        PROVE  (/\ screen /\ Told(u, "First", first[u], "say1")
                /\ Told(u, "Second", second[u], "say2"))'
    BY <2>1, <2>2 DEF Announced, Told
  <2>3. ASSUME onAir'[t]
        PROVE  (/\ screen /\ Told(t, "First", first[t], "say1")
                /\ Told(t, "Second", second[t], "say2"))'
    <3>1. CASE used[t]
      BY <2>1, <2>3, <3>1 DEF Announced, Told, Joined
    <3>2. CASE ~used[t]
      BY <2>1, <2>3, <3>2 DEF FirstAndLast, Told
    <3> QED
      BY <3>1, <3>2
  <2> QED
    BY <2>2, <2>3 DEF Announced
<1>5. ASSUME NEW t \in Teams, NEW i \in Seats, ThreadStep(t, i)
      PROVE  Announced'
  <2>o. UNCHANGED <<screen, onAir>>
    BY <1>5, ThreadMoves
  <2>1. ASSUME NEW pc \in Labels \ {"say1", "say2"}, hpc[t][i] \notin {"say1", "say2"},
               ThreadGoto(t, i, pc), UNCHANGED <<first, second, shown>>
        PROVE  Announced'
    <3>1. \A u \in Teams, j \in Seats :
             hpc'[u][j] = IF u = t /\ j = i THEN pc ELSE hpc[u][j]
      BY <1>t, <2>1, OneThread
    <3> QED
      BY <2>o, <2>1, <3>1 DEF Announced, Told
  <2>2. CASE ThreadRecv(t, i)
    <3>1. \E pc \in {"test1", "none"} :
             ThreadGoto(t, i, pc) /\ hpc[t][i] = "recv" /\ UNCHANGED <<first, second, shown>>
      BY <2>2 DEF ThreadRecv, ThreadAt, screenvars
    <3> QED
      BY <2>1, <3>1 DEF Labels
  <2>3. CASE ThreadTest1(t, i)
    <3>1. \E pc \in {"set1", "test2"} :
             ThreadGoto(t, i, pc) /\ hpc[t][i] = "test1" /\ UNCHANGED <<first, second, shown>>
      BY <2>3 DEF ThreadTest1, ThreadAt, screenvars
    <3> QED
      BY <2>1, <3>1 DEF Labels
  <2>4. CASE ThreadTest2(t, i)
    <3>1. \E pc \in {"set2", "none"} :
             ThreadGoto(t, i, pc) /\ hpc[t][i] = "test2" /\ UNCHANGED <<first, second, shown>>
      BY <2>4 DEF ThreadTest2, ThreadAt, screenvars
    <3> QED
      BY <2>1, <3>1 DEF Labels
  <2>5. CASE ThreadSet(t, i)
    <3>1. CASE hpc[t][i] = "set1"
      <4>1. /\ ThreadGoto(t, i, "say1") /\ UNCHANGED <<second, shown>>
            /\ \A u \in Teams \ {t} : first'[u] = first[u]
        BY <1>t, <2>5, <3>1 DEF ThreadSet, ThreadAt, screenvars
      <4>2. \A u \in Teams, j \in Seats :
               hpc'[u][j] = IF u = t /\ j = i THEN "say1" ELSE hpc[u][j]
        BY <1>t, <4>1, OneThread DEF Labels
      <4>3. ASSUME NEW u \in Teams, onAir[u]
            PROVE  (/\ screen /\ Told(u, "First", first[u], "say1")
                    /\ Told(u, "Second", second[u], "say2"))'
        <5>1. /\ screen /\ Told(u, "First", first[u], "say1")
              /\ Told(u, "Second", second[u], "say2")
          BY <4>3 DEF Announced
        <5>2. Told(u, "First", first[u], "say1")'
          BY <4>1, <4>2, <5>1 DEF Told
        <5>3. Told(u, "Second", second[u], "say2")'
          BY <3>1, <4>1, <4>2, <5>1 DEF Told
        <5> QED
          BY <2>o, <5>1, <5>2, <5>3
      <4> QED
        BY <2>o, <4>3 DEF Announced
    <3>2. CASE hpc[t][i] = "set2"
      <4>1. /\ ThreadGoto(t, i, "say2") /\ UNCHANGED <<first, shown>>
            /\ \A u \in Teams \ {t} : second'[u] = second[u]
        BY <1>t, <2>5, <3>2 DEF ThreadSet, ThreadAt, screenvars
      <4>2. \A u \in Teams, j \in Seats :
               hpc'[u][j] = IF u = t /\ j = i THEN "say2" ELSE hpc[u][j]
        BY <1>t, <4>1, OneThread DEF Labels
      <4>3. ASSUME NEW u \in Teams, onAir[u]
            PROVE  (/\ screen /\ Told(u, "First", first[u], "say1")
                    /\ Told(u, "Second", second[u], "say2"))'
        <5>1. /\ screen /\ Told(u, "First", first[u], "say1")
              /\ Told(u, "Second", second[u], "say2")
          BY <4>3 DEF Announced
        <5>2. Told(u, "Second", second[u], "say2")'
          BY <4>1, <4>2, <5>1 DEF Told
        <5>3. Told(u, "First", first[u], "say1")'
          BY <3>2, <4>1, <4>2, <5>1 DEF Told
        <5> QED
          BY <2>o, <5>1, <5>2, <5>3
      <4> QED
        BY <2>o, <4>3 DEF Announced
    <3> QED
      BY <2>5, <3>1, <3>2 DEF ThreadSet, ThreadAt
  <2>6. CASE ThreadSay(t, i)
    <3>1. ThreadGoto(t, i, "none") /\ UNCHANGED <<first, second>>
      BY <2>6 DEF ThreadSay
    <3>2. \A u \in Teams, j \in Seats :
             hpc'[u][j] = IF u = t /\ j = i THEN "none" ELSE hpc[u][j]
      BY <1>t, <3>1, OneThread DEF Labels
    <3>3. /\ screen /\ hpc[t][i] = "say1" => <<"First", t, first[t]>> \in shown'
          /\ screen /\ hpc[t][i] = "say2" => <<"Second", t, second[t]>> \in shown'
          /\ shown \subseteq shown'
      BY <2>6 DEF ThreadSay, ThreadAt, Announce
    <3>4. ASSUME NEW u \in Teams, onAir[u]
          PROVE  (/\ screen /\ Told(u, "First", first[u], "say1")
                  /\ Told(u, "Second", second[u], "say2"))'
      <4>1. /\ screen /\ Told(u, "First", first[u], "say1")
            /\ Told(u, "Second", second[u], "say2")
        BY <3>4 DEF Announced
      <4>2. Told(u, "First", first[u], "say1")'
        BY <3>1, <3>2, <3>3, <4>1 DEF Told
      <4>3. Told(u, "Second", second[u], "say2")'
        BY <3>1, <3>2, <3>3, <4>1 DEF Told
      <4> QED
        BY <2>o, <4>1, <4>2, <4>3
    <3> QED
      BY <2>o, <3>4 DEF Announced
  <2> QED
    BY <1>5, <2>2, <2>3, <2>4, <2>5, <2>6 DEF ThreadStep
<1> QED
  BY <1>u, <1>1, <1>2, <1>3, <1>4, <1>5, OutsideRounds

\* When the game is over no thread is left to say anything.
LEMMA OverMeansAnnounced == GameInv => WinnersAnnounced
<1> SUFFICES ASSUME GameInv, NEW t \in Teams, tpc[t] = "ended", onAir[t]
             PROVE  {<<"First", t, first[t]>>, <<"Second", t, second[t]>>} \subseteq shown
  BY DEF WinnersAnnounced
<1>1. first[t] # Nobody /\ second[t] # Nobody
  BY DEF GameInv, FirstAndLast
<1>2. \A i \in Seats : hpc[t][i] = "none"
  BY DEF GameInv, Joined
<1>3. Told(t, "First", first[t], "say1") /\ Told(t, "Second", second[t], "say2")
  BY DEF GameInv, Announced
<1> QED
  BY <1>1, <1>2, <1>3 DEF Told

-----------------------------------------------------------------------------
\* Types, rounds and what the screen is owed, in every reachable state.
THEOREM GameInvariant == Spec => []GameInv
<1>1. Init => GameInv
  BY InitGameInv
<1>2. GameInv /\ [Next]_vars => GameInv'
  BY StepTypes, StepReferee, StepLink, StepJoined, StepDecided, StepFirstAndLast,
     StepAnnounced DEF GameInv
<1> QED
  BY <1>1, <1>2, PTL DEF Spec

\* Whatever the two threads of a round do to first and second without a lock,
\* what earlier rounds have decided stays: pthread_join separates the rounds
\* (C.c:84-117, 246).
THEOREM RoundsDecideOnce == Spec => []DecidedStays
  BY GameInvariant, PTL DEF GameInv

\* The screen, if it was there when the rounds began, has shown the players
\* that first and second hold when the game is over, for any number of
\* overwrites in between (C.c:92-117).
THEOREM WinnersAreAnnounced == Spec => []WinnersAnnounced
  BY GameInvariant, OverMeansAnnounced, PTL

-----------------------------------------------------------------------------
(* Lottery *)

Packets == {<<Winning>>} \union Seq(BOOLEAN)

LotteryTypes ==
    /\ cpc \in [Clients -> {"idle", "ask", "coupons", "raw", "hear", "result", "ended"}]
    /\ killed \in [Clients -> BOOLEAN] /\ coupon \in [Clients -> Seq(Nat)]
    /\ raw \in [Clients -> BOOLEAN] /\ hears \in [Clients -> Seq(Packets)]
    /\ late \in [Clients -> BOOLEAN]
    /\ asked \in [Clients -> BOOLEAN] /\ stream \in [Clients -> Seq(Nat)]
    /\ dead \in [Clients -> BOOLEAN] /\ answer \in [Clients -> {"none", "Winner", "Loser"}]
    /\ dpc \in {"down", "accept", "read", "sell", "handover", "ended", "killed"}
    /\ line \in Seq(Clients) /\ turn \in Nat /\ left \in Nat /\ drawn \in Nat
    /\ jpc \in {"down", "recv_fd", "announce", "collect", "ended"}
    /\ at \in Nat /\ packet \in {"none", "coupon", "Winner", "Loser"}
    /\ b \in Seq(BOOLEAN) /\ addr \in {"none", "host", "nowhere"}

\* Coupons are numbered in the order they are drawn, so whoever has the first
\* one got it first.
CouponsAreNew ==
    /\ drawn = 0 => dpc # "killed" /\ \A c \in Clients : stream[c] = <<>> /\ coupon[c] = <<>>
    /\ \A c \in Clients :
        /\ \A k \in 1..Len(stream[c]) : stream[c][k] = Winning => k = 1 /\ coupon[c] = <<>>
        /\ \A k \in 1..Len(coupon[c]) : coupon[c][k] = Winning => k = 1

\* Whoever has come is in the line, which is complete when the judge begins.
Lined ==
    /\ \A c \in Clients : cpc[c] # "idle" => \E k \in 1..Len(line) : line[k] = c
    /\ dpc \notin {"down", "accept"} => Len(line) = 3
    /\ jpc \notin {"down", "recv_fd"} => dpc \in {"ended", "killed"}

\* The first packet a client hears is the winning coupon, unless the judge
\* waits for nobody.
HeardFirst ==
    /\ jpc \notin {"collect", "ended"} => \A c \in Clients : hears[c] = <<>>
    /\ \A c \in Clients :
        /\ hears[c] # <<>> => raw[c]
        /\ raw[c] => cpc[c] \in {"hear", "result", "ended"}
        /\ dpc # "killed" /\ cpc[c] = "hear" /\ ~killed[c] /\ hears[c] # <<>> =>
             hears[c][1] = <<Winning>>

\* An answer is given once, and is true if there is a judge to read it.
Answered ==
    \A c \in Clients : answer[c] # "none" =>
        /\ cpc[c] \in {"result", "ended"} /\ dpc \in {"ended", "killed"}
        /\ dpc = "ended" =>
             (answer[c] = "Winner" <=> Len(coupon[c]) > 0 /\ coupon[c][1] = Winning)

\* The judge has gone through the line up to at, and passed only those who
\* have answered or never will.
Collected ==
    /\ IF jpc \in {"collect", "ended"} THEN Len(b) = at - 1 ELSE Len(b) = 0 /\ at = 1
    /\ Len(b) <= 3 /\ (jpc = "ended" => Len(b) = 3)
    /\ packet = "Winner" <=> Len(b) > 0 /\ b[Len(b)]
    /\ dpc = "killed" => packet \in {"none", "coupon"}
    /\ jpc \notin {"collect", "ended"} => packet = "none"
    /\ \A k \in 1..Len(b) : dpc = "killed" \/ killed[line[k]] \/ answer[line[k]] # "none"

LotteryInv ==
    /\ LotteryTypes /\ CouponsAreNew /\ Lined /\ HeardFirst /\ Answered /\ Collected /\ JudgedFairly

\* What is left of a sequence, and where it is found in it.
LEMMA Taking ==
  ASSUME NEW S, NEW s \in Seq(S), s # <<>>
  PROVE  /\ Head(s) \in S /\ Tail(s) \in Seq(S) /\ Head(s) = s[1]
         /\ Len(s) \in Nat /\ Len(s) > 0 /\ Len(Tail(s)) = Len(s) - 1
         /\ \A k \in 1..Len(Tail(s)) : k + 1 \in 1..Len(s) /\ Tail(s)[k] = s[k + 1]
<1>1. Len(s) \in Nat \ {0} /\ Head(s) = s[1] /\ Head(s) \in S
  OBVIOUS
<1>2. Tail(s) \in Seq(S) /\ Len(Tail(s)) = Len(s) - 1
  OBVIOUS
<1>3. \A k \in 1..Len(s) - 1 : Tail(s)[k] = s[k + 1]
  OBVIOUS
<1> QED
  BY <1>1, <1>2, <1>3

\* An entry of a sequence is of the sequence's set.
LEMMA Member ==
  ASSUME NEW S, NEW s \in Seq(S), NEW k \in 1..Len(s)
  PROVE  s[k] \in S
  OBVIOUS

\* A sequence that has grown by one.
LEMMA Adding ==
  ASSUME NEW S, NEW s \in Seq(S), NEW e \in S
  PROVE  /\ Append(s, e) \in Seq(S) /\ Append(s, e) # <<>>
         /\ Len(s) \in Nat /\ Len(Append(s, e)) = Len(s) + 1
         /\ \A k \in 1..Len(s) : Append(s, e)[k] = s[k]
         /\ Append(s, e)[Len(s) + 1] = e
  OBVIOUS

\* A function changed at one place, which need not be in its domain.
LEMMA Putting ==
  ASSUME NEW S, NEW T, NEW f \in [S -> T], NEW c, NEW v, c \in S => v \in T
  PROVE  [f EXCEPT ![c] = v] \in [S -> T]
  OBVIOUS

-----------------------------------------------------------------------------
\* Nobody has come, nothing has been drawn.
LEMMA InitLottery == LotteryInit => LotteryInv
<1> SUFFICES ASSUME LotteryInit PROVE LotteryInv
  OBVIOUS
<1>e. \A S : <<>> \in Seq(S) /\ Len(<<>>) = 0
  OBVIOUS
<1>1. LotteryTypes
  BY <1>e DEF LotteryInit, LotteryTypes
<1>2. CouponsAreNew /\ Lined
  BY <1>e DEF LotteryInit, CouponsAreNew, Lined
<1>3. HeardFirst /\ Answered
  BY DEF LotteryInit, HeardFirst, Answered
<1>4. Collected /\ JudgedFairly
  BY <1>e DEF LotteryInit, Collected, JudgedFairly
<1> QED
  BY <1>1, <1>2, <1>3, <1>4 DEF LotteryInv

\* Every step keeps the types; the distributor counts down from the request it
\* read (distributor.c:226-236).
LEMMA StepLotteryTypes ==
  ASSUME LotteryInv, [LotteryNext]_lotteryvars
  PROVE  LotteryTypes'
<1> USE DEF clientvars, connvars, distvars, judgevars, ClientAt, ClientGoto
<1>t. LotteryTypes
  BY DEF LotteryInv
<1>1. CASE DistStart \/ DistAccept \/ DistHandOver \/ JudgeStart \/ JudgeRecvFds
  BY <1>1, <1>t DEF LotteryTypes, DistStart, DistAccept, DistHandOver, JudgeStart, JudgeRecvFds
<1>2. CASE DistRead
  <2>1. left' \in Nat
    BY <1>2, NAssumption DEF DistRead, Requests
  <2> QED
    BY <1>2, <1>t, <2>1 DEF LotteryTypes, DistRead
<1>3. CASE DistSell
  <2> DEFINE c == line[turn]
  <2>1. drawn' = drawn + 1 /\ drawn' \in Nat
    BY <1>3, <1>t DEF LotteryTypes, DistSell
  <2>2. stream' \in [Clients -> Seq(Nat)]
    <3>1. CASE stream' = stream
      BY <1>t, <3>1 DEF LotteryTypes
    <3>2. ASSUME stream' = [stream EXCEPT ![c] = IF killed[c] THEN @ ELSE Append(@, drawn')]
          PROVE  stream' \in [Clients -> Seq(Nat)]
      <4> DEFINE s == IF killed[c] THEN stream[c] ELSE Append(stream[c], drawn')
      <4>1. c \in Clients => s \in Seq(Nat)
        BY <1>t, <2>1, Adding DEF LotteryTypes
      <4>2. stream' = [stream EXCEPT ![c] = s]
        BY <3>2
      <4> HIDE DEF c, s
      <4> QED
        BY <1>t, <4>1, <4>2, Putting DEF LotteryTypes
    <3> QED
      BY <1>3, <3>1, <3>2 DEF DistSell
  <2>3. /\ dead' \in [Clients -> BOOLEAN] /\ left' \in Nat
        /\ dpc' \in {"sell", "killed"}
    <3>1. CASE UNCHANGED <<dead, left>>
      BY <1>3, <1>t, <3>1 DEF LotteryTypes, DistSell
    <3>2. CASE dead' = [dead EXCEPT ![c] = killed[c]] /\ left' = left - 1
      <4>1. c \in Clients => killed[c] \in BOOLEAN
        BY <1>t DEF LotteryTypes
      <4>2. left > 0 /\ left \in Nat /\ dpc = "sell" /\ dpc' \in {dpc, "killed"}
        BY <1>3, <1>t DEF LotteryTypes, DistSell
      <4> HIDE DEF c
      <4>3. dead' \in [Clients -> BOOLEAN]
        BY <1>t, <3>2, <4>1, Putting DEF LotteryTypes
      <4> QED
        BY <3>2, <4>2, <4>3
    <3> QED
      BY <1>3, <3>1, <3>2 DEF DistSell
  <2> QED
    BY <1>3, <1>t, <2>1, <2>2, <2>3 DEF LotteryTypes, DistSell
<1>4. CASE DistNext
  BY <1>4, <1>t DEF LotteryTypes, DistNext
<1>5. CASE JudgeAnnounce
  <2>1. hears' \in [Clients -> Seq(Packets)]
    <3>1. \A c \in Clients : Append(hears[c], <<Winning>>) \in Seq(Packets)
      BY <1>t, Adding DEF LotteryTypes, Packets
    <3> QED
      BY <1>5, <1>t, <3>1 DEF LotteryTypes, JudgeAnnounce, SendRaw
  <2> QED
    BY <1>5, <1>t, <2>1 DEF LotteryTypes, JudgeAnnounce
<1>6. CASE JudgeCollect
  <2>1. packet' \in {"none", "coupon", "Winner", "Loser"}
    <3>1. CASE packet' = packet
      BY <1>t, <3>1 DEF LotteryTypes
    <3>2. CASE packet' = answer[line[at]]
      <4>1. line[at] \in Clients
        <5>0. jpc = "collect" /\ at <= 3
          BY <1>6 DEF JudgeCollect
        <5>1. Len(line) = 3
          BY <5>0 DEF LotteryInv, Lined
        <5>2. Len(b) = at - 1 /\ Len(b) \in Nat /\ at \in Nat
          BY <1>t, <5>0 DEF LotteryInv, Collected, LotteryTypes
        <5>3. at \in 1..3
          BY <5>0, <5>2
        <5> QED
          BY <1>t, <5>1, <5>3, Member DEF LotteryTypes
      <4> QED
        BY <1>t, <3>2, <4>1 DEF LotteryTypes
    <3> QED
      BY <1>6, <3>1, <3>2 DEF JudgeCollect
  <2>2. b' \in Seq(BOOLEAN) /\ at' \in Nat
    BY <1>6, <1>t, Adding DEF LotteryTypes, JudgeCollect
  <2> QED
    BY <1>6, <1>t, <2>1, <2>2 DEF LotteryTypes, JudgeCollect
<1>7. CASE JudgeResult
  <2>1. hears' \in [Clients -> Seq(Packets)]
    <3>1. b \in Packets
      BY <1>t DEF LotteryTypes, Packets
    <3>2. \A c \in Clients : Append(hears[c], b) \in Seq(Packets)
      BY <1>t, <3>1, Adding DEF LotteryTypes
    <3> QED
      BY <1>7, <1>t, <3>2 DEF LotteryTypes, JudgeResult, SendRaw
  <2> QED
    BY <1>7, <1>t, <2>1 DEF LotteryTypes, JudgeResult
<1>8. ASSUME NEW c \in Clients, ClientConnect(c)
      PROVE  LotteryTypes'
  <2>1. line' \in Seq(Clients)
    BY <1>8, <1>t, Adding DEF LotteryTypes, ClientConnect
  <2> QED
    BY <1>8, <1>t, <2>1 DEF LotteryTypes, ClientConnect
<1>9. ASSUME NEW c \in Clients, ClientCoupon(c)
      PROVE  LotteryTypes'
  <2>1. /\ coupon[c] \in Seq(Nat) /\ stream[c] \in Seq(Nat)
    BY <1>t DEF LotteryTypes
  <2>2. PICK n : n = (IF stream[c] = <<>> THEN 0 ELSE Head(stream[c]))
    OBVIOUS
  <2>3. n \in Nat
    BY <2>1, <2>2, Taking
  <2>4. Append(coupon[c], n) \in Seq(Nat)
    BY <2>1, <2>3, Adding
  <2>5. coupon' \in [Clients -> Seq(Nat)]
    BY <1>9, <1>t, <2>2, <2>4 DEF LotteryTypes, ClientCoupon
  <2>6. stream[c] # <<>> => Tail(stream[c]) \in Seq(Nat)
    BY <2>1, Taking
  <2>7. stream' \in [Clients -> Seq(Nat)]
    BY <1>9, <1>t, <2>1, <2>6 DEF LotteryTypes, ClientCoupon
  <2>8. cpc' \in [Clients -> {"idle", "ask", "coupons", "raw", "hear", "result", "ended"}]
    BY <1>9, <1>t DEF LotteryTypes, ClientCoupon
  <2>9. UNCHANGED <<killed, raw, hears, late, asked, dead, answer, distvars, judgevars>>
    BY <1>9 DEF ClientCoupon
  <2> QED
    BY <1>t, <2>5, <2>7, <2>8, <2>9 DEF LotteryTypes
<1>10. ASSUME NEW c \in Clients, ClientAsk(c)
       PROVE  LotteryTypes'
  BY <1>10, <1>t DEF LotteryTypes, ClientAsk
<1>13. ASSUME NEW c \in Clients, ClientRaw(c)
       PROVE  LotteryTypes'
  BY <1>13, <1>t DEF LotteryTypes, ClientRaw
<1>14. ASSUME NEW c \in Clients, ClientKill(c)
       PROVE  LotteryTypes'
  BY <1>14, <1>t DEF LotteryTypes, ClientKill
<1>11. ASSUME NEW c \in Clients, ClientAnswer(c)
       PROVE  LotteryTypes'
  <2>1. hears' \in [Clients -> Seq(Packets)]
    BY <1>11, <1>t, Taking DEF LotteryTypes, ClientAnswer
  <2>2. answer' \in [Clients -> {"none", "Winner", "Loser"}]
    BY <1>11, <1>t DEF LotteryTypes, ClientAnswer
  <2>3. cpc' \in [Clients -> {"idle", "ask", "coupons", "raw", "hear", "result", "ended"}]
    BY <1>11, <1>t DEF LotteryTypes, ClientAnswer
  <2>4. UNCHANGED <<killed, coupon, raw, late, asked, stream, dead, distvars, judgevars>>
    BY <1>11 DEF ClientAnswer
  <2> QED
    BY <1>t, <2>1, <2>2, <2>3, <2>4 DEF LotteryTypes
<1>15. ASSUME NEW c \in Clients, ClientResult(c)
       PROVE  LotteryTypes'
  <2>1. hears' \in [Clients -> Seq(Packets)]
    BY <1>15, <1>t, Taking DEF LotteryTypes, ClientResult
  <2>2. cpc' \in [Clients -> {"idle", "ask", "coupons", "raw", "hear", "result", "ended"}]
    BY <1>15, <1>t DEF LotteryTypes, ClientResult
  <2>3. UNCHANGED <<killed, coupon, raw, late, asked, stream, dead, answer, distvars, judgevars>>
    BY <1>15 DEF ClientResult
  <2> QED
    BY <1>t, <2>1, <2>2, <2>3 DEF LotteryTypes
<1>12. CASE UNCHANGED lotteryvars
  BY <1>12, <1>t DEF LotteryTypes, lotteryvars
<1> QED
  BY <1>1, <1>2, <1>3, <1>4, <1>5, <1>6, <1>7, <1>8, <1>9, <1>10, <1>11, <1>12, <1>13,
     <1>14, <1>15 DEF LotteryNext, DistStep, JudgeStep, ClientStep

\* Whoever sells, draws the next number; whoever stores a coupon takes it from the
\* front of its stream.
LEMMA StepCouponsAreNew ==
  ASSUME LotteryInv, [LotteryNext]_lotteryvars
  PROVE  CouponsAreNew'
<1> USE DEF clientvars, connvars, distvars, judgevars, ClientAt, ClientGoto
<1>t. LotteryTypes /\ CouponsAreNew
  BY DEF LotteryInv
<1>0. ASSUME UNCHANGED <<stream, coupon, drawn>>, dpc' = "killed" => dpc = "killed"
      PROVE  CouponsAreNew'
  BY <1>0, <1>t DEF CouponsAreNew
<1>1. CASE DistSell
  <2> DEFINE c == line[turn]
  <2>1. drawn' = drawn + 1 /\ drawn \in Nat /\ coupon' = coupon
    BY <1>1, <1>t DEF LotteryTypes, DistSell
  <2>2. ASSUME NEW x \in Clients, NEW k \in 1..Len(stream'[x]), stream'[x][k] = Winning
        PROVE  k = 1 /\ coupon[x] = <<>>
    <3>1. CASE stream'[x] = stream[x]
      BY <1>t, <2>2, <3>1 DEF CouponsAreNew
    <3>2. CASE stream'[x] = Append(stream[x], drawn')
      <4>1. stream[x] \in Seq(Nat) /\ drawn' \in Nat
        BY <1>t, <2>1 DEF LotteryTypes
      <4>2. CASE k \in 1..Len(stream[x])
        <5>1. stream[x][k] = Winning
          BY <2>2, <3>2, <4>1, <4>2, Adding
        <5> QED
          BY <1>t, <4>2, <5>1 DEF CouponsAreNew
      <4>3. CASE k \notin 1..Len(stream[x])
        <5>1. k = Len(stream[x]) + 1 /\ drawn' = Winning
          BY <2>2, <3>2, <4>1, <4>3, Adding
        <5>2. drawn = 0
          BY <2>1, <5>1 DEF Winning
        <5>3. stream[x] = <<>> /\ coupon[x] = <<>>
          BY <1>t, <5>2 DEF CouponsAreNew
        <5>4. Len(stream[x]) = 0
          BY <5>3
        <5> QED
          BY <5>1, <5>3, <5>4
      <4> QED
        BY <4>2, <4>3
    <3>3. stream'[x] = stream[x] \/ stream'[x] = Append(stream[x], drawn')
      <4>1. CASE UNCHANGED stream
        BY <4>1
      <4>2. CASE stream' = [stream EXCEPT ![c] = IF killed[c] THEN @ ELSE Append(@, drawn')]
        <5> HIDE DEF c
        <5>1. CASE x = c
          BY <1>t, <4>2, <5>1 DEF LotteryTypes
        <5>2. CASE x # c
          BY <1>t, <4>2, <5>2 DEF LotteryTypes
        <5> QED
          BY <5>1, <5>2
      <4> QED
        BY <1>1, <4>1, <4>2 DEF DistSell
    <3> QED
      BY <3>1, <3>2, <3>3
  <2>3. drawn' # 0
    BY <2>1
  <2> QED
    BY <1>t, <2>1, <2>2, <2>3 DEF CouponsAreNew
<1>2. ASSUME NEW c \in Clients, ClientCoupon(c)
      PROVE  CouponsAreNew'
  <2> DEFINE n == IF stream[c] = <<>> THEN 0 ELSE Head(stream[c])
  <2>1. /\ coupon[c] \in Seq(Nat) /\ stream[c] \in Seq(Nat)
        /\ stream[c] # <<>> \/ dpc = "killed"
        /\ drawn' = drawn
    BY <1>2, <1>t DEF LotteryTypes, ClientCoupon
  <2>2. drawn' # 0
    BY <1>t, <2>1 DEF CouponsAreNew
  <2>3. /\ coupon' = [coupon EXCEPT ![c] = Append(coupon[c], n)]
        /\ stream' = [stream EXCEPT ![c] = IF stream[c] = <<>> THEN stream[c] ELSE Tail(stream[c])]
    BY <1>2 DEF ClientCoupon
  <2>4. n \in Nat
    BY <2>1, Taking
  <2>5. n = Winning => coupon[c] = <<>>
    <3>1. n = Winning => stream[c] # <<>> /\ stream[c][1] = Winning /\ 1 \in 1..Len(stream[c])
      BY <2>1, Taking DEF Winning
    <3> QED
      BY <1>t, <3>1 DEF CouponsAreNew
  <2> HIDE DEF n
  <2>6. ASSUME NEW x \in Clients, NEW k \in 1..Len(coupon'[x]), coupon'[x][k] = Winning
        PROVE  k = 1
    <3>1. CASE x # c
      BY <1>t, <2>3, <2>6, <3>1 DEF CouponsAreNew, LotteryTypes
    <3>2. CASE x = c
      <4>1. coupon'[x] = Append(coupon[c], n)
        BY <1>t, <2>3, <3>2 DEF LotteryTypes
      <4>2. CASE k \in 1..Len(coupon[c])
        <5>1. coupon[c][k] = Winning
          BY <2>1, <2>4, <2>6, <4>1, <4>2, Adding
        <5> QED
          BY <1>t, <4>2, <5>1 DEF CouponsAreNew
      <4>3. CASE k \notin 1..Len(coupon[c])
        <5>1. k = Len(coupon[c]) + 1 /\ n = Winning
          BY <2>1, <2>4, <2>6, <4>1, <4>3, Adding
        <5> QED
          BY <2>5, <5>1
      <4> QED
        BY <4>2, <4>3
    <3> QED
      BY <3>1, <3>2
  <2>7. ASSUME NEW x \in Clients, NEW k \in 1..Len(stream'[x]), stream'[x][k] = Winning
        PROVE  k = 1 /\ coupon'[x] = <<>>
    <3>1. CASE x # c
      BY <1>t, <2>3, <2>7, <3>1 DEF CouponsAreNew, LotteryTypes
    <3>2. CASE x = c /\ stream[c] # <<>>
      <4>1. stream'[x] = Tail(stream[c])
        BY <1>t, <2>3, <3>2 DEF LotteryTypes
      <4>2. k + 1 \in 1..Len(stream[c]) /\ stream[c][k + 1] = Winning
        BY <2>1, <2>7, <3>2, <4>1, Taking
      <4>3. k + 1 = 1
        BY <1>t, <4>2 DEF CouponsAreNew
      <4> QED
        BY <4>3
    <3>3. CASE x = c /\ stream[c] = <<>>
      <4>1. stream'[x] = <<>>
        BY <1>t, <2>3, <3>3 DEF LotteryTypes
      <4> QED
        BY <2>7, <4>1
    <3> QED
      BY <3>1, <3>2, <3>3
  <2> QED
    BY <2>2, <2>6, <2>7 DEF CouponsAreNew
<1>3. CASE (DistStep /\ ~DistSell) \/ DistStart
  <2>1. UNCHANGED <<stream, coupon, drawn>> /\ (dpc' = "killed" => dpc = "killed")
    BY <1>3 DEF DistStep, DistStart, DistAccept, DistRead, DistNext, DistHandOver
  <2> QED
    BY <1>0, <2>1
<1>4. CASE JudgeStart \/ JudgeStep
  <2>1. UNCHANGED <<stream, coupon, drawn, dpc>>
    BY <1>4 DEF JudgeStart, JudgeStep, JudgeRecvFds, JudgeAnnounce, JudgeCollect, JudgeResult
  <2> QED
    BY <1>0, <2>1
<1>5. ASSUME NEW c \in Clients, ClientConnect(c) \/ ClientAsk(c) \/ ClientRaw(c)
                                 \/ ClientAnswer(c) \/ ClientResult(c) \/ ClientKill(c)
      PROVE  CouponsAreNew'
  <2>1. UNCHANGED <<stream, coupon, drawn, dpc>>
    BY <1>5 DEF ClientConnect, ClientAsk, ClientRaw, ClientAnswer, ClientResult, ClientKill
  <2> QED
    BY <1>0, <2>1
<1>6. CASE UNCHANGED lotteryvars
  BY <1>0, <1>6 DEF lotteryvars
<1> QED
  BY <1>1, <1>2, <1>3, <1>4, <1>5, <1>6 DEF LotteryNext, ClientStep, DistStep

\* The line only grows, and only while the distributor accepts; the judge begins
\* when the distributor has handed over.
LEMMA StepLined ==
  ASSUME LotteryInv, [LotteryNext]_lotteryvars
  PROVE  Lined'
<1> USE DEF clientvars, connvars, distvars, judgevars, ClientAt, ClientGoto
<1>t. LotteryTypes /\ Lined
  BY DEF LotteryInv
<1>0. ASSUME line' = line, \A c \in Clients : cpc'[c] # "idle" => cpc[c] # "idle",
             dpc' \notin {"down", "accept"} => dpc \notin {"down", "accept"} \/ Len(line) = 3,
             jpc' \notin {"down", "recv_fd"} => dpc' \in {"ended", "killed"}
      PROVE  Lined'
  BY <1>0, <1>t DEF Lined
<1>1. ASSUME NEW c \in Clients, ClientConnect(c)
      PROVE  Lined'
  <2>1. /\ line' = Append(line, c) /\ cpc' = [cpc EXCEPT ![c] = "ask"]
        /\ dpc = "accept" /\ UNCHANGED <<dpc, jpc>> /\ line \in Seq(Clients)
    BY <1>1, <1>t DEF ClientConnect, LotteryTypes
  <2>2. ASSUME NEW x \in Clients, cpc'[x] # "idle"
        PROVE  \E k \in 1..Len(line') : line'[k] = x
    <3>1. CASE x = c
      BY <2>1, <3>1, Adding
    <3>2. CASE x # c
      <4>1. PICK k \in 1..Len(line) : line[k] = x
        BY <1>t, <2>1, <2>2, <3>2 DEF Lined, LotteryTypes
      <4>2. k \in 1..Len(line') /\ line'[k] = x
        BY <2>1, <4>1, Adding
      <4> QED
        BY <4>2
    <3> QED
      BY <3>1, <3>2
  <2> QED
    BY <1>t, <2>1, <2>2 DEF Lined
<1>2. CASE DistStart \/ DistStep
  <2>1. UNCHANGED <<line, cpc, jpc>>
    BY <1>2 DEF DistStart, DistStep, DistAccept, DistRead, DistSell, DistNext, DistHandOver
  <2>2. dpc' \notin {"down", "accept"} => dpc \notin {"down", "accept"} \/ Len(line) = 3
    BY <1>2 DEF DistStart, DistStep, DistAccept, DistRead, DistSell, DistNext, DistHandOver
  <2>3. dpc \notin {"ended", "killed"}
    BY <1>2 DEF DistStart, DistStep, DistAccept, DistRead, DistSell, DistNext, DistHandOver
  <2> QED
    BY <1>0, <1>t, <2>1, <2>2, <2>3 DEF Lined
<1>3. CASE JudgeStart \/ JudgeStep
  <2>1. UNCHANGED <<line, cpc, dpc>>
    BY <1>3 DEF JudgeStart, JudgeStep, JudgeRecvFds, JudgeAnnounce, JudgeCollect, JudgeResult
  <2>2. jpc' \notin {"down", "recv_fd"} => dpc' \in {"ended", "killed"}
    BY <1>3, <1>t DEF Lined, JudgeStart, JudgeStep, JudgeRecvFds, JudgeAnnounce, JudgeCollect,
                      JudgeResult
  <2> QED
    BY <1>0, <2>1, <2>2
<1>4. ASSUME NEW c \in Clients, ClientStep(c) \/ ClientKill(c)
      PROVE  Lined'
  <2>1. UNCHANGED <<line, dpc, jpc>>
    BY <1>4 DEF ClientStep, ClientAsk, ClientCoupon, ClientRaw, ClientAnswer, ClientResult,
                ClientKill
  <2>2. cpc[c] # "idle" /\ \A x \in Clients : x # c => cpc'[x] = cpc[x]
    BY <1>4, <1>t DEF LotteryTypes, ClientStep, ClientAsk, ClientCoupon, ClientRaw,
                      ClientAnswer, ClientResult, ClientKill
  <2> QED
    BY <1>0, <1>t, <2>1, <2>2 DEF Lined
<1>5. CASE UNCHANGED lotteryvars
  BY <1>5, <1>t DEF lotteryvars, Lined
<1> QED
  BY <1>1, <1>2, <1>3, <1>4, <1>5 DEF LotteryNext

\* Packets reach open raw sockets only, the winning coupon before the results.
LEMMA StepHeard ==
  ASSUME LotteryInv, [LotteryNext]_lotteryvars
  PROVE  HeardFirst'
<1> USE DEF clientvars, connvars, distvars, judgevars, ClientAt, ClientGoto
<1>t. LotteryTypes /\ HeardFirst /\ Lined
  BY DEF LotteryInv
<1>0. ASSUME UNCHANGED <<hears, raw>>,
             jpc' \notin {"collect", "ended"} => jpc \notin {"collect", "ended"},
             dpc' # "killed" => dpc # "killed",
             \A c \in Clients :
                raw[c] => cpc'[c] = cpc[c] /\ (killed'[c] = killed[c] \/ killed'[c] = TRUE)
      PROVE  HeardFirst'
  BY <1>0, <1>t DEF HeardFirst
<1>1. CASE JudgeAnnounce
  <2>1. \A c \in Clients : hears[c] = <<>>
    BY <1>1, <1>t DEF HeardFirst, JudgeAnnounce
  <2>2. ASSUME NEW c \in Clients
        PROVE  hears'[c] = <<>> \/ (raw[c] /\ hears'[c] = <<<<Winning>>>>)
    <3>1. CASE hears' = hears
      BY <2>1, <3>1
    <3>2. CASE SendRaw(<<Winning>>)
      <4>1. Append(<<>>, <<Winning>>) = <<<<Winning>>>>
        OBVIOUS
      <4>2. hears'[c] = IF raw[c] THEN Append(hears[c], <<Winning>>) ELSE hears[c]
        BY <3>2 DEF SendRaw
      <4> QED
        BY <2>1, <4>1, <4>2
    <3> QED
      BY <1>1, <3>1, <3>2 DEF JudgeAnnounce
  <2>3. jpc' = "collect" /\ UNCHANGED <<raw, cpc, killed>>
    BY <1>1 DEF JudgeAnnounce
  <2>4. \A c \in Clients : hears'[c] # <<>> => raw[c] /\ hears'[c][1] = <<Winning>>
    <3>1. \A x : <<x>>[1] = x
      OBVIOUS
    <3> QED
      BY <2>2, <3>1
  <2> QED
    BY <1>t, <2>3, <2>4 DEF HeardFirst
<1>2. CASE JudgeResult
  <2>0. jpc = "collect" /\ at > 3 /\ jpc' = "ended" /\ UNCHANGED <<raw, cpc, killed, dpc>>
    BY <1>2 DEF JudgeResult
  <2>h. \A c \in Clients : hears'[c] # <<>> => raw[c]
    BY <1>2, <1>t DEF HeardFirst, JudgeResult, SendRaw
  <2>1. CASE dpc # "ended"
    <3>1. dpc = "killed"
      BY <1>t, <2>0, <2>1 DEF Lined
    <3> QED
      BY <1>t, <2>0, <2>h, <3>1 DEF HeardFirst
  <2>2. CASE dpc = "ended"
    <3>1. ASSUME NEW c \in Clients, cpc[c] = "hear"
          PROVE  killed[c]
      <4>1. PICK k \in 1..Len(line) : line[k] = c
        BY <1>t, <3>1 DEF Lined
      <4>2. Len(line) = 3
        BY <1>t, <2>2 DEF Lined
      <4>3. Len(b) = at - 1 /\ at \in Nat /\ Len(b) <= 3
        BY <2>0 DEF LotteryInv, LotteryTypes, Collected
      <4>4. k \in 1..Len(b)
        BY <2>0, <4>1, <4>2, <4>3
      <4>5. killed[c] \/ answer[c] # "none"
        BY <2>2, <4>1, <4>4 DEF LotteryInv, Collected
      <4>6. answer[c] = "none"
        BY <3>1 DEF LotteryInv, Answered
      <4> QED
        BY <4>5, <4>6
    <3> QED
      BY <1>t, <2>0, <2>2, <2>h, <3>1 DEF HeardFirst
  <2> QED
    BY <2>1, <2>2
<1>3. CASE DistSell
  <2>1. UNCHANGED <<hears, raw, cpc, killed, jpc>> /\ dpc = "sell"
    BY <1>3 DEF DistSell
  <2>2. jpc \notin {"collect", "ended"}
    BY <1>t, <2>1 DEF LotteryTypes, Lined
  <2>3. \A c \in Clients : UNCHANGED <<cpc[c], killed[c]>>
    BY <2>1
  <2> QED
    BY <1>0, <2>1, <2>2, <2>3
<1>4. CASE (DistStep /\ ~DistSell) \/ DistStart \/ JudgeStart \/ JudgeRecvFds \/ JudgeCollect
  <2>1. UNCHANGED <<hears, raw, cpc, killed>>
    BY <1>4 DEF DistStep, DistStart, DistAccept, DistRead, DistNext, DistHandOver, JudgeStart,
                JudgeRecvFds, JudgeCollect
  <2>2. /\ dpc' # "killed" => dpc # "killed"
        /\ jpc' \in {"collect", "ended"} <=> jpc \in {"collect", "ended"}
    BY <1>4 DEF DistStep, DistStart, DistAccept, DistRead, DistNext, DistHandOver, JudgeStart,
                JudgeRecvFds, JudgeCollect
  <2>3. \A c \in Clients : UNCHANGED <<cpc[c], killed[c]>>
    BY <2>1
  <2> QED
    BY <1>0, <2>1, <2>2, <2>3
<1>5. ASSUME NEW c \in Clients, ClientConnect(c) \/ ClientAsk(c) \/ ClientCoupon(c)
      PROVE  HeardFirst'
  <2>1. UNCHANGED <<hears, raw, killed, jpc, dpc>>
    BY <1>5 DEF ClientConnect, ClientAsk, ClientCoupon
  <2>2. ~raw[c] /\ \A x \in Clients : x # c => cpc'[x] = cpc[x]
    BY <1>5, <1>t DEF HeardFirst, LotteryTypes, ClientConnect, ClientAsk, ClientCoupon
  <2>3. \A x \in Clients : raw[x] => UNCHANGED <<cpc[x], killed[x]>>
    BY <2>1, <2>2
  <2> QED
    BY <1>0, <2>1, <2>3
<1>6. ASSUME NEW c \in Clients, ClientRaw(c)
      PROVE  HeardFirst'
  <2>1. /\ UNCHANGED <<hears, killed, jpc, dpc>> /\ cpc[c] = "raw"
        /\ raw' = [raw EXCEPT ![c] = TRUE] /\ cpc' = [cpc EXCEPT ![c] = "hear"]
    BY <1>6 DEF ClientRaw
  <2>2. hears[c] = <<>>
    BY <1>t, <2>1 DEF HeardFirst
  <2>3. /\ \A x \in Clients : x # c => cpc'[x] = cpc[x] /\ raw'[x] = raw[x]
        /\ cpc'[c] = "hear"
    BY <1>t, <2>1 DEF LotteryTypes
  <2> QED
    BY <1>t, <2>1, <2>2, <2>3 DEF HeardFirst
<1>7. ASSUME NEW c \in Clients, ClientAnswer(c) \/ ClientResult(c)
      PROVE  HeardFirst'
  <2>1. /\ UNCHANGED <<raw, killed, jpc, dpc>> /\ hears[c] # <<>>
        /\ hears' = [hears EXCEPT ![c] = Tail(@)]
        /\ cpc' = [cpc EXCEPT ![c] = "result"] \/ cpc' = [cpc EXCEPT ![c] = "ended"]
    BY <1>7 DEF ClientAnswer, ClientResult
  <2>2. /\ \A x \in Clients : x # c => cpc'[x] = cpc[x] /\ hears'[x] = hears[x]
        /\ cpc'[c] \in {"result", "ended"}
    BY <1>t, <2>1 DEF LotteryTypes
  <2>3. raw[c] /\ jpc \in {"collect", "ended"}
    BY <1>t, <2>1 DEF HeardFirst
  <2> QED
    BY <1>t, <2>1, <2>2, <2>3 DEF HeardFirst
<1>8. ASSUME NEW c \in Clients, ClientKill(c)
      PROVE  HeardFirst'
  <2>1. /\ UNCHANGED <<hears, raw, cpc, jpc, dpc>>
        /\ killed' = [killed EXCEPT ![c] = TRUE]
    BY <1>8 DEF ClientKill
  <2>2. \A x \in Clients : killed'[x] = killed[x] \/ killed'[x] = TRUE
    BY <1>t, <2>1 DEF LotteryTypes
  <2> QED
    BY <1>0, <2>1, <2>2
<1>9. CASE UNCHANGED lotteryvars
  BY <1>0, <1>9 DEF lotteryvars
<1> QED
  BY <1>1, <1>2, <1>3, <1>4, <1>5, <1>6, <1>7, <1>8, <1>9
     DEF LotteryNext, ClientStep, DistStep, JudgeStep

\* A client answers once, and its coupons are all there by then.
LEMMA StepAnswered ==
  ASSUME LotteryInv, [LotteryNext]_lotteryvars
  PROVE  Answered'
<1> USE DEF clientvars, connvars, distvars, judgevars, ClientAt, ClientGoto
<1>t. LotteryTypes /\ Answered
  BY DEF LotteryInv
<1>0. ASSUME UNCHANGED <<answer, coupon>>, dpc \in {"ended", "killed"} => dpc' = dpc,
             \A c \in Clients : cpc[c] \in {"result", "ended"} => cpc'[c] \in {"result", "ended"}
      PROVE  Answered'
  BY <1>0, <1>t DEF Answered
<1>1. CASE DistStart \/ DistStep \/ JudgeStart \/ JudgeStep
  <2>1. UNCHANGED <<answer, coupon, cpc>>
    BY <1>1 DEF DistStart, DistStep, DistAccept, DistRead, DistSell, DistNext, DistHandOver,
                JudgeStart, JudgeStep, JudgeRecvFds, JudgeAnnounce, JudgeCollect, JudgeResult
  <2>2. dpc \in {"ended", "killed"} => dpc' = dpc
    BY <1>1 DEF DistStart, DistStep, DistAccept, DistRead, DistSell, DistNext, DistHandOver,
                JudgeStart, JudgeStep, JudgeRecvFds, JudgeAnnounce, JudgeCollect, JudgeResult
  <2> QED
    BY <1>0, <2>1, <2>2
<1>2. ASSUME NEW c \in Clients,
             ClientConnect(c) \/ ClientAsk(c) \/ ClientRaw(c) \/ ClientResult(c) \/ ClientKill(c)
      PROVE  Answered'
  <2>1. UNCHANGED <<answer, coupon, dpc>>
    BY <1>2 DEF ClientConnect, ClientAsk, ClientRaw, ClientResult, ClientKill
  <2>2. /\ \A x \in Clients : x # c => cpc'[x] = cpc[x]
        /\ cpc[c] \in {"result", "ended"} => cpc'[c] \in {"result", "ended"}
    BY <1>2, <1>t DEF LotteryTypes, ClientConnect, ClientAsk, ClientRaw, ClientResult, ClientKill
  <2> QED
    BY <1>0, <2>1, <2>2
<1>3. ASSUME NEW c \in Clients, ClientCoupon(c)
      PROVE  Answered'
  <2>1. /\ UNCHANGED <<answer, dpc>> /\ cpc[c] = "coupons"
        /\ \A x \in Clients : x # c => cpc'[x] = cpc[x] /\ coupon'[x] = coupon[x]
    BY <1>3, <1>t DEF LotteryTypes, ClientCoupon
  <2>2. answer[c] = "none"
    BY <1>t, <2>1 DEF Answered
  <2> QED
    BY <1>t, <2>1, <2>2 DEF Answered
<1>4. ASSUME NEW c \in Clients, ClientAnswer(c)
      PROVE  Answered'
  <2>1. /\ UNCHANGED <<coupon, dpc>> /\ cpc[c] = "hear" /\ ~killed[c] /\ hears[c] # <<>>
        /\ \A x \in Clients : x # c => cpc'[x] = cpc[x] /\ answer'[x] = answer[x]
        /\ cpc'[c] = "result"
        /\ answer'[c] = IF Holds(c, Head(hears[c])) THEN "Winner" ELSE "Loser"
    BY <1>4, <1>t DEF LotteryTypes, ClientAnswer
  <2>2. dpc = "ended" => Head(hears[c]) = <<Winning>>
    <3>1. dpc = "ended" => hears[c][1] = <<Winning>>
      BY <2>1 DEF LotteryInv, HeardFirst
    <3>2. Head(hears[c]) = hears[c][1]
      BY <1>t, <2>1, Taking DEF LotteryTypes
    <3> QED
      BY <3>1, <3>2
  <2>3. dpc \in {"ended", "killed"}
    <3>1. jpc \in {"collect", "ended"}
      BY <2>1 DEF LotteryInv, HeardFirst
    <3> QED
      BY <3>1 DEF LotteryInv, Lined
  <2>4. Holds(c, <<Winning>>) <=> Len(coupon[c]) > 0 /\ coupon[c][1] = Winning
    <3>1. coupon[c] \in Seq(Nat) /\ Len(coupon[c]) \in Nat
      BY <1>t DEF LotteryTypes
    <3>2. \A k \in 1..Len(coupon[c]) : coupon[c][k] = Winning => k = 1
      BY DEF LotteryInv, CouponsAreNew
    <3>3. Holds(c, <<Winning>>) <=> \E k \in 1..Len(coupon[c]) : coupon[c][k] = Winning
      <4>1. \A x : <<Winning>> = <<x>> <=> x = Winning
        OBVIOUS
      <4>2. DOMAIN coupon[c] = 1..Len(coupon[c])
        BY <3>1
      <4> QED
        BY <4>1, <4>2 DEF Holds
    <3>4. Len(coupon[c]) > 0 <=> 1 \in 1..Len(coupon[c])
      BY <3>1
    <3> QED
      BY <3>1, <3>2, <3>3, <3>4
  <2> QED
    BY <1>t, <2>1, <2>2, <2>3, <2>4 DEF Answered
<1>5. CASE UNCHANGED lotteryvars
  BY <1>0, <1>5 DEF lotteryvars
<1> QED
  BY <1>1, <1>2, <1>3, <1>4, <1>5 DEF LotteryNext, ClientStep

\* The judge reads on in the line when the client it waits for has answered, or
\* never will.
LEMMA StepCollected ==
  ASSUME LotteryInv, [LotteryNext]_lotteryvars
  PROVE  Collected'
<1> USE DEF clientvars, connvars, distvars, judgevars, ClientAt, ClientGoto
<1>t. LotteryTypes /\ Collected
  BY DEF LotteryInv
<1>n. Len(b) \in Nat /\ at \in Nat
  BY <1>t DEF LotteryTypes
\* Where answers have been read, nobody comes any more.
<1>l. ASSUME NEW k \in 1..Len(b)
      PROVE  /\ jpc \in {"collect", "ended"} /\ dpc \notin {"down", "accept"}
             /\ line[k] \in Clients
  <2>1. jpc \in {"collect", "ended"} /\ Len(b) <= 3
    BY <1>t, <1>n DEF Collected
  <2>2. dpc \in {"ended", "killed"} /\ Len(line) = 3
    BY <2>1 DEF LotteryInv, Lined
  <2>3. k \in 1..Len(line)
    BY <1>n, <2>1, <2>2
  <2> QED
    BY <1>t, <2>1, <2>2, <2>3, Member DEF LotteryTypes
<1>0. ASSUME UNCHANGED <<b, at>>, jpc' \in {"collect", "ended"} <=> jpc \in {"collect", "ended"},
             jpc' = "ended" => jpc = "ended" \/ Len(b) = 3,
             packet' = packet, dpc' = "killed" => packet \in {"none", "coupon"},
             \A k \in 1..Len(b) :
                dpc = "killed" \/ killed[line[k]] \/ answer[line[k]] # "none"
                => dpc' = "killed" \/ killed'[line'[k]] \/ answer'[line'[k]] # "none"
      PROVE  Collected'
  BY <1>0, <1>t DEF Collected
<1>1. CASE DistStart \/ DistStep
  <2>1. /\ UNCHANGED <<b, at, jpc, packet, killed, answer, line>>
        /\ dpc \notin {"ended", "killed"}
    BY <1>1 DEF DistStart, DistStep, DistAccept, DistRead, DistSell, DistNext, DistHandOver
  <2>2. packet = "none"
    <3>1. jpc \notin {"collect", "ended"}
      BY <2>1 DEF LotteryInv, Lined
    <3> QED
      BY <1>t, <3>1 DEF Collected
  <2> QED
    BY <1>0, <2>1, <2>2
<1>2. CASE JudgeStart \/ JudgeRecvFds
  <2>1. /\ UNCHANGED <<b, at, packet, killed, answer, line, dpc>>
        /\ {jpc, jpc'} \subseteq {"down", "recv_fd", "announce"}
    BY <1>2 DEF JudgeStart, JudgeRecvFds
  <2>2. packet = "none"
    BY <1>t, <2>1 DEF Collected
  <2> QED
    BY <1>0, <2>1, <2>2
<1>3. CASE JudgeAnnounce
  <2>1. UNCHANGED <<b, at>> /\ jpc = "announce" /\ jpc' = "collect" /\ packet' = "coupon"
    BY <1>3 DEF JudgeAnnounce
  <2>2. Len(b) = 0 /\ at = 1
    BY <1>t, <2>1 DEF Collected
  <2>3. Len(b') = 0 /\ at' = 1 /\ ~(0 > 0)
    BY <2>1, <2>2
  <2> QED
    BY <2>1, <2>3 DEF Collected
<1>4. CASE JudgeResult
  <2>1. /\ UNCHANGED <<b, at, packet, killed, answer, line, dpc>>
        /\ jpc = "collect" /\ jpc' = "ended" /\ at > 3
    BY <1>4 DEF JudgeResult
  <2>3. Len(b) = at - 1 /\ Len(b) <= 3
    BY <1>t, <2>1 DEF Collected
  <2>2. Len(b) = 3
    BY <1>n, <2>1, <2>3
  <2>4. dpc = "killed" => packet \in {"none", "coupon"}
    BY <1>t DEF Collected
  <2> QED
    BY <1>0, <2>1, <2>2, <2>4
<1>5. CASE JudgeCollect
  <2>1. /\ UNCHANGED <<jpc, killed, answer, line, dpc>> /\ jpc = "collect" /\ at <= 3
        /\ b' = Append(b, packet' = "Winner") /\ at' = at + 1
        /\ dpc = "killed" \/ killed[line[at]] \/ answer[line[at]] # "none"
    BY <1>5 DEF JudgeCollect
  <2>2. Len(b) = at - 1
    BY <1>t, <2>1 DEF Collected
  <2>3. /\ Len(b') = Len(b) + 1 /\ b'[Len(b) + 1] = (packet' = "Winner")
        /\ \A k \in 1..Len(b) : b'[k] = b[k]
    <3>1. b \in Seq(BOOLEAN) /\ (packet' = "Winner") \in BOOLEAN
      BY <1>t DEF LotteryTypes
    <3> QED
      BY <2>1, <3>1, Adding
  <2>4. Len(b') = at /\ at' - 1 = at /\ Len(b') <= 3
    BY <1>n, <2>1, <2>2, <2>3
  <2>5. packet' = "Winner" <=> Len(b') > 0 /\ b'[Len(b')]
    <3>1. Len(b') > 0 /\ b'[Len(b')] = (packet' = "Winner")
      BY <1>n, <2>3
    <3> QED
      BY <3>1
  <2>6. \A k \in 1..Len(b') : dpc = "killed" \/ killed[line[k]] \/ answer[line[k]] # "none"
    <3>1. \A k \in 1..Len(b') : k \in 1..Len(b) \/ k = at
      BY <1>n, <2>2, <2>3
    <3> QED
      BY <1>t, <2>1, <3>1 DEF Collected
  <2>7. at' # 1 /\ jpc' = "collect"
    BY <1>n, <2>1, <2>2
  <2>8. dpc = "killed" => packet' \in {"none", "coupon"}
    BY <1>5, <1>t DEF Collected, JudgeCollect
  <2> QED
    BY <2>1, <2>4, <2>5, <2>6, <2>7, <2>8 DEF Collected
<1>6. ASSUME NEW c \in Clients, ClientConnect(c)
      PROVE  Collected'
  <2>1. UNCHANGED <<b, at, jpc, packet, dpc>> /\ dpc = "accept"
    BY <1>6 DEF ClientConnect
  <2>2. \A k \in 1..Len(b) : FALSE
    BY <1>l, <2>1
  <2> QED
    BY <1>0, <2>1, <2>2
<1>7. ASSUME NEW c \in Clients, ClientStep(c) \/ ClientKill(c)
      PROVE  Collected'
  <2>1. UNCHANGED <<b, at, jpc, packet, line, dpc>>
    BY <1>7 DEF ClientStep, ClientAsk, ClientCoupon, ClientRaw, ClientAnswer, ClientResult,
                ClientKill
  <2>2. \A x \in Clients : killed'[x] = killed[x] \/ killed'[x] = TRUE
    BY <1>7, <1>t DEF LotteryTypes, ClientStep, ClientAsk, ClientCoupon, ClientRaw,
                      ClientAnswer, ClientResult, ClientKill
  <2>3. \A x \in Clients : answer'[x] = answer[x] \/ answer'[x] # "none"
    BY <1>7, <1>t DEF LotteryTypes, ClientStep, ClientAsk, ClientCoupon, ClientRaw,
                      ClientAnswer, ClientResult, ClientKill
  <2>4. dpc = "killed" => packet \in {"none", "coupon"}
    BY <1>t DEF Collected
  <2> QED
    BY <1>0, <1>l, <2>1, <2>2, <2>3, <2>4
<1>8. CASE UNCHANGED lotteryvars
  BY <1>0, <1>t, <1>8 DEF lotteryvars, Collected
<1> QED
  BY <1>1, <1>2, <1>3, <1>4, <1>5, <1>6, <1>7, <1>8 DEF LotteryNext, JudgeStep

\* Of the tallied, no answer and no coupon changes any more.
LEMMA StepJudged ==
  ASSUME LotteryInv, [LotteryNext]_lotteryvars
  PROVE  JudgedFairly'
<1> USE DEF clientvars, connvars, distvars, judgevars, ClientAt, ClientGoto
<1>t. LotteryTypes /\ Collected /\ Answered /\ JudgedFairly
  BY DEF LotteryInv
<1>n. b \in Seq(BOOLEAN) /\ Len(b) \in Nat /\ at \in Nat /\ DOMAIN b = 1..Len(b)
  BY <1>t DEF LotteryTypes
<1>l. ASSUME NEW k \in 1..Len(b)
      PROVE  dpc \in {"ended", "killed"}
  BY <1>t DEF LotteryInv, Collected, Lined
<1>0. ASSUME UNCHANGED b,
             \A k \in 1..Len(b) : UNCHANGED <<dpc, line[k], answer[line[k]]>>,
             \A k \in 1..Len(b) : answer[line[k]] # "none" => UNCHANGED coupon[line[k]]
      PROVE  JudgedFairly'
  BY <1>0, <1>n, <1>t DEF JudgedFairly
<1>1. CASE DistStart \/ DistStep \/ JudgeStart \/ (JudgeStep /\ ~JudgeCollect)
  <2>1. /\ UNCHANGED <<b, line, answer, coupon>>
        /\ dpc \in {"ended", "killed"} => UNCHANGED dpc
    BY <1>1 DEF DistStart, DistStep, DistAccept, DistRead, DistSell, DistNext, DistHandOver,
                JudgeStart, JudgeStep, JudgeRecvFds, JudgeAnnounce, JudgeResult
  <2> QED
    BY <1>0, <1>l, <2>1
<1>2. CASE JudgeCollect
  <2> DEFINE c == line[at]
  <2>1. /\ UNCHANGED <<line, answer, coupon, dpc>> /\ jpc = "collect" /\ at <= 3
        /\ b' = Append(b, packet' = "Winner")
    BY <1>2 DEF JudgeCollect
  <2>2. Len(b) = at - 1
    BY <1>t, <2>1 DEF Collected
  <2>3. /\ Len(b') = at /\ b'[at] = (packet' = "Winner") /\ DOMAIN b' = 1..at
        /\ \A k \in 1..Len(b) : b'[k] = b[k]
    <3>1. (packet' = "Winner") \in BOOLEAN
      OBVIOUS
    <3> QED
      BY <1>n, <2>1, <2>2, <3>1, Adding
  <2>4. c \in Clients
    <3>1. Len(line) = 3
      BY <2>1 DEF LotteryInv, Lined
    <3>2. at \in 1..Len(line)
      BY <1>n, <2>1, <2>2, <3>1
    <3> QED
      BY <1>t, <3>2, Member DEF LotteryTypes
  <2>d. dpc \in {"ended", "killed"}
    BY <2>1 DEF LotteryInv, Lined
  <2>5. dpc # "killed" /\ answer[c] # "none" => packet' = answer[c]
    BY <1>2 DEF JudgeCollect
  <2>6. answer[c] = "none" \/ dpc = "killed" => packet' = packet
    BY <1>2 DEF JudgeCollect
  <2>k. dpc = "killed" => packet # "Winner"
    BY <1>t DEF Collected
  <2> HIDE DEF c
  <2>7. ASSUME NEW i \in 1..at
        PROVE  /\ b'[i] => dpc # "killed"
               /\ dpc # "killed" /\ answer[line[i]] # "none" =>
                    (b'[i] <=> Len(coupon[line[i]]) > 0 /\ coupon[line[i]][1] = Winning)
               /\ answer[line[i]] = "none" => (b'[i] => i > 1 /\ b'[i - 1])
    <3>1. CASE i \in 1..Len(b)
      <4>1. b'[i] = b[i] /\ (i > 1 => b'[i - 1] = b[i - 1])
        BY <1>n, <2>3, <3>1
      <4>2. /\ b[i] => dpc # "killed"
            /\ dpc # "killed" /\ answer[line[i]] # "none" =>
                 (b[i] <=> Len(coupon[line[i]]) > 0 /\ coupon[line[i]][1] = Winning)
            /\ answer[line[i]] = "none" => (b[i] => i > 1 /\ b[i - 1])
        BY <1>n, <1>t, <3>1 DEF JudgedFairly
      <4> QED
        BY <4>1, <4>2
    <3>2. CASE i \notin 1..Len(b)
      <4>1. i = at /\ line[i] = c
        BY <1>n, <2>2, <3>2 DEF c
      <4>0. b'[at] => dpc # "killed"
        BY <2>3, <2>6, <2>k
      <4>2. ASSUME dpc # "killed", answer[c] # "none"
            PROVE  b'[at] <=> Len(coupon[c]) > 0 /\ coupon[c][1] = Winning
        <5>1. b'[at] <=> answer[c] = "Winner"
          BY <2>3, <2>5, <4>2
        <5>2. dpc = "ended"
          BY <2>d, <4>2
        <5> QED
          BY <1>t, <2>4, <4>2, <5>1, <5>2 DEF Answered
      <4>3. ASSUME answer[c] = "none"
            PROVE  b'[at] => at > 1 /\ b'[at - 1]
        <5>1. b'[at] => packet = "Winner"
          BY <2>3, <2>6, <4>3
        <5>2. packet = "Winner" => Len(b) > 0 /\ b[Len(b)]
          BY <1>t DEF Collected
        <5>3. Len(b) > 0 => at > 1 /\ b'[at - 1] = b[Len(b)]
          BY <1>n, <2>2, <2>3
        <5> QED
          BY <5>1, <5>2, <5>3
      <4> QED
        BY <4>0, <4>1, <4>2, <4>3
    <3> QED
      BY <3>1, <3>2
  <2> QED
    BY <2>1, <2>3, <2>7 DEF JudgedFairly
<1>3. ASSUME NEW c \in Clients, ClientConnect(c)
      PROVE  JudgedFairly'
  <2>1. UNCHANGED b /\ dpc = "accept"
    BY <1>3 DEF ClientConnect
  <2> QED
    BY <1>0, <1>l, <2>1
<1>4. ASSUME NEW c \in Clients,
             ClientAsk(c) \/ ClientRaw(c) \/ ClientResult(c) \/ ClientKill(c)
      PROVE  JudgedFairly'
  <2>1. UNCHANGED <<b, line, answer, coupon, dpc>>
    BY <1>4 DEF ClientAsk, ClientRaw, ClientResult, ClientKill
  <2> QED
    BY <1>0, <2>1
<1>5. ASSUME NEW c \in Clients, ClientCoupon(c)
      PROVE  JudgedFairly'
  <2>1. UNCHANGED <<b, line, answer, dpc>> /\ cpc[c] = "coupons"
    BY <1>5 DEF ClientCoupon
  <2>2. answer[c] = "none"
    BY <1>t, <2>1 DEF Answered
  <2>3. \A x : x # c => coupon'[x] = coupon[x]
    BY <1>5, <1>t DEF LotteryTypes, ClientCoupon
  <2> QED
    BY <1>0, <2>1, <2>2, <2>3
<1>6. ASSUME NEW c \in Clients, ClientAnswer(c)
      PROVE  JudgedFairly'
  <2>1. /\ UNCHANGED <<b, line, coupon, dpc>> /\ cpc[c] = "hear" /\ ~killed[c] /\ hears[c] # <<>>
        /\ \A x : x # c => answer'[x] = answer[x]
    BY <1>6, <1>t DEF LotteryTypes, ClientAnswer
  <2>2. answer[c] = "none"
    BY <1>t, <2>1 DEF Answered
  <2>3. CASE dpc = "killed"
    <3>1. \A i \in DOMAIN b : ~b[i]
      BY <1>t, <2>3 DEF JudgedFairly
    <3>2. b' = b /\ dpc' = "killed"
      BY <2>1, <2>3
    <3> QED
      BY <3>1, <3>2 DEF JudgedFairly
  <2>4. CASE dpc # "killed"
    <3>1. \A k \in 1..Len(b) : line[k] # c
      BY <1>t, <2>1, <2>2, <2>4 DEF Collected
    <3> QED
      BY <1>0, <2>1, <3>1
  <2> QED
    BY <2>3, <2>4
<1>7. CASE UNCHANGED lotteryvars
  BY <1>0, <1>7 DEF lotteryvars
<1> QED
  BY <1>1, <1>2, <1>3, <1>4, <1>5, <1>6, <1>7 DEF LotteryNext, ClientStep, DistStep, JudgeStep

\* The invariant of the lottery holds for any clients and any number of coupons
\* above one: the coupons drawn are in one order (distributor.c:231-236), the
\* line is complete when the judge begins, the first packet heard by a client the
\* judge waits for is the winning coupon (judge.c:249-254), whether or not that
\* has reached anybody, and the judge's tally follows the line.
THEOREM LotteryInvariant == LotterySpec => []LotteryInv
<1>1. LotteryInv /\ [LotteryNext]_lotteryvars => LotteryInv'
  <2> SUFFICES ASSUME LotteryInv, [LotteryNext]_lotteryvars PROVE LotteryInv'
    OBVIOUS
  <2> QED
    BY StepLotteryTypes, StepCouponsAreNew, StepLined, StepHeard, StepAnswered, StepCollected,
       StepJudged
       DEF LotteryInv
<1> QED
  BY InitLottery, <1>1, PTL DEF LotterySpec

\* Whoever answered is judged by its own coupons, wherever it stands in the line
\* and whatever others did: the answer the judge reads (judge.c:255-261) was made
\* from coupons the client has held since before it heard the winning one.
THEOREM JudgementIsFair == LotterySpec => []JudgedFairly
<1>1. LotteryInv => JudgedFairly
  BY DEF LotteryInv
<1> QED
  BY LotteryInvariant, <1>1, PTL

=============================================================================
