------------------------------- MODULE Lottery -------------------------------
(***************************************************************************)
(* src/RawSocket/Housy: distributor.c, judge.c and three runs of client.c,   *)
(* all on one host.                                                          *)
(*                                                                          *)
(* The distributor accepts three clients, sells each the coupons it asks for *)
(* and passes the connections to the judge.  The judge takes the first       *)
(* connection's address and sends the winning coupon there, to every raw     *)
(* socket of protocol 147 that is open by then, reads each client's answer   *)
(* in accept order and sends out the result.  Neither program seeds rand(): both draw the same sequence of coupons, so a coupon *)
(* is the number of its draw, and the judge's only draw is number 1.         *)
(***************************************************************************)
EXTENDS Naturals, Sequences

CONSTANTS
    Clients,      \* three runs of client.c
    N             \* coupons a client asks for: 5

ASSUME NAssumption == N \in Nat \ {0, 1}

Winning == 1
Slots == 1..3                  \* nsfd[0] .. nsfd[2]

VARIABLES
    \* the clients
    cpc, killed,  \* next statement; ended by its user
    coupon,       \* what recv stored in coupon[0], coupon[1], ...
    raw, hears,   \* its raw socket is open; packets waiting there
    late,         \* history: opened after the winning coupon was sent
    \* the connections, one per client
    asked,        \* the request has been sent
    stream,       \* coupons on their way to the client
    dead,         \* something has been sent to a client that had ended
    answer,       \* the client's answer: none, Winner, Loser
    \* the distributor
    dpc, line,    \* next statement; clients in accept order
    turn, left,   \* client being served; coupons it is still to get
    drawn,        \* calls of rand, in fours
    \* the judge
    jpc, at,      \* next statement; index of the answer it reads
    packet, b,    \* its buffer, its tally
    addr          \* its array addr: none yet, host, nowhere

clientvars == <<cpc, killed, coupon, raw, hears, late>>
connvars == <<asked, stream, dead, answer>>
distvars == <<dpc, line, turn, left, drawn>>
judgevars == <<jpc, at, packet, b, addr>>
lotteryvars == <<clientvars, connvars, distvars, judgevars>>

LotteryInit ==
    /\ cpc = [c \in Clients |-> "idle"] /\ killed = [c \in Clients |-> FALSE]
    /\ coupon = [c \in Clients |-> <<>>] /\ raw = [c \in Clients |-> FALSE]
    /\ hears = [c \in Clients |-> <<>>] /\ late = [c \in Clients |-> FALSE]
    /\ asked = [c \in Clients |-> FALSE] /\ stream = [c \in Clients |-> <<>>]
    /\ dead = [c \in Clients |-> FALSE] /\ answer = [c \in Clients |-> "none"]
    /\ dpc = "down" /\ line = <<>> /\ turn = 1 /\ left = 0 /\ drawn = 0
    /\ jpc = "down" /\ at = 1 /\ packet = "none" /\ b = <<>>
    /\ addr = "none"

-----------------------------------------------------------------------------
(* A client *)

ClientAt(c, pc) == cpc[c] = pc /\ ~killed[c]
ClientGoto(c, pc) == cpc' = [cpc EXCEPT ![c] = pc]

\* A client that finds no distributor is ended by SIGPIPE, as if it had not come.
ClientConnect(c) ==
    /\ ClientAt(c, "idle") /\ dpc = "accept"
    /\ line' = Append(line, c)
    /\ ClientGoto(c, "ask")
    /\ UNCHANGED <<killed, coupon, raw, hears, late, connvars, dpc, turn, left,
                   drawn, judgevars>>

ClientAsk(c) ==
    /\ ClientAt(c, "ask")
    /\ asked' = [asked EXCEPT ![c] = TRUE]
    /\ ClientGoto(c, "coupons")
    /\ UNCHANGED <<killed, coupon, raw, hears, late, stream, dead, answer,
                   distvars, judgevars>>

\* At the end of the connection the coupon is what malloc left there: 0.
ClientCoupon(c) ==
    /\ ClientAt(c, "coupons") /\ (stream[c] # <<>> \/ dpc = "killed")
    /\ coupon' = [coupon EXCEPT ![c] =
                     Append(@, IF stream[c] = <<>> THEN 0 ELSE Head(stream[c]))]
    /\ stream' = [stream EXCEPT ![c] = IF @ = <<>> THEN @ ELSE Tail(@)]
    /\ ClientGoto(c, IF Len(coupon'[c]) = N THEN "raw" ELSE "coupons")
    /\ UNCHANGED <<killed, raw, hears, late, asked, dead, answer, distvars, judgevars>>

ClientRaw(c) ==
    /\ ClientAt(c, "raw")
    /\ raw' = [raw EXCEPT ![c] = TRUE]
    /\ late' = [late EXCEPT ![c] = jpc \in {"collect", "ended"}]
    /\ ClientGoto(c, "hear")
    /\ UNCHANGED <<killed, coupon, hears, connvars, distvars, judgevars>>

\* seeded bug: the search starts behind the first coupon
HoldsSkippingFirst(c, m) == \E k \in DOMAIN coupon[c] : k > 1 /\ m = <<coupon[c][k]>>

\* A packet, the winning coupon or the result, is compared with each coupon.
Holds(c, m) == \E k \in DOMAIN coupon[c] : m = <<coupon[c][k]>>

\* seeded bug: only a winner answers
ClientAnswerIfWinner(c) ==
    /\ ClientAt(c, "hear") /\ hears[c] # <<>>
    /\ answer' = IF Holds(c, Head(hears[c])) THEN [answer EXCEPT ![c] = "Winner"] ELSE answer
    /\ hears' = [hears EXCEPT ![c] = Tail(@)]
    /\ ClientGoto(c, "result")
    /\ UNCHANGED <<killed, coupon, raw, late, asked, stream, dead, distvars, judgevars>>

ClientAnswer(c) ==
    /\ ClientAt(c, "hear") /\ hears[c] # <<>>
    /\ answer' = [answer EXCEPT ![c] = IF Holds(c, Head(hears[c])) THEN "Winner" ELSE "Loser"]
    /\ hears' = [hears EXCEPT ![c] = Tail(@)]
    /\ ClientGoto(c, "result")
    /\ UNCHANGED <<killed, coupon, raw, late, asked, stream, dead, distvars, judgevars>>

ClientResult(c) ==
    /\ ClientAt(c, "result") /\ hears[c] # <<>>
    /\ hears' = [hears EXCEPT ![c] = Tail(@)]
    /\ ClientGoto(c, "ended")
    /\ UNCHANGED <<killed, coupon, raw, late, connvars, distvars, judgevars>>

ClientKill(c) ==
    /\ cpc[c] \notin {"idle", "ended"} /\ ~killed[c]
    /\ killed' = [killed EXCEPT ![c] = TRUE]
    /\ UNCHANGED <<cpc, coupon, raw, hears, late, connvars, distvars, judgevars>>

ClientStep(c) ==
    \/ ClientAsk(c) \/ ClientCoupon(c) \/ ClientRaw(c) \/ ClientAnswer(c) \/ ClientResult(c)

-----------------------------------------------------------------------------
(* The distributor *)

DistStart ==
    /\ dpc = "down" /\ dpc' = "accept"
    /\ UNCHANGED <<clientvars, connvars, line, turn, left, drawn, judgevars>>

DistAccept ==
    /\ dpc = "accept" /\ Len(line) = 3
    /\ dpc' = "read"
    /\ UNCHANGED <<clientvars, connvars, line, turn, left, drawn, judgevars>>

\* From a client that ended before it asked, read returns 0 and buf is what it
\* was: nothing in particular, or the last coupon, whose first number is taken.
Requests(c) == IF asked[c] THEN {N} ELSE 0..2

DistRead ==
    LET c == line[turn] IN
    /\ dpc = "read" /\ (asked[c] \/ killed[c])
    /\ \E n \in Requests(c) : left' = n
    /\ dpc' = "sell"
    /\ UNCHANGED <<clientvars, connvars, line, turn, drawn, judgevars>>

\* The first send to a client that has ended is answered with a reset, the
\* second ends the distributor with SIGPIPE.
DistSell ==
    LET c == line[turn] IN
    /\ dpc = "sell" /\ left > 0
    /\ drawn' = drawn + 1
    /\ IF killed[c] /\ dead[c]
       THEN /\ dpc' = "killed"
            /\ UNCHANGED <<stream, dead, left>>
       ELSE /\ stream' = [stream EXCEPT ![c] = IF killed[c] THEN @ ELSE Append(@, drawn')]
            /\ dead' = [dead EXCEPT ![c] = killed[c]]
            /\ left' = left - 1
            /\ UNCHANGED dpc
    /\ UNCHANGED <<clientvars, asked, answer, line, turn, judgevars>>

DistNext ==
    /\ dpc = "sell" /\ left = 0
    /\ turn' = turn + 1
    /\ dpc' = IF turn < 3 THEN "read" ELSE "handover"
    /\ UNCHANGED <<clientvars, connvars, line, left, drawn, judgevars>>

DistHandOver ==                 \* accept the judge, send_fd three times, end
    /\ dpc = "handover" /\ jpc = "recv_fd"
    /\ dpc' = "ended"
    /\ UNCHANGED <<clientvars, connvars, line, turn, left, drawn, judgevars>>

DistStep == DistAccept \/ DistRead \/ DistSell \/ DistNext \/ DistHandOver

-----------------------------------------------------------------------------
(* The judge.  Without a distributor that listens, connect fails and it ends  *)
(* as if it had not been started.                                             *)

JudgeStart ==
    /\ jpc = "down" /\ dpc \in {"accept", "read", "sell", "handover"}
    /\ jpc' = "recv_fd"
    /\ UNCHANGED <<clientvars, connvars, distvars, at, packet, b, addr>>

JudgeRecvFds ==
    /\ jpc = "recv_fd" /\ dpc \in {"ended", "killed"}
    /\ jpc' = "announce"
    /\ UNCHANGED <<clientvars, connvars, distvars, at, packet, b, addr>>

SendRaw(m) == hears' = [c \in Clients |-> IF raw[c] THEN Append(hears[c], m) ELSE hears[c]]

\* The client has ended with coupons unread, or something was sent to it after.
Reset(c) == dead[c] \/ (killed[c] /\ stream[c] # <<>>)

\* getpeername fails for a connection that was reset, and without descriptors.
\* Then addr is what was there by chance: with zeros in it the packet comes
\* back to the host, with anything else nobody gets it.
JudgeAnnounce ==
    /\ jpc = "announce"
    /\ \/ addr' = "host"
       \/ addr' = "nowhere" /\ (dpc = "killed" \/ Reset(line[1]))
    /\ IF addr' = "host" THEN SendRaw(<<Winning>>) ELSE UNCHANGED hears
    /\ packet' = "coupon"
    /\ jpc' = "collect"
    /\ UNCHANGED <<cpc, killed, coupon, raw, late, connvars, distvars, at, b>>

\* The end of a connection leaves the last answer in the buffer.
JudgeCollect ==
    LET c == line[at] IN
    /\ jpc = "collect" /\ at <= 3
    /\ IF dpc = "killed" \/ (killed[c] /\ answer[c] = "none")
       THEN UNCHANGED packet
       ELSE answer[c] # "none" /\ packet' = answer[c]
    /\ b' = Append(b, packet' = "Winner")
    /\ at' = at + 1
    /\ UNCHANGED <<clientvars, connvars, distvars, jpc, addr>>

JudgeResult ==
    /\ jpc = "collect" /\ at > 3
    /\ IF addr = "host" THEN SendRaw(b) ELSE UNCHANGED hears
    /\ jpc' = "ended"
    /\ UNCHANGED <<cpc, killed, coupon, raw, late, connvars, distvars, at, packet, b, addr>>

JudgeStep == JudgeRecvFds \/ JudgeAnnounce \/ JudgeCollect \/ JudgeResult

-----------------------------------------------------------------------------
LotteryNext ==
    \/ DistStart \/ DistStep \/ JudgeStart \/ JudgeStep
    \/ \E c \in Clients : ClientConnect(c) \/ ClientStep(c) \/ ClientKill(c)

LotterySpec == LotteryInit /\ [][LotteryNext]_lotteryvars

LotteryFairSpec ==
    /\ LotterySpec
    /\ WF_lotteryvars(DistStep) /\ WF_lotteryvars(JudgeStep)
    /\ \A c \in Clients : WF_lotteryvars(ClientStep(c))

-----------------------------------------------------------------------------
\* Whoever answered is judged by its own coupons, wherever it stands in the
\* line and whatever others did; and since both programs draw the same numbers,
\* it wins if and only if it was served first (or everyone before it had ended
\* before asking and drew nothing).  Only a client that ended without an answer
\* can be counted as a winner wrongly: it gets its predecessor's (judge.c:257).
\* A judge that got no connections reads no answer, and nobody wins.
JudgedFairly ==
    \A i \in DOMAIN b :
        /\ b[i] => dpc # "killed"
        /\ dpc # "killed" /\ answer[line[i]] # "none" =>
             (b[i] <=> Len(coupon[line[i]]) > 0 /\ coupon[line[i]][1] = Winning)
        /\ answer[line[i]] = "none" => (b[i] => i > 1 /\ b[i - 1])

\* The judge sends to an address it does not have, because the first client in
\* the line ended with its connection reset (judge.c:251).
NobodyHears == addr = "nowhere" /\ Reset(line[1])

\* The judge comes to its result, and every client that is not killed hears it,
\* unless a client opened its raw socket after the coupon had been sent
\* (client.c:191): that one waits for a packet the judge sends only after it
\* has its answer.  If the coupon went nowhere all who are left wait like this.
VerdictComes ==
    /\ jpc = "announce" ~>
          \/ jpc = "ended"
          \/ \E c \in Clients : ~killed[c] /\ (late[c] \/ NobodyHears)
    /\ \A c \in Clients :
        cpc[c] = "hear" /\ jpc = "collect" /\ dpc = "ended" ~>
            cpc[c] = "ended" \/ killed[c] \/ NobodyHears \/ \E o \in Clients : late[o]

=============================================================================
