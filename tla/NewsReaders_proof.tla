-------------------------- MODULE NewsReaders_proof --------------------------
(***************************************************************************)
(* Theorems about NewsReaders, for every capacity of the queue and every     *)
(* number of reports: what livetelecast means, where a report can be and in  *)
(* which order the screen shows them.                                        *)
(***************************************************************************)
EXTENDS NewsReaders, SequenceTheorems, FiniteSetTheorems, WellFoundedInduction,
        TLAPS

Labels == {"down", "boot", "spin", "recv", "show", "connect", "pgrep", "kill1",
           "setlive", "telecast", "showlive", "clear", "kill2"}

SignalTypes ==
    /\ pc \in [Readers -> Labels]
    /\ live \in [Readers -> {0, 1}]
    /\ pending \in [Readers -> BOOLEAN]
    /\ target \in [Readers -> {"none", "self", "partner"}]
    /\ mishap \in BOOLEAN

\* A pid that pgrep has found belongs to a process that is still there, as
\* long as only the two readers end each other.
PidsLive == \A n \in Readers : target[n] = "partner" => pc[Partner(n)] # "down"

\* A reader without its handler has seen no signal.
Untouched == \A n \in Readers : ~Running(n) => live[n] = 0 /\ ~pending[n]

\* While nothing went wrong, at most one reader broadcasts, to a partner that
\* is there, and no signal to itself is on its way.
OneBroadcast ==
    ~mishap =>
        \A n \in Readers : Broadcasting(n) =>
            /\ target[n] = "partner" /\ Running(Partner(n))
            /\ ~Broadcasting(Partner(n))
            /\ ~pending[n]

SignalInv ==
    SignalTypes /\ PidsLive /\ Untouched /\ OneBroadcast /\ PausedOnlyWhileLive

\* At the start nobody runs and nobody is paused.
LEMMA InitSignalInv == Init => SignalInv
<1> SUFFICES ASSUME Init PROVE SignalInv
  OBVIOUS
<1>1. /\ \A n \in Readers : pc[n] = "down" /\ live[n] = 0 /\ ~pending[n] /\ target[n] = "none"
      /\ \A n \in Readers : ~Running(n) /\ ~Broadcasting(n)
  BY DEF Init, Running, Broadcasting
<1>2. SignalTypes
  BY DEF Init, SignalTypes, Labels
<1>3. PidsLive /\ Untouched /\ OneBroadcast
  BY <1>1 DEF PidsLive, Untouched, OneBroadcast
<1>4. PausedOnlyWhileLive
  BY <1>1 DEF PausedOnlyWhileLive, Flag, OwnBroadcast
<1> QED
  BY <1>2, <1>3, <1>4 DEF SignalInv

-----------------------------------------------------------------------------
\* Whomever a signal reaches, types, pids and readers without a handler stay
\* as they should.
LEMMA SendSignalKeeps ==
  ASSUME SignalInv, NEW n \in Readers, NEW label \in Labels, Running(n),
         label \notin {"down", "boot"}, SendSignal(n, label), mishap' \in BOOLEAN
  PROVE  SignalTypes' /\ PidsLive' /\ Untouched'
<1> USE DEF SignalInv, SignalTypes, Labels, PidsLive, Untouched, Readers,
            Partner, Running, Goto
<1>1. CASE target[n] = "partner" /\ pc[Partner(n)] # "boot"
  <2>1. /\ pending' = [pending EXCEPT ![Partner(n)] = TRUE]
        /\ pc' = [pc EXCEPT ![n] = label]
        /\ UNCHANGED <<live, target>>
    BY <1>1 DEF SendSignal
  <2>2. SignalTypes'
    BY <2>1
  <2>3. PidsLive'
    BY <2>1
  <2>4. Untouched'
    BY <1>1, <2>1
  <2> QED
    BY <2>2, <2>3, <2>4
<1>2. CASE target[n] = "partner" /\ pc[Partner(n)] = "boot"
  BY <1>2 DEF SendSignal
<1>3. CASE target[n] = "self"
  BY <1>3 DEF SendSignal
<1>4. CASE target[n] = "none"
  BY <1>4 DEF SendSignal
<1> QED
  BY <1>1, <1>2, <1>3, <1>4

\* The first signal of an undisturbed broadcast pauses the partner.
LEMMA FirstSignal ==
  ASSUME SignalInv, NEW n \in Readers, pc[n] = "kill1", SendSignal(n, "setlive"),
         ~mishap, ~mishap', mishap' \in BOOLEAN,
         target[n] = "partner", pc[Partner(n)] # "boot",
         ~Broadcasting(Partner(n)), ~pending[1], ~pending[2]
  PROVE  SignalInv'
<1>1. SignalTypes' /\ PidsLive' /\ Untouched'
  BY SendSignalKeeps DEF Labels, Running
<1> USE DEF SignalInv, SignalTypes, Labels, PidsLive, Readers, Partner, Running,
            Broadcasting, Goto
<1>2. /\ pending' = [pending EXCEPT ![Partner(n)] = TRUE]
      /\ pc' = [pc EXCEPT ![n] = "setlive"]
      /\ UNCHANGED <<live, target>>
  BY DEF SendSignal
<1>3. OneBroadcast'
  BY <1>2 DEF OneBroadcast
<1>4. PausedOnlyWhileLive'
  BY <1>2 DEF PausedOnlyWhileLive, Flag, OwnBroadcast
<1> QED
  BY <1>1, <1>3, <1>4

\* The second one lets it go on.
LEMMA SecondSignal ==
  ASSUME SignalInv, NEW n \in Readers, pc[n] = "kill2", SendSignal(n, "spin"),
         ~mishap, ~mishap', mishap' \in BOOLEAN, ~pending[1], ~pending[2]
  PROVE  SignalInv'
<1>1. SignalTypes' /\ PidsLive' /\ Untouched'
  BY SendSignalKeeps DEF Labels, Running
<1> USE DEF SignalInv, SignalTypes, Labels, PidsLive, Readers, Partner, Running,
            Broadcasting, Goto
<1>2. target[n] = "partner" /\ Running(Partner(n)) /\ ~Broadcasting(Partner(n))
  BY DEF OneBroadcast
<1>3. /\ pending' = [pending EXCEPT ![Partner(n)] = TRUE]
      /\ pc' = [pc EXCEPT ![n] = "spin"]
      /\ UNCHANGED <<live, target>>
  BY <1>2 DEF SendSignal
<1>4. OneBroadcast'
  BY <1>2, <1>3 DEF OneBroadcast
<1>5. PausedOnlyWhileLive'
  BY <1>2, <1>3 DEF PausedOnlyWhileLive, Flag, OwnBroadcast
<1> QED
  BY <1>1, <1>4, <1>5

-----------------------------------------------------------------------------
\* Every step of the program keeps it.
LEMMA StepSignalInv ==
  ASSUME SignalInv, [Next]_vars
  PROVE  SignalInv'
<1> USE DEF SignalInv, SignalTypes, Labels, PidsLive, Untouched, OneBroadcast,
            PausedOnlyWhileLive, Readers, Partner, Running, Broadcasting, Flag,
            OwnBroadcast, Goto, readervars
<1>1. CASE Editor
  BY <1>1 DEF Editor
<1>2. CASE Screen
  BY <1>2 DEF Screen
<1>3. CASE StartTelecaster
  BY <1>3 DEF StartTelecaster
<1>4. ASSUME NEW n \in Readers, Start(n)
      PROVE  SignalInv'
  BY <1>4 DEF Start
<1>5. ASSUME NEW n \in Readers, ReaderStep(n)
      PROVE  SignalInv'
  <2>1. CASE Install(n)
    BY <1>5, <2>1 DEF Install
  <2>2. CASE Unpause(n)
    BY <1>5, <2>2 DEF Unpause
  <2>3. CASE Take(n)
    BY <1>5, <2>3 DEF Take
  <2>4. CASE Show(n)
    BY <1>5, <2>4 DEF Show
  <2>5. CASE Connect(n)
    BY <1>5, <2>5 DEF Connect
  <2>6. CASE Pgrep(n)
    BY <1>5, <2>6 DEF Pgrep
  <2>7. CASE Kill1(n)
    <3>1. CASE mishap'
      BY <1>5, <2>7, <3>1, SendSignalKeeps DEF Kill1
    <3>2. CASE ~mishap'
      <4>1. /\ ~mishap /\ target[n] = "partner" /\ pc[Partner(n)] # "boot"
            /\ ~Broadcasting(Partner(n)) /\ ~pending[1] /\ ~pending[2]
        BY <1>5, <2>7, <3>2 DEF Kill1
      <4> QED
        BY <1>5, <2>7, <4>1, FirstSignal DEF Kill1
    <3> QED
      BY <3>1, <3>2
  <2>8. CASE SetLive(n)
    BY <1>5, <2>8 DEF SetLive
  <2>9. CASE Telecast(n)
    BY <1>5, <2>9 DEF Telecast
  <2>10. CASE ShowLive(n)
    BY <1>5, <2>10 DEF ShowLive
  <2>11. CASE ClearLive(n)
    BY <1>5, <2>11 DEF ClearLive
  <2>12. CASE Kill2(n)
    <3>1. CASE mishap'
      BY <1>5, <2>12, <3>1, SendSignalKeeps DEF Kill2
    <3>2. CASE ~mishap'
      <4>1. ~mishap /\ ~pending[1] /\ ~pending[2]
        BY <1>5, <2>12, <3>2 DEF Kill2
      <4> QED
        BY <1>5, <2>12, <4>1, SecondSignal DEF Kill2
    <3> QED
      BY <3>1, <3>2
  <2> QED
    BY <1>5, <2>1, <2>2, <2>3, <2>4, <2>5, <2>6, <2>7, <2>8, <2>9, <2>10,
       <2>11, <2>12 DEF ReaderStep
<1>6. ASSUME NEW n \in Readers, Deliver(n)
      PROVE  SignalInv'
  BY <1>6 DEF Deliver
<1>7. ASSUME NEW n \in Readers, ServeTelecast(n)
      PROVE  SignalInv'
  BY <1>7 DEF ServeTelecast
<1>8. CASE UNCHANGED vars
  BY <1>8 DEF vars
<1> QED
  BY <1>1, <1>2, <1>3, <1>4, <1>5, <1>6, <1>7, <1>8 DEF Next

\* The two signals of a broadcast mean "pause" and "go on" in every reachable
\* state in which no mishap has happened (N1.c:14-18, 66-67, 80-84).
THEOREM FlagMeansLive == Spec => []PausedOnlyWhileLive
<1>1. Init => SignalInv
  BY InitSignalInv
<1>2. SignalInv /\ [Next]_vars => SignalInv'
  BY StepSignalInv
<1>3. SignalInv => PausedOnlyWhileLive
  BY DEF SignalInv
<1> QED
  BY <1>1, <1>2, <1>3, PTL DEF Spec

-----------------------------------------------------------------------------
(* The way of a report from the editor to the screen *)

Texts == {"plain", "live", "telecast", "junk", "none"}
Messages == [type : {1, 2, 3}, id : Nat, text : Texts]
Prints == [id : Nat, text : Texts]

PipeTypes ==
    /\ queue \in Seq(Messages) /\ shown \in Seq(Prints)
    /\ item \in [Readers -> [type : {0, 1, 2, 3}, id : Nat, text : Texts]]
    /\ sent \in Nat /\ which \in {1, 2} /\ lost \in SUBSET Nat

\* The editor alternates, so the number of a report says whose it is.
Parity(id) == id % 2

\* From msgrcv to msgsnd.
Holding(n) ==
    pc[n] \in {"show", "connect", "pgrep", "kill1", "setlive", "telecast", "showlive"}

InHand(n) == item[n].id # 0

Numbered ==
    /\ Parity(which) = Parity(sent + 1)
    /\ \A k \in 1 .. Len(queue) :
          /\ queue[k].id \in 1 .. sent
          /\ queue[k].type # 3 => Parity(queue[k].type) = Parity(queue[k].id)
    /\ \A n \in Readers :
          /\ item[n].id \in 0 .. sent
          /\ InHand(n) <=> Holding(n)
          /\ InHand(n) => Parity(item[n].id) = Parity(n)
    /\ \A k \in 1 .. Len(shown) : shown[k].id \in 1 .. sent
    /\ lost \subseteq 1 .. sent

\* The stages a report passes: sent to its reader, in its hands, sent to the
\* screen, shown.  What is at a later stage, or further on in the queue at the
\* same one, was sent earlier by the editor.
Before(a, b) == Parity(a) = Parity(b) => a < b

Ahead(j, k) ==
    \/ j < k /\ (queue[j].type = 3 <=> queue[k].type = 3)
    \/ queue[j].type = 3 /\ queue[k].type # 3

QueueInOrder ==
    \A j, k \in 1 .. Len(queue) : Ahead(j, k) => Before(queue[j].id, queue[k].id)

HandsInOrder ==
    \A n \in Readers, k \in 1 .. Len(queue) : InHand(n) =>
        /\ queue[k].type = 3 => Before(queue[k].id, item[n].id)
        /\ queue[k].type # 3 => Before(item[n].id, queue[k].id)

ShownBefore(id) == \A j \in 1 .. Len(shown) : Before(shown[j].id, id)

ShownFirst ==
    /\ \A k \in 1 .. Len(queue) : ShownBefore(queue[k].id)
    /\ \A n \in Readers : InHand(n) => ShownBefore(item[n].id)

ShownInOrder ==
    \A j, k \in 1 .. Len(shown) : j < k => Before(shown[j].id, shown[k].id)

\* Where a report is.
Queued(id) == \E k \in 1 .. Len(queue) : queue[k].id = id
Held(id) == \E n \in Readers : item[n].id = id
Shown(id) == \E k \in 1 .. Len(shown) : shown[k].id = id

Accounted ==
    /\ \A id \in 1 .. sent : Queued(id) \/ Held(id) \/ Shown(id) \/ id \in lost
    /\ \A id \in lost : ~Queued(id) /\ ~Held(id) /\ ~Shown(id)

InOrder == QueueInOrder /\ HandsInOrder /\ ShownFirst /\ ShownInOrder

PipeInv == SignalInv /\ PipeTypes /\ Numbered /\ InOrder /\ Accounted

-----------------------------------------------------------------------------
(* Sequences *)

\* msgrcv takes the message of its type that has been in the queue longest.
LEMMA FirstIndex ==
  ASSUME NEW q \in Seq(Messages), NEW t, HasType(q, t)
  PROVE  /\ IndexOfType(q, t) \in 1 .. Len(q)
         /\ q[IndexOfType(q, t)].type = t
         /\ \A k \in 1 .. Len(q) : q[k].type = t => IndexOfType(q, t) <= k
<1>1. DOMAIN q = 1 .. Len(q) /\ Len(q) \in Nat
  BY LenProperties
<1>2. OfType(q, t) \subseteq Nat /\ OfType(q, t) # {}
  BY <1>1 DEF OfType, HasType
<1> DEFINE LessThan == {ss \in Nat \X Nat : ss[1] < ss[2]}
<1>3. IsWellFoundedOn(LessThan, Nat)
  BY NatLessThanWellFounded, Zenon DEF OpToRel
<1>4. PICK i \in OfType(q, t) : \A j \in OfType(q, t) : ~(<<j, i>> \in LessThan)
  <2> HIDE DEF LessThan
  <2> QED
    BY <1>2, <1>3, WFMin
<1>5. ASSUME NEW j \in OfType(q, t)
      PROVE  i <= j
  <2>1. i \in Nat /\ j \in Nat
    BY <1>2
  <2>2. j < i => <<j, i>> \in LessThan
    BY <2>1, Zenon
  <2> HIDE DEF LessThan
  <2>3. ~(j < i)
    BY <1>4, <2>2
  <2> QED
    BY <2>1, <2>3
<1>6. /\ IndexOfType(q, t) \in OfType(q, t)
      /\ \A j \in OfType(q, t) : IndexOfType(q, t) <= j
  BY <1>5 DEF IndexOfType
<1> QED
  BY <1>1, <1>6 DEF OfType

\* Where what is now at k was before the element at i was taken out.
Old(i, k) == IF k < i THEN k ELSE k + 1

\* Taking one element out keeps the others, in their order.
LEMMA Removed ==
  ASSUME NEW S, NEW s \in Seq(S), NEW i \in 1 .. Len(s)
  PROVE  /\ RemoveAt(s, i) \in Seq(S)
         /\ \A k \in 1 .. Len(RemoveAt(s, i)) :
               /\ Old(i, k) \in 1 .. Len(s) /\ Old(i, k) # i
               /\ RemoveAt(s, i)[k] = s[Old(i, k)]
         /\ \A j, k \in 1 .. Len(RemoveAt(s, i)) : j < k => Old(i, j) < Old(i, k)
         /\ \A o \in 1 .. Len(s) : o # i =>
               \E k \in 1 .. Len(RemoveAt(s, i)) : RemoveAt(s, i)[k] = s[o]
<1> DEFINE a == SubSeq(s, 1, i - 1)
           b == SubSeq(s, i + 1, Len(s))
           r == RemoveAt(s, i)
<1>1. Len(s) \in Nat /\ i \in Nat /\ 1 <= i /\ i <= Len(s)
  BY LenProperties
<1>2. \A k \in 1 .. Len(s) : s[k] \in S
  BY ElementOfSeq
<1>3. /\ a \in Seq(S) /\ Len(a) = i - 1
      /\ \A k \in 1 .. i - 1 : a[k] = s[k]
  <2>1. \A k \in 1 .. i - 1 : s[k] \in S
    BY <1>1, <1>2
  <2>2. /\ a \in Seq(S) /\ Len(a) = IF 1 <= i - 1 THEN (i - 1) - 1 + 1 ELSE 0
        /\ \A k \in 1 .. (i - 1) - 1 + 1 : a[k] = s[1 + k - 1]
    BY <1>1, <2>1, SubSeqProperties
  <2> HIDE DEF a
  <2> QED
    BY <1>1, <2>2
<1>4. /\ b \in Seq(S) /\ Len(b) = Len(s) - i
      /\ \A k \in 1 .. Len(s) - i : b[k] = s[i + k]
  <2>1. \A k \in i + 1 .. Len(s) : s[k] \in S
    BY <1>1, <1>2
  <2>2. /\ b \in Seq(S)
        /\ Len(b) = IF i + 1 <= Len(s) THEN Len(s) - (i + 1) + 1 ELSE 0
        /\ \A k \in 1 .. Len(s) - (i + 1) + 1 : b[k] = s[(i + 1) + k - 1]
    BY <1>1, <2>1, SubSeqProperties
  <2> HIDE DEF b
  <2> QED
    BY <1>1, <2>2
<1>5. r = a \o b
  BY DEF RemoveAt
<1> HIDE DEF a, b, r
<1>6. /\ r \in Seq(S) /\ Len(r) = Len(a) + Len(b)
      /\ \A k \in 1 .. Len(a) + Len(b) :
            r[k] = IF k <= Len(a) THEN a[k] ELSE b[k - Len(a)]
  BY <1>3, <1>4, <1>5, ConcatProperties
<1>7. Len(r) = Len(s) - 1
  BY <1>1, <1>3, <1>4, <1>6
<1>8. ASSUME NEW k \in 1 .. Len(r)
      PROVE  Old(i, k) \in 1 .. Len(s) /\ Old(i, k) # i /\ r[k] = s[Old(i, k)]
  <2>1. k \in Nat /\ 1 <= k /\ k <= Len(s) - 1 /\ k \in 1 .. Len(a) + Len(b)
    BY <1>1, <1>6, <1>7, <1>8
  <2>2. CASE k < i
    BY <1>1, <1>3, <1>6, <2>1, <2>2 DEF Old
  <2>3. CASE ~(k < i)
    <3>1. k - Len(a) \in 1 .. Len(s) - i /\ i + (k - Len(a)) = k + 1 /\ ~(k <= Len(a))
      BY <1>1, <1>3, <2>1, <2>3
    <3>2. r[k] = s[k + 1]
      BY <1>4, <1>6, <2>1, <3>1
    <3> QED
      BY <1>1, <2>1, <2>3, <3>2 DEF Old
  <2> QED
    BY <2>2, <2>3
<1>9. ASSUME NEW j \in 1 .. Len(r), NEW k \in 1 .. Len(r), j < k
      PROVE  Old(i, j) < Old(i, k)
  BY <1>1, <1>7, <1>9 DEF Old
<1>10. ASSUME NEW o \in 1 .. Len(s), o # i
       PROVE  \E k \in 1 .. Len(r) : r[k] = s[o]
  <2>1. PICK k \in 1 .. Len(r) : Old(i, k) = o
    <3>1. CASE o < i
      BY <1>1, <1>7, <1>10, <3>1 DEF Old
    <3>2. CASE ~(o < i)
      <4>1. o - 1 \in 1 .. Len(r) /\ Old(i, o - 1) = o
        BY <1>1, <1>7, <1>10, <3>2 DEF Old
      <4> QED
        BY <4>1
    <3> QED
      BY <3>1, <3>2
  <2> QED
    BY <1>8, <2>1
<1> QED
  BY <1>6, <1>8, <1>9, <1>10 DEF r

\* Adding one at the end.
LEMMA Added ==
  ASSUME NEW S, NEW s \in Seq(S), NEW e \in S
  PROVE  /\ Append(s, e) \in Seq(S) /\ Len(s) \in Nat
         /\ \A k \in 1 .. Len(Append(s, e)) :
               \/ k \in 1 .. Len(s) /\ Append(s, e)[k] = s[k]
               \/ k = Len(s) + 1 /\ Append(s, e)[k] = e
         /\ \A k \in 1 .. Len(s) :
               k \in 1 .. Len(Append(s, e)) /\ Append(s, e)[k] = s[k]
         /\ Len(s) + 1 \in 1 .. Len(Append(s, e)) /\ Append(s, e)[Len(s) + 1] = e
<1>1. /\ Append(s, e) \in Seq(S) /\ Len(s) \in Nat
      /\ Len(Append(s, e)) = Len(s) + 1
      /\ \A k \in 1 .. Len(s) : Append(s, e)[k] = s[k]
      /\ Append(s, e)[Len(s) + 1] = e
  BY AppendProperties
<1>2. ASSUME NEW k \in 1 .. Len(Append(s, e))
      PROVE  k \in 1 .. Len(s) \/ k = Len(s) + 1
  BY <1>1
<1>3. /\ Len(s) + 1 \in 1 .. Len(Append(s, e))
      /\ \A k \in 1 .. Len(s) : k \in 1 .. Len(Append(s, e))
  BY <1>1
<1> QED
  BY <1>1, <1>2, <1>3

-----------------------------------------------------------------------------
(* What a step does to the reports on their way *)

HandsKept(m) == item'[m].id = item[m].id /\ (Holding(m)' <=> Holding(m))

Quiet ==
    /\ UNCHANGED <<queue, which, sent, shown, lost>>
    /\ \A m \in Readers : HandsKept(m)

\* A reader's hands change, the other reader's do not.
OneHand(n) ==
    /\ UNCHANGED <<which, sent>>
    /\ \A m \in Readers \ {n} : HandsKept(m)

Sends ==
    /\ UNCHANGED <<shown, lost>> /\ \A m \in Readers : HandsKept(m)
    /\ sent' = sent + 1
    /\ which' = IF which = 1 THEN 2 ELSE 1
    /\ \E m \in Messages : m.type = which /\ m.id = sent + 1 /\ queue' = Append(queue, m)

Takes(n) ==
    /\ OneHand(n) /\ UNCHANGED <<shown, lost>>
    /\ HasType(queue, n) /\ ~Holding(n) /\ Holding(n)'
    /\ item'[n].id = FirstOfType(queue, n).id /\ queue' = WithoutFirst(queue, n)

Forwards(n) ==
    /\ OneHand(n) /\ UNCHANGED <<shown, lost>>
    /\ Holding(n) /\ ~Holding(n)' /\ item'[n].id = 0
    /\ \E m \in Messages : m.type = 3 /\ m.id = item[n].id /\ queue' = Append(queue, m)

Loses(n) ==
    /\ OneHand(n) /\ UNCHANGED <<queue, shown>>
    /\ Holding(n) /\ ~Holding(n)' /\ item'[n].id = 0
    /\ lost' = lost \cup {item[n].id}

ToScreen ==
    /\ UNCHANGED <<which, sent, lost>> /\ \A m \in Readers : HandsKept(m)
    /\ HasType(queue, 3) /\ queue' = WithoutFirst(queue, 3)
    /\ \E m \in Prints : m.id = FirstOfType(queue, 3).id /\ shown' = Append(shown, m)

\* The same of the queue before and after a step.
LEMMA QueueRemoved ==
  ASSUME queue \in Seq(Messages), NEW i \in 1 .. Len(queue), queue' = RemoveAt(queue, i)
  PROVE  /\ \A k \in 1 .. Len(queue') :
               Old(i, k) \in 1 .. Len(queue) /\ Old(i, k) # i /\ queue'[k] = queue[Old(i, k)]
         /\ \A j, k \in 1 .. Len(queue') : j < k => Old(i, j) < Old(i, k)
         /\ \A o \in 1 .. Len(queue) : o # i => \E k \in 1 .. Len(queue') : queue'[k] = queue[o]
<1> DEFINE r == RemoveAt(queue, i)
<1>1. /\ \A k \in 1 .. Len(r) : Old(i, k) \in 1 .. Len(queue) /\ Old(i, k) # i /\ r[k] = queue[Old(i, k)]
      /\ \A j, k \in 1 .. Len(r) : j < k => Old(i, j) < Old(i, k)
      /\ \A o \in 1 .. Len(queue) : o # i => \E k \in 1 .. Len(r) : r[k] = queue[o]
  <2>1. \A k \in 1 .. Len(r) : Old(i, k) \in 1 .. Len(queue) /\ Old(i, k) # i /\ r[k] = queue[Old(i, k)]
    BY Removed
  <2>2. \A j, k \in 1 .. Len(r) : j < k => Old(i, j) < Old(i, k)
    BY Removed
  <2>3. \A o \in 1 .. Len(queue) : o # i => \E k \in 1 .. Len(r) : r[k] = queue[o]
    BY Removed
  <2> QED
    BY <2>1, <2>2, <2>3
<1>2. queue' = r
  OBVIOUS
<1> HIDE DEF r
<1> QED
  BY <1>1, <1>2

LEMMA QueueAdded ==
  ASSUME queue \in Seq(Messages), NEW m \in Messages, queue' = Append(queue, m)
  PROVE  /\ Len(queue) \in Nat
         /\ \A k \in 1 .. Len(queue') :
               \/ k \in 1 .. Len(queue) /\ queue'[k] = queue[k]
               \/ k = Len(queue) + 1 /\ queue'[k] = m
         /\ \A k \in 1 .. Len(queue) : k \in 1 .. Len(queue') /\ queue'[k] = queue[k]
         /\ Len(queue) + 1 \in 1 .. Len(queue') /\ queue'[Len(queue) + 1] = m
<1> DEFINE r == Append(queue, m)
<1>1. /\ Len(queue) \in Nat
      /\ \A k \in 1 .. Len(r) :
            \/ k \in 1 .. Len(queue) /\ r[k] = queue[k]
            \/ k = Len(queue) + 1 /\ r[k] = m
      /\ \A k \in 1 .. Len(queue) : k \in 1 .. Len(r) /\ r[k] = queue[k]
      /\ Len(queue) + 1 \in 1 .. Len(r) /\ r[Len(queue) + 1] = m
  BY Added
<1>2. queue' = r
  OBVIOUS
<1> HIDE DEF r
<1> QED
  BY <1>1, <1>2

\* The signals a reader sends move nobody between msgrcv and msgsnd.
LEMMA SignalKeepsHolding ==
  ASSUME SignalTypes, NEW n \in Readers, NEW label, SendSignal(n, label),
         \/ label = "setlive" /\ pc[n] = "kill1"
         \/ label = "spin" /\ pc[n] = "kill2"
  PROVE  \A m \in Readers : Holding(m)' <=> Holding(m)
<1> USE DEF SignalTypes, Holding, Readers, Partner
<1>1. CASE target[n] = "partner" /\ pc[Partner(n)] = "boot"
  BY <1>1 DEF SendSignal
<1>2. CASE ~(target[n] = "partner" /\ pc[Partner(n)] = "boot")
  BY <1>2 DEF SendSignal, Goto
<1> QED
  BY <1>1, <1>2

LEMMA PipeSteps ==
  ASSUME SignalInv, PipeTypes, Numbered, [Next]_vars
  PROVE  /\ \/ Quiet \/ Sends \/ ToScreen
            \/ \E n \in Readers : Takes(n) \/ Forwards(n) \/ Loses(n)
         /\ PipeTypes'
<1>t. /\ pc \in [Readers -> Labels] /\ SignalTypes
      /\ item \in [Readers -> [type : {0, 1, 2, 3}, id : Nat, text : Texts]]
      /\ queue \in Seq(Messages) /\ shown \in Seq(Prints)
      /\ sent \in Nat /\ which \in {1, 2} /\ lost \in SUBSET Nat
  BY DEF SignalInv, SignalTypes, PipeTypes
<1>n. NoItem \in [type : {0, 1, 2, 3}, id : Nat, text : Texts] /\ NoItem.id = 0
  BY DEF NoItem, Texts
<1>q. UNCHANGED <<queue, which, sent, shown, lost, item>> => PipeTypes'
  BY DEF PipeTypes
<1>k. ASSUME UNCHANGED <<queue, which, sent, shown, lost, item>>,
             \A m \in Readers : Holding(m)' <=> Holding(m)
      PROVE  Quiet /\ PipeTypes'
  BY <1>q, <1>k DEF Quiet, HandsKept
<1>f. ASSUME NEW t, HasType(queue, t)
      PROVE  /\ FirstOfType(queue, t) \in Messages
             /\ WithoutFirst(queue, t) \in Seq(Messages)
  <2>1. IndexOfType(queue, t) \in 1 .. Len(queue)
    BY <1>t, <1>f, FirstIndex
  <2> QED
    BY <1>t, <2>1, ElementOfSeq, Removed DEF FirstOfType, WithoutFirst
<1>1. CASE Editor
  <2>1. PICK text \in {"plain", "live"} :
           queue' = Append(queue, [type |-> which, id |-> sent + 1, text |-> text])
    BY <1>1 DEF Editor
  <2>2. [type |-> which, id |-> sent + 1, text |-> text] \in Messages
    BY <1>t DEF Messages, Texts
  <2>3. Sends
    BY <1>1, <2>1, <2>2 DEF Editor, Sends, HandsKept, Holding, readervars
  <2>4. queue' \in Seq(Messages)
    BY <1>t, <2>1, <2>2, Added
  <2> QED
    BY <1>1, <1>t, <2>3, <2>4 DEF Editor, PipeTypes, readervars
<1>2. CASE Screen
  <2> DEFINE m == FirstOfType(queue, 3)
             e == [id |-> m.id, text |-> m.text]
  <2>1. m \in Messages /\ WithoutFirst(queue, 3) \in Seq(Messages)
    BY <1>2, <1>f DEF Screen
  <2>2. e \in Prints /\ e.id = m.id /\ shown' = Append(shown, e)
    BY <1>2, <2>1 DEF Screen, Messages, Prints
  <2>3. shown' \in Seq(Prints)
    BY <1>t, <2>2, Added
  <2>4. UNCHANGED <<which, sent, lost, item, pc>> /\ queue' = WithoutFirst(queue, 3)
        /\ HasType(queue, 3)
    BY <1>2 DEF Screen, readervars
  <2>5. ToScreen
    BY <2>2, <2>4 DEF ToScreen, HandsKept, Holding
  <2> QED
    BY <1>t, <2>1, <2>3, <2>4, <2>5 DEF PipeTypes
<1>3. CASE StartTelecaster \/ UNCHANGED vars
  BY <1>3, <1>k DEF StartTelecaster, readervars, vars, Holding
<1>4. ASSUME NEW n \in Readers, Start(n)
      PROVE  Quiet /\ PipeTypes'
  <2>1. /\ UNCHANGED <<queue, which, sent, shown, lost>>
        /\ item' = [item EXCEPT ![n] = NoItem]
        /\ pc[n] = "down" /\ pc' = [pc EXCEPT ![n] = "boot"]
    BY <1>4 DEF Start, Goto
  <2>2. item[n].id = 0
    BY <1>t, <2>1 DEF Numbered, InHand, Holding
  <2>3. \A m \in Readers : HandsKept(m)
    BY <1>t, <1>n, <2>1, <2>2 DEF HandsKept, Holding
  <2>4. item' \in [Readers -> [type : {0, 1, 2, 3}, id : Nat, text : Texts]]
    BY <1>t, <1>n, <2>1
  <2> QED
    BY <1>t, <2>1, <2>3, <2>4 DEF Quiet, PipeTypes
<1>5. ASSUME NEW n \in Readers, Take(n)
      PROVE  Takes(n) /\ PipeTypes'
  <2>1. FirstOfType(queue, n) \in Messages /\ WithoutFirst(queue, n) \in Seq(Messages)
    BY <1>5, <1>f DEF Take
  <2>2. /\ HasType(queue, n) /\ pc[n] = "recv"
        /\ item' = [item EXCEPT ![n] = FirstOfType(queue, n)]
        /\ queue' = WithoutFirst(queue, n)
        /\ UNCHANGED <<which, sent, shown, lost>>
        /\ \A m \in Readers \ {n} : pc'[m] = pc[m]
        /\ pc'[n] \in {"connect", "show"}
    BY <1>5, <1>t DEF Take, Goto
  <2>3. item' \in [Readers -> [type : {0, 1, 2, 3}, id : Nat, text : Texts]]
    BY <1>t, <2>1, <2>2 DEF Messages
  <2>4. OneHand(n) /\ ~Holding(n) /\ Holding(n)' /\ item'[n] = FirstOfType(queue, n)
    BY <1>t, <2>2 DEF OneHand, HandsKept, Holding
  <2> QED
    BY <1>t, <2>1, <2>2, <2>3, <2>4 DEF Takes, PipeTypes
<1>6. ASSUME NEW n \in Readers, Show(n) \/ ShowLive(n)
      PROVE  Forwards(n) /\ PipeTypes'
  <2>1. PICK text \in Texts : SendToScreen(n, text)
    BY <1>6 DEF Show, ShowLive, Texts
  <2> DEFINE e == [type |-> 3, id |-> item[n].id, text |-> text]
  <2>2. e \in Messages /\ e.type = 3 /\ e.id = item[n].id
    BY <1>t DEF Messages
  <2>3. queue' = Append(queue, e) /\ item' = [item EXCEPT ![n] = NoItem]
    BY <2>1 DEF SendToScreen
  <2>4. queue' \in Seq(Messages)
    BY <1>t, <2>2, <2>3, Added
  <2>5. /\ UNCHANGED <<which, sent, shown, lost>>
        /\ pc[n] \in {"show", "showlive"}
        /\ \A m \in Readers \ {n} : pc'[m] = pc[m]
        /\ pc'[n] \in {"spin", "clear"}
    BY <1>6, <1>t DEF Show, ShowLive, Goto
  <2>6. item' \in [Readers -> [type : {0, 1, 2, 3}, id : Nat, text : Texts]]
    BY <1>t, <1>n, <2>3
  <2>7. OneHand(n) /\ Holding(n) /\ ~Holding(n)' /\ item'[n].id = 0
    BY <1>t, <1>n, <2>3, <2>5 DEF OneHand, HandsKept, Holding
  <2>8. Forwards(n)
    BY <2>2, <2>3, <2>5, <2>7 DEF Forwards
  <2> QED
    BY <1>t, <2>4, <2>5, <2>6, <2>8 DEF PipeTypes
<1>7. ASSUME NEW n \in Readers, Kill1(n) \/ Kill2(n)
      PROVE  Quiet /\ PipeTypes'
  <2>1. UNCHANGED <<queue, which, sent, shown, lost, item>>
    BY <1>7 DEF Kill1, Kill2
  <2>2. CASE Kill1(n)
    <3>1. pc[n] = "kill1" /\ SendSignal(n, "setlive")
      BY <2>2 DEF Kill1
    <3>2. \A m \in Readers : Holding(m)' <=> Holding(m)
      BY <1>t, <3>1, SignalKeepsHolding
    <3> QED
      BY <1>k, <2>1, <3>2
  <2>3. CASE Kill2(n)
    <3>1. pc[n] = "kill2" /\ SendSignal(n, "spin")
      BY <2>3 DEF Kill2
    <3>2. \A m \in Readers : Holding(m)' <=> Holding(m)
      BY <1>t, <3>1, SignalKeepsHolding
    <3> QED
      BY <1>k, <2>1, <3>2
  <2> QED
    BY <1>7, <2>2, <2>3
<1>8. ASSUME NEW n \in Readers,
             \/ Install(n) \/ Unpause(n) \/ Connect(n) \/ Pgrep(n)
             \/ SetLive(n) \/ Telecast(n) \/ ClearLive(n) \/ ServeTelecast(n)
      PROVE  Quiet /\ PipeTypes'
  <2>1. UNCHANGED <<queue, which, sent, shown, lost, item>>
    BY <1>8 DEF Install, Unpause, Connect, Pgrep, SetLive, Telecast, ClearLive, ServeTelecast
  <2>2. \A m \in Readers : Holding(m)' <=> Holding(m)
    BY <1>8, <1>t DEF Install, Unpause, Connect, Pgrep, SetLive, Telecast, ClearLive,
                      ServeTelecast, Goto, Holding
  <2> QED
    BY <1>k, <2>1, <2>2
<1>9. ASSUME NEW n \in Readers, Deliver(n)
      PROVE  (Quiet \/ Loses(n)) /\ PipeTypes'
  <2>1. CASE UNCHANGED <<pc, item, lost>>
    BY <1>9, <1>k, <2>1 DEF Deliver, Holding
  <2>2. CASE Goto(n, "spin") /\ pc[n] = "recv" /\ UNCHANGED <<item, lost>>
    <3>1. \A m \in Readers : Holding(m)' <=> Holding(m)
      BY <1>t, <2>2 DEF Goto, Holding
    <3> QED
      BY <1>9, <1>k, <2>2, <3>1 DEF Deliver
  <2>3. CASE /\ pc[n] \in {"show", "showlive"}
             /\ lost' = lost \cup {item[n].id}
             /\ item' = [item EXCEPT ![n] = NoItem]
             /\ Goto(n, IF pc[n] = "show" THEN "spin" ELSE "clear")
    <3>1. UNCHANGED <<queue, which, sent, shown>>
      BY <1>9 DEF Deliver
    <3>2. OneHand(n) /\ Holding(n) /\ ~Holding(n)' /\ item'[n].id = 0
      BY <1>t, <1>n, <2>3, <3>1 DEF OneHand, HandsKept, Holding, Goto
    <3>3. item' \in [Readers -> [type : {0, 1, 2, 3}, id : Nat, text : Texts]]
      BY <1>t, <1>n, <2>3
    <3>4. item[n].id \in Nat
      BY <1>t
    <3> QED
      BY <1>t, <2>3, <3>1, <3>2, <3>3, <3>4 DEF Loses, PipeTypes
  <2> QED
    BY <1>9, <2>1, <2>2, <2>3 DEF Deliver
<1> QED
  BY <1>1, <1>2, <1>3, <1>4, <1>5, <1>6, <1>7, <1>8, <1>9 DEF Next, ReaderStep

-----------------------------------------------------------------------------
(* Every kind of step keeps numbers, order and account. *)

\* Reports alternate between the readers, who tell theirs by the parity.
LEMMA Parities ==
  /\ Parity(1) = 1 /\ Parity(2) = 0
  /\ \A n \in Nat : Parity(n) \in {0, 1} /\ Parity(n + 1) = 1 - Parity(n)
  BY DEF Parity

LEMMA OwnParity ==
  ASSUME NEW m \in Readers, NEW n \in Readers, Parity(m) = Parity(n)
  PROVE  m = n
<1>1. m \in {1, 2} /\ n \in {1, 2}
  BY DEF Readers
<1> QED
  BY <1>1, Parities

LEMMA QuietKeeps ==
  ASSUME PipeInv, Quiet
  PROVE  Numbered' /\ InOrder' /\ Accounted'
<1> USE DEF PipeInv, Quiet, HandsKept
<1>1. Numbered'
  BY DEF Numbered, InHand
<1>2. InOrder'
  BY DEF InOrder, QueueInOrder, Ahead, HandsInOrder, ShownFirst, ShownInOrder,
         ShownBefore, Before, InHand
<1>3. Accounted'
  BY DEF Accounted, Queued, Held, Shown
<1> QED
  BY <1>1, <1>2, <1>3

\* The editor's report is the newest.
LEMMA SendsKeeps ==
  ASSUME PipeInv, Sends
  PROVE  Numbered' /\ InOrder' /\ Accounted'
<1> USE DEF PipeInv
<1>1. PICK m \in Messages :
         m.type = which /\ m.id = sent + 1 /\ queue' = Append(queue, m)
  BY DEF Sends
<1>2. /\ sent' = sent + 1 /\ UNCHANGED <<shown, lost>>
      /\ \A n \in Readers : item'[n].id = item[n].id /\ (Holding(n)' <=> Holding(n))
      /\ which' = IF which = 1 THEN 2 ELSE 1
  BY DEF Sends, HandsKept
<1>3. /\ Len(queue) \in Nat
      /\ \A k \in 1 .. Len(queue') :
            \/ k \in 1 .. Len(queue) /\ queue'[k] = queue[k]
            \/ k = Len(queue) + 1 /\ queue'[k] = m
      /\ \A k \in 1 .. Len(queue) : k \in 1 .. Len(queue') /\ queue'[k] = queue[k]
      /\ Len(queue) + 1 \in 1 .. Len(queue') /\ queue'[Len(queue) + 1] = m
  <2>1. queue \in Seq(Messages) /\ queue' = Append(queue, m)
    BY <1>1 DEF PipeTypes
  <2> HIDE DEF PipeInv
  <2> QED
    BY <2>1, QueueAdded
<1>4. sent \in Nat /\ which \in {1, 2}
  BY DEF PipeTypes
<1>5. /\ Parity(which) = Parity(sent + 1) /\ lost \subseteq 1 .. sent
      /\ \A k \in 1 .. Len(queue) : queue[k].id \in 1 .. sent
      /\ \A n \in Readers : item[n].id \in 0 .. sent
      /\ \A k \in 1 .. Len(shown) : shown[k].id \in 1 .. sent
  BY DEF Numbered
<1>6. Parity(which') = Parity(sent' + 1)
  <2>1. Parity(sent + 1) \in {0, 1} /\ Parity(sent' + 1) = 1 - Parity(sent + 1)
    BY <1>2, <1>4, Parities
  <2>2. Parity(which') = 1 - Parity(which)
    BY <1>2, <1>4, Parities
  <2> QED
    BY <1>5, <2>1, <2>2
<1>7. Numbered'
  <2>1. ASSUME NEW k \in 1 .. Len(queue')
        PROVE  /\ queue'[k].id \in 1 .. sent'
               /\ queue'[k].type # 3 => Parity(queue'[k].type) = Parity(queue'[k].id)
    <3>1. CASE k \in 1 .. Len(queue) /\ queue'[k] = queue[k]
      <4>1. /\ queue[k].id \in 1 .. sent
            /\ queue[k].type # 3 => Parity(queue[k].type) = Parity(queue[k].id)
        BY <3>1 DEF Numbered
      <4> QED
        BY <1>2, <1>4, <3>1, <4>1
    <3>2. CASE queue'[k] = m
      BY <1>1, <1>2, <1>4, <1>5, <3>2
    <3> QED
      BY <1>3, <3>1, <3>2
  <2>2. ASSUME NEW n \in Readers
        PROVE  (/\ item[n].id \in 0 .. sent
                /\ InHand(n) <=> Holding(n)
                /\ InHand(n) => Parity(item[n].id) = Parity(n))'
    BY <1>2, <1>4, <1>5 DEF Numbered, InHand
  <2>3. (\A k \in 1 .. Len(shown) : shown[k].id \in 1 .. sent)'
    BY <1>2, <1>4, <1>5
  <2>4. lost' \subseteq 1 .. sent'
    BY <1>2, <1>4, <1>5
  <2> QED
    BY <1>6, <2>1, <2>2, <2>3, <2>4 DEF Numbered
<1>8. QueueInOrder'
  <2> SUFFICES ASSUME NEW j \in 1 .. Len(queue'), NEW k \in 1 .. Len(queue'),
                      Ahead(j, k)'
               PROVE  Before(queue'[j].id, queue'[k].id)
    BY DEF QueueInOrder, Before
  <2>1. CASE j \in 1 .. Len(queue) /\ k \in 1 .. Len(queue)
    BY <1>3, <2>1 DEF InOrder, QueueInOrder, Ahead
  <2>2. CASE j \in 1 .. Len(queue) /\ k = Len(queue) + 1
    <3>1. queue'[j].id \in 1 .. sent /\ queue'[k].id = sent + 1
      BY <1>1, <1>3, <1>5, <2>2
    <3> QED
      BY <1>4, <3>1 DEF Before
  <2>3. CASE j = Len(queue) + 1
    <3>1. queue'[j].type # 3
      BY <1>1, <1>3, <1>4, <2>3
    <3>2. ~(j < k)
      BY <1>3, <2>3
    <3> QED
      BY <3>1, <3>2 DEF Ahead
  <2> QED
    BY <1>3, <2>1, <2>2, <2>3
<1>9. HandsInOrder'
  BY <1>1, <1>2, <1>3, <1>4, <1>5 DEF InOrder, HandsInOrder, InHand, Before
<1>10. ShownFirst' /\ ShownInOrder'
  <2>1. ASSUME NEW k \in 1 .. Len(queue'), NEW j \in 1 .. Len(shown)
        PROVE  Before(shown[j].id, queue'[k].id)
    <3>1. CASE k \in 1 .. Len(queue) /\ queue'[k] = queue[k]
      BY <3>1 DEF InOrder, ShownFirst, ShownBefore
    <3>2. CASE queue'[k] = m
      <4>1. shown[j].id \in 1 .. sent /\ queue'[k].id = sent + 1
        BY <1>1, <1>5, <3>2
      <4> QED
        BY <1>4, <4>1 DEF Before
    <3> QED
      BY <1>3, <3>1, <3>2
  <2>2. ShownFirst'
    BY <1>2, <2>1 DEF InOrder, ShownFirst, ShownBefore, InHand, Before
  <2>3. ShownInOrder'
    BY <1>2 DEF InOrder, ShownInOrder, Before
  <2> QED
    BY <2>2, <2>3
<1>11. Accounted'
  <2>1. ASSUME NEW id \in 1 .. sent'
        PROVE  (Queued(id) \/ Held(id) \/ Shown(id) \/ id \in lost)'
    <3>1. id \in 1 .. sent \/ id = sent + 1
      BY <1>2, <1>4
    <3>2. CASE id \in 1 .. sent
      BY <1>2, <1>3, <3>2 DEF Accounted, Queued, Held, Shown
    <3>3. CASE id = sent + 1
      BY <1>1, <1>3, <3>3 DEF Queued
    <3> QED
      BY <3>1, <3>2, <3>3
  <2>2. ASSUME NEW id \in lost
        PROVE  (~Queued(id) /\ ~Held(id) /\ ~Shown(id))'
    <3>1. id # sent + 1
      BY <1>4, <1>5
    <3>2. ~Queued(id) /\ ~Held(id) /\ ~Shown(id)
      BY DEF Accounted
    <3>3. ~Queued(id)'
      BY <1>1, <1>3, <3>1, <3>2 DEF Queued
    <3> QED
      BY <1>2, <3>2, <3>3 DEF Held, Shown
  <2> QED
    BY <1>2, <2>1, <2>2 DEF Accounted
<1> QED
  BY <1>7, <1>8, <1>9, <1>10, <1>11 DEF InOrder

\* An interrupt takes a report out of a reader's hands.
LEMMA LosesKeeps ==
  ASSUME PipeInv, NEW n \in Readers, Loses(n)
  PROVE  Numbered' /\ InOrder' /\ Accounted'
<1> USE DEF PipeInv
<1>1. /\ UNCHANGED <<queue, shown, which, sent>> /\ item'[n].id = 0
      /\ lost' = lost \cup {item[n].id} /\ Holding(n) /\ ~Holding(n)'
      /\ \A m \in Readers \ {n} : item'[m].id = item[m].id /\ (Holding(m)' <=> Holding(m))
  BY DEF Loses, OneHand, HandsKept
<1>2. InHand(n) /\ item[n].id \in 1 .. sent
  BY <1>1 DEF Numbered, InHand, PipeTypes
<1>s. sent \in Nat
  BY DEF PipeTypes
<1>3. Numbered'
  <2>1. \A m \in Readers :
          (/\ item[m].id \in 0 .. sent
           /\ InHand(m) <=> Holding(m)
           /\ InHand(m) => Parity(item[m].id) = Parity(m))'
    BY <1>1, <1>s DEF Numbered, InHand
  <2>2. lost' \subseteq 1 .. sent'
    BY <1>1, <1>2 DEF Numbered
  <2> QED
    BY <1>1, <2>1, <2>2 DEF Numbered
<1>4. InOrder'
  BY <1>1 DEF InOrder, QueueInOrder, Ahead, HandsInOrder, ShownFirst,
              ShownInOrder, ShownBefore, Before, InHand
<1>5. Accounted'
  <2>x. PICK x \in 1 .. sent : x = item[n].id
    BY <1>2
  <2>1. ASSUME NEW m \in Readers \ {n}
        PROVE  item[m].id # item[n].id
    <3>1. Parity(m) # Parity(n)
      BY Parities DEF Readers
    <3>2. InHand(m) => Parity(item[m].id) = Parity(m)
      BY DEF Numbered
    <3>3. Parity(item[n].id) = Parity(n)
      BY <1>2 DEF Numbered
    <3> QED
      BY <1>2, <3>1, <3>2, <3>3 DEF InHand
  <2>2. ~Queued(item[n].id) /\ ~Shown(item[n].id)
    <3>1. \A k \in 1 .. Len(queue) : queue[k].id # item[n].id
      BY <1>2, <1>s DEF InOrder, HandsInOrder, Before
    <3>2. \A k \in 1 .. Len(shown) : shown[k].id # item[n].id
      BY <1>2, <1>s DEF InOrder, ShownFirst, ShownBefore, Before
    <3> QED
      BY <3>1, <3>2 DEF Queued, Shown
  <2>3. ~Held(x)'
    BY <1>1, <2>x, <2>1 DEF Held
  <2>4. \A id \in 1 .. sent : id # x /\ Held(id) => Held(id)'
    BY <1>1, <2>x DEF Held
  <2>5. \A id \in lost : ~Held(id)'
    <3>1. \A id \in lost : id # 0 /\ ~Held(id)
      BY <1>s DEF Numbered, Accounted
    <3> QED
      BY <1>1, <3>1 DEF Held
  <2> QED
    <3>1. \A id \in 1 .. sent : (Queued(id) \/ Held(id) \/ Shown(id) \/ id \in lost)'
      BY <1>1, <2>x, <2>4 DEF Accounted, Queued, Shown
    <3>2. \A id \in lost' : (~Queued(id) /\ ~Held(id) /\ ~Shown(id))'
      BY <1>1, <2>x, <2>2, <2>3, <2>5 DEF Accounted, Queued, Shown
    <3> QED
      BY <1>1, <3>1, <3>2 DEF Accounted
<1> QED
  BY <1>3, <1>4, <1>5

\* The report a reader takes is the oldest of its own in the queue.
LEMMA TakesKeeps ==
  ASSUME PipeInv, NEW n \in Readers, Takes(n)
  PROVE  Numbered' /\ InOrder' /\ Accounted'
<1> USE DEF PipeInv
<1>q. queue \in Seq(Messages) /\ sent \in Nat
  BY DEF PipeTypes
<1>i. PICK i \in 1 .. Len(queue) :
         /\ i = IndexOfType(queue, n) /\ queue[i].type = n
         /\ \A k \in 1 .. Len(queue) : queue[k].type = n => i <= k
  BY <1>q, FirstIndex DEF Takes
<1>1. /\ UNCHANGED <<shown, lost, which, sent>> /\ item'[n].id = queue[i].id
      /\ queue' = RemoveAt(queue, i) /\ ~Holding(n) /\ Holding(n)'
      /\ \A m \in Readers \ {n} : item'[m].id = item[m].id /\ (Holding(m)' <=> Holding(m))
  BY <1>i DEF Takes, OneHand, HandsKept, FirstOfType, WithoutFirst
<1>2. /\ \A k \in 1 .. Len(queue') :
            Old(i, k) \in 1 .. Len(queue) /\ Old(i, k) # i /\ queue'[k] = queue[Old(i, k)]
      /\ \A j, k \in 1 .. Len(queue') : j < k => Old(i, j) < Old(i, k)
      /\ \A o \in 1 .. Len(queue) : o # i => \E k \in 1 .. Len(queue') : queue'[k] = queue[o]
  BY <1>q, <1>1, QueueRemoved
<1>3. PICK x \in 1 .. sent : x = queue[i].id /\ Parity(x) = Parity(n)
  BY <1>i DEF Numbered, Readers
<1>4. n \in {1, 2} /\ ~InHand(n) /\ x # 0 /\ x \in Nat
  BY <1>1, <1>3 DEF Numbered, Readers
<1>5. Numbered'
  <2>1. \A m \in Readers :
          (/\ item[m].id \in 0 .. sent
           /\ InHand(m) <=> Holding(m)
           /\ InHand(m) => Parity(item[m].id) = Parity(m))'
    BY <1>1, <1>3, <1>4 DEF Numbered, InHand
  <2>2. ASSUME NEW k \in 1 .. Len(queue')
        PROVE  /\ queue'[k].id \in 1 .. sent
               /\ queue'[k].type # 3 => Parity(queue'[k].type) = Parity(queue'[k].id)
    <3>1. Old(i, k) \in 1 .. Len(queue) /\ queue'[k] = queue[Old(i, k)]
      BY <1>2
    <3>2. \A o \in 1 .. Len(queue) :
             /\ queue[o].id \in 1 .. sent
             /\ queue[o].type # 3 => Parity(queue[o].type) = Parity(queue[o].id)
      BY DEF Numbered
    <3> QED
      BY <3>1, <3>2
  <2> QED
    BY <1>1, <2>1, <2>2 DEF Numbered
<1>6. QueueInOrder'
  <2> SUFFICES ASSUME NEW j \in 1 .. Len(queue'), NEW k \in 1 .. Len(queue'),
                      Ahead(j, k)'
               PROVE  Before(queue'[j].id, queue'[k].id)
    BY DEF QueueInOrder, Before
  <2>1. Ahead(Old(i, j), Old(i, k))
    BY <1>2 DEF Ahead
  <2> QED
    BY <1>2, <2>1 DEF InOrder, QueueInOrder
<1>7. HandsInOrder'
  <2>1. ASSUME NEW k \in 1 .. Len(queue')
        PROVE  /\ queue'[k].type = 3 => Before(queue'[k].id, x)
               /\ queue'[k].type # 3 => Before(x, queue'[k].id)
    <3> DEFINE o == Old(i, k)
    <3>1. o \in 1 .. Len(queue) /\ o # i /\ queue'[k] = queue[o]
      BY <1>2
    <3> HIDE DEF o
    <3>2. queue[i].type # 3
      BY <1>i, <1>4
    <3>3. CASE queue'[k].type = 3
      <4>1. Ahead(o, i)
        BY <3>1, <3>2, <3>3 DEF Ahead
      <4> QED
        BY <1>3, <3>1, <3>3, <4>1 DEF InOrder, QueueInOrder
    <3>4. CASE queue'[k].type # 3
      <4>1. CASE Parity(queue[o].id) = Parity(x)
        <5>1. queue[o].type \in {1, 2} /\ Parity(queue[o].type) = Parity(queue[o].id)
          <6>1. queue[o] \in Messages
            BY <1>q, <3>1, ElementOfSeq
          <6> QED
            BY <3>1, <3>4, <6>1 DEF Messages, Numbered
        <5>2. queue[o].type = n
          BY <1>3, <1>4, <4>1, <5>1, Parities
        <5>3. i < o
          BY <1>i, <3>1, <5>2
        <5>4. Ahead(i, o)
          BY <3>1, <3>2, <3>4, <5>3 DEF Ahead
        <5> QED
          BY <1>3, <3>1, <3>4, <5>4 DEF InOrder, QueueInOrder
      <4>2. CASE Parity(queue[o].id) # Parity(x)
        BY <3>1, <3>4, <4>2 DEF Before
      <4> QED
        BY <4>1, <4>2
    <3> QED
      BY <3>3, <3>4
  <2>2. ASSUME NEW m \in Readers \ {n}, NEW k \in 1 .. Len(queue'), InHand(m)
        PROVE  /\ queue'[k].type = 3 => Before(queue'[k].id, item[m].id)
               /\ queue'[k].type # 3 => Before(item[m].id, queue'[k].id)
    <3>1. PICK o \in 1 .. Len(queue) : queue'[k] = queue[o]
      BY <1>2, <2>2
    <3>2. HandsInOrder
      BY DEF InOrder
    <3> HIDE DEF PipeInv
    <3> QED
      BY <2>2, <3>1, <3>2 DEF HandsInOrder
  <2>3. ASSUME NEW m \in Readers, NEW k \in 1 .. Len(queue'), InHand(m)'
        PROVE  /\ queue'[k].type = 3 => Before(queue'[k].id, item'[m].id)
               /\ queue'[k].type # 3 => Before(item'[m].id, queue'[k].id)
    <3>1. CASE m = n
      BY <1>1, <1>3, <2>1, <3>1
    <3>2. CASE m # n
      <4>1. InHand(m) /\ item'[m].id = item[m].id
        BY <1>1, <2>3, <3>2 DEF InHand
      <4> HIDE DEF PipeInv
      <4> QED
        BY <2>2, <2>3, <3>2, <4>1
    <3> QED
      BY <3>1, <3>2
  <2> QED
    BY <2>3 DEF HandsInOrder, Before
<1>8. ShownFirst'
  <2>1. \A k \in 1 .. Len(queue') : ShownBefore(queue[Old(i, k)].id)
    BY <1>2 DEF InOrder, ShownFirst
  <2>2. ShownBefore(x)
    BY <1>3 DEF InOrder, ShownFirst
  <2>3. ASSUME NEW m \in Readers, InHand(m)'
        PROVE  ShownBefore(item[m].id)'
    <3>1. CASE m = n
      BY <1>1, <1>3, <2>2, <3>1 DEF ShownBefore, Before
    <3>2. CASE m # n
      BY <1>1, <2>3, <3>2 DEF InOrder, ShownFirst, ShownBefore, InHand, Before
    <3> QED
      BY <3>1, <3>2
  <2>4. ASSUME NEW k \in 1 .. Len(queue')
        PROVE  ShownBefore(queue[k].id)'
    <3>1. ShownBefore(queue'[k].id)
      BY <1>2, <2>1
    <3> HIDE DEF PipeInv
    <3>2. shown' = shown
      BY <1>1
    <3> QED
      BY <3>1, <3>2 DEF ShownBefore, Before
  <2> HIDE DEF PipeInv
  <2>5. \A k \in 1 .. Len(queue') : ShownBefore(queue[k].id)'
    BY <2>4
  <2>6. \A m \in Readers : InHand(m)' => ShownBefore(item[m].id)'
    BY <2>3
  <2> QED
    BY <2>5, <2>6 DEF ShownFirst
<1>9. ShownInOrder'
  BY <1>1 DEF InOrder, ShownInOrder, Before
<1>10. Accounted'
  <2>1. ASSUME NEW id \in 1 .. sent
        PROVE  (Queued(id) \/ Held(id) \/ Shown(id) \/ id \in lost)'
    <3>1. CASE id = x
      BY <1>1, <1>3, <3>1 DEF Held
    <3>2. CASE Queued(id) /\ id # x
      BY <1>2, <1>3, <3>2 DEF Queued
    <3>3. CASE Held(id)
      BY <1>1, <1>4, <3>3 DEF Held, InHand
    <3>4. CASE Shown(id) \/ id \in lost
      BY <1>1, <3>4 DEF Shown
    <3> QED
      BY <3>1, <3>2, <3>3, <3>4 DEF Accounted
  <2>2. ASSUME NEW id \in lost
        PROVE  (~Queued(id) /\ ~Held(id) /\ ~Shown(id))'
    <3>1. ~Queued(id) /\ ~Held(id) /\ ~Shown(id)
      BY DEF Accounted
    <3>2. ~Queued(id)'
      BY <1>2, <3>1 DEF Queued
    <3>3. id # x
      BY <1>3, <3>1 DEF Queued
    <3>4. ~Held(id)'
      BY <1>1, <1>3, <3>1, <3>3 DEF Held
    <3> QED
      BY <1>1, <3>1, <3>2, <3>4 DEF Shown
  <2> QED
    BY <1>1, <2>1, <2>2 DEF Accounted
<1> QED
  BY <1>5, <1>6, <1>7, <1>8, <1>9, <1>10 DEF InOrder

\* What a reader sends to the screen is newer than what it has sent before.
LEMMA ForwardsKeeps ==
  ASSUME PipeInv, NEW n \in Readers, Forwards(n)
  PROVE  Numbered' /\ InOrder' /\ Accounted'
<1> USE DEF PipeInv
<1>m. PICK m \in Messages : m.type = 3 /\ m.id = item[n].id /\ queue' = Append(queue, m)
  BY DEF Forwards
<1>1. /\ UNCHANGED <<shown, lost, which, sent>> /\ item'[n].id = 0
      /\ Holding(n) /\ ~Holding(n)'
      /\ \A r \in Readers \ {n} : item'[r].id = item[r].id /\ (Holding(r)' <=> Holding(r))
  BY DEF Forwards, OneHand, HandsKept
<1>2. /\ Len(queue) \in Nat
      /\ \A k \in 1 .. Len(queue') :
            \/ k \in 1 .. Len(queue) /\ queue'[k] = queue[k]
            \/ k = Len(queue) + 1 /\ queue'[k] = m
      /\ \A k \in 1 .. Len(queue) : k \in 1 .. Len(queue') /\ queue'[k] = queue[k]
      /\ Len(queue) + 1 \in 1 .. Len(queue') /\ queue'[Len(queue) + 1] = m
  BY <1>m, Added DEF PipeTypes
<1>s. sent \in Nat
  BY DEF PipeTypes
<1>3. InHand(n) /\ Parity(m.id) = Parity(n) /\ m.id \in 1 .. sent
  <2>1. InHand(n) /\ Parity(item[n].id) = Parity(n) /\ item[n].id \in 0 .. sent
    BY <1>1 DEF Numbered
  <2> QED
    BY <1>m, <1>s, <2>1 DEF InHand
<1>4. /\ \A k \in 1 .. Len(queue) :
            /\ queue[k].type = 3 => Before(queue[k].id, m.id)
            /\ queue[k].type # 3 => Before(m.id, queue[k].id)
      /\ ShownBefore(m.id)
  BY <1>m, <1>3 DEF InOrder, HandsInOrder, ShownFirst
<1>5. Numbered'
  <2>1. ASSUME NEW k \in 1 .. Len(queue')
        PROVE  /\ queue'[k].id \in 1 .. sent
               /\ queue'[k].type # 3 => Parity(queue'[k].type) = Parity(queue'[k].id)
    <3>1. \A o \in 1 .. Len(queue) :
             /\ queue[o].id \in 1 .. sent
             /\ queue[o].type # 3 => Parity(queue[o].type) = Parity(queue[o].id)
      BY DEF Numbered
    <3> QED
      BY <1>m, <1>2, <1>3, <3>1
  <2>2. ASSUME NEW r \in Readers
        PROVE  (/\ item[r].id \in 0 .. sent
                /\ InHand(r) <=> Holding(r)
                /\ InHand(r) => Parity(item[r].id) = Parity(r))'
    BY <1>1, <1>s DEF Numbered, InHand
  <2> QED
    BY <1>1, <2>1, <2>2 DEF Numbered
<1>6. QueueInOrder'
  <2> SUFFICES ASSUME NEW j \in 1 .. Len(queue'), NEW k \in 1 .. Len(queue'),
                      Ahead(j, k)'
               PROVE  Before(queue'[j].id, queue'[k].id)
    BY DEF QueueInOrder, Before
  <2>1. CASE j \in 1 .. Len(queue) /\ k \in 1 .. Len(queue)
    BY <1>2, <2>1 DEF InOrder, QueueInOrder, Ahead
  <2>2. CASE j \in 1 .. Len(queue) /\ k = Len(queue) + 1
    <3>1. queue[j].type = 3 /\ queue'[j] = queue[j] /\ queue'[k] = m
      BY <1>m, <1>2, <2>2 DEF Ahead
    <3> QED
      BY <1>4, <2>2, <3>1
  <2>3. CASE j = Len(queue) + 1 /\ k \in 1 .. Len(queue)
    <3>1. queue'[j] = m /\ queue'[k] = queue[k] /\ ~(j < k)
      BY <1>2, <2>3
    <3>2. queue[k].type # 3
      BY <3>1 DEF Ahead
    <3> QED
      BY <1>4, <2>3, <3>1, <3>2
  <2>4. CASE j = Len(queue) + 1 /\ k = Len(queue) + 1
    BY <1>2, <2>4 DEF Ahead
  <2> QED
    BY <1>2, <2>1, <2>2, <2>3, <2>4
<1>7. HandsInOrder'
  <2>1. ASSUME NEW r \in Readers, NEW k \in 1 .. Len(queue'), InHand(r)'
        PROVE  /\ queue'[k].type = 3 => Before(queue'[k].id, item'[r].id)
               /\ queue'[k].type # 3 => Before(item'[r].id, queue'[k].id)
    <3>1. r # n /\ item'[r].id = item[r].id /\ InHand(r)
      BY <1>1, <2>1 DEF InHand
    <3>2. CASE k \in 1 .. Len(queue) /\ queue'[k] = queue[k]
      BY <3>1, <3>2 DEF InOrder, HandsInOrder
    <3>3. CASE queue'[k] = m
      <4>1. Parity(item[r].id) = Parity(r)
        BY <3>1 DEF Numbered
      <4>2. Parity(r) # Parity(n)
        BY <3>1, OwnParity
      <4> QED
        BY <1>m, <1>3, <3>1, <3>3, <4>1, <4>2 DEF Before
    <3> QED
      BY <1>2, <3>2, <3>3
  <2> QED
    BY <2>1 DEF HandsInOrder, Before
<1>8. ShownFirst'
  <2>1. ASSUME NEW k \in 1 .. Len(queue')
        PROVE  ShownBefore(queue[k].id)'
    <3>1. ShownBefore(queue'[k].id)
      BY <1>2, <1>4 DEF InOrder, ShownFirst
    <3> QED
      BY <1>1, <3>1 DEF ShownBefore, Before
  <2>2. ASSUME NEW r \in Readers, InHand(r)'
        PROVE  ShownBefore(item[r].id)'
    BY <1>1, <2>2 DEF InOrder, ShownFirst, ShownBefore, InHand, Before
  <2> QED
    BY <2>1, <2>2 DEF ShownFirst
<1>9. ShownInOrder'
  BY <1>1 DEF InOrder, ShownInOrder, Before
<1>10. Accounted'
  <2>x. PICK x \in 1 .. sent : x = m.id /\ x = item[n].id
    BY <1>m, <1>3
  <2>1. ASSUME NEW id \in 1 .. sent
        PROVE  (Queued(id) \/ Held(id) \/ Shown(id) \/ id \in lost)'
    <3>1. CASE id = x
      BY <1>2, <2>x, <3>1 DEF Queued
    <3>2. CASE Queued(id)
      BY <1>2, <3>2 DEF Queued
    <3>3. CASE Held(id) /\ id # x
      BY <1>1, <2>x, <3>3 DEF Held
    <3>4. CASE Shown(id) \/ id \in lost
      BY <1>1, <3>4 DEF Shown
    <3> QED
      BY <3>1, <3>2, <3>3, <3>4 DEF Accounted
  <2>2. ASSUME NEW id \in lost
        PROVE  (~Queued(id) /\ ~Held(id) /\ ~Shown(id))'
    <3>1. ~Queued(id) /\ ~Held(id) /\ ~Shown(id)
      BY DEF Accounted
    <3>2. id # x
      BY <2>x, <3>1 DEF Held
    <3>3. ~Queued(id)'
      BY <1>2, <2>x, <3>1, <3>2 DEF Queued
    <3>4. id # 0
      BY <1>s DEF Numbered
    <3>5. ~Held(id)'
      BY <1>1, <3>1, <3>4 DEF Held
    <3> QED
      BY <1>1, <3>1, <3>3, <3>5 DEF Shown
  <2> QED
    BY <1>1, <2>1, <2>2 DEF Accounted
<1> QED
  BY <1>5, <1>6, <1>7, <1>8, <1>9, <1>10 DEF InOrder

\* The screen shows the oldest text that waits for it.
LEMMA ToScreenKeeps ==
  ASSUME PipeInv, ToScreen
  PROVE  Numbered' /\ InOrder' /\ Accounted'
<1> USE DEF PipeInv
<1>q. queue \in Seq(Messages) /\ shown \in Seq(Prints) /\ sent \in Nat
  BY DEF PipeTypes
<1>i. PICK i \in 1 .. Len(queue) :
         /\ i = IndexOfType(queue, 3) /\ queue[i].type = 3
         /\ \A k \in 1 .. Len(queue) : queue[k].type = 3 => i <= k
  BY <1>q, FirstIndex DEF ToScreen
<1>m. PICK m \in Prints : m.id = queue[i].id /\ shown' = Append(shown, m)
  BY <1>i DEF ToScreen, FirstOfType
<1>1. /\ UNCHANGED <<lost, which, sent>> /\ queue' = RemoveAt(queue, i)
      /\ \A r \in Readers : item'[r].id = item[r].id /\ (Holding(r)' <=> Holding(r))
  BY <1>i DEF ToScreen, HandsKept, WithoutFirst
<1>2. /\ \A k \in 1 .. Len(queue') :
            Old(i, k) \in 1 .. Len(queue) /\ Old(i, k) # i /\ queue'[k] = queue[Old(i, k)]
      /\ \A j, k \in 1 .. Len(queue') : j < k => Old(i, j) < Old(i, k)
      /\ \A o \in 1 .. Len(queue) : o # i => \E k \in 1 .. Len(queue') : queue'[k] = queue[o]
  <2> HIDE DEF PipeInv
  <2>1. queue' = RemoveAt(queue, i)
    BY <1>1
  <2> QED
    BY <1>q, <2>1, QueueRemoved
<1>3. /\ Len(shown) \in Nat
      /\ \A k \in 1 .. Len(shown') :
            \/ k \in 1 .. Len(shown) /\ shown'[k] = shown[k]
            \/ k = Len(shown) + 1 /\ shown'[k] = m
      /\ \A k \in 1 .. Len(shown) : k \in 1 .. Len(shown') /\ shown'[k] = shown[k]
      /\ Len(shown) + 1 \in 1 .. Len(shown') /\ shown'[Len(shown) + 1] = m
  BY <1>q, <1>m, Added
<1>x. PICK x \in 1 .. sent : x = queue[i].id /\ x = m.id
  BY <1>i, <1>m DEF Numbered
<1>4. Numbered'
  <2>1. ASSUME NEW k \in 1 .. Len(queue')
        PROVE  /\ queue'[k].id \in 1 .. sent
               /\ queue'[k].type # 3 => Parity(queue'[k].type) = Parity(queue'[k].id)
    <3>1. Old(i, k) \in 1 .. Len(queue) /\ queue'[k] = queue[Old(i, k)]
      BY <1>2
    <3>2. \A o \in 1 .. Len(queue) :
             /\ queue[o].id \in 1 .. sent
             /\ queue[o].type # 3 => Parity(queue[o].type) = Parity(queue[o].id)
      BY DEF Numbered
    <3> QED
      BY <3>1, <3>2
  <2>2. \A k \in 1 .. Len(shown') : shown'[k].id \in 1 .. sent
    BY <1>3, <1>x DEF Numbered
  <2>3. \A r \in Readers :
          (/\ item[r].id \in 0 .. sent
           /\ InHand(r) <=> Holding(r)
           /\ InHand(r) => Parity(item[r].id) = Parity(r))'
    BY <1>1 DEF Numbered, InHand
  <2> QED
    BY <1>1, <2>1, <2>2, <2>3 DEF Numbered
<1>5. QueueInOrder'
  <2> SUFFICES ASSUME NEW j \in 1 .. Len(queue'), NEW k \in 1 .. Len(queue'),
                      Ahead(j, k)'
               PROVE  Before(queue'[j].id, queue'[k].id)
    BY DEF QueueInOrder, Before
  <2>1. Ahead(Old(i, j), Old(i, k))
    BY <1>2 DEF Ahead
  <2> QED
    BY <1>2, <2>1 DEF InOrder, QueueInOrder
<1>6. HandsInOrder'
  <2>1. ASSUME NEW r \in Readers, NEW k \in 1 .. Len(queue'), InHand(r)
        PROVE  /\ queue'[k].type = 3 => Before(queue'[k].id, item[r].id)
               /\ queue'[k].type # 3 => Before(item[r].id, queue'[k].id)
    <3>1. Old(i, k) \in 1 .. Len(queue) /\ queue'[k] = queue[Old(i, k)]
      BY <1>2
    <3> QED
      BY <2>1, <3>1 DEF InOrder, HandsInOrder
  <2> QED
    BY <1>1, <2>1 DEF HandsInOrder, InHand, Before
<1>7. ASSUME NEW k \in 1 .. Len(queue')
      PROVE  Before(x, queue'[k].id) /\ ShownBefore(queue'[k].id)
  <2> DEFINE o == Old(i, k)
  <2>1. o \in 1 .. Len(queue) /\ o # i /\ queue'[k] = queue[o]
    BY <1>2
  <2> HIDE DEF o
  <2>2. Ahead(i, o)
    <3>1. CASE queue[o].type = 3
      BY <1>i, <2>1, <3>1 DEF Ahead
    <3>2. CASE queue[o].type # 3
      BY <1>i, <3>2 DEF Ahead
    <3> QED
      BY <3>1, <3>2
  <2> QED
    BY <1>x, <2>1, <2>2 DEF InOrder, QueueInOrder, ShownFirst
<1>8. ASSUME NEW r \in Readers, InHand(r)
      PROVE  Before(x, item[r].id) /\ ShownBefore(item[r].id)
  BY <1>i, <1>x, <1>8 DEF InOrder, HandsInOrder, ShownFirst
<1>9. ShownFirst'
  <2>1. ASSUME NEW id, Before(x, id), ShownBefore(id)
        PROVE  \A j \in 1 .. Len(shown') : Before(shown'[j].id, id)
    BY <1>3, <1>x, <2>1 DEF ShownBefore
  <2>2. \A k \in 1 .. Len(queue'), j \in 1 .. Len(shown') : Before(shown'[j].id, queue'[k].id)
    BY <1>7, <2>1
  <2>3. \A r \in Readers, j \in 1 .. Len(shown') :
          InHand(r) => Before(shown'[j].id, item[r].id)
    BY <1>8, <2>1
  <2> QED
    BY <1>1, <2>2, <2>3 DEF ShownFirst, ShownBefore, InHand, Before
<1>10. ShownInOrder'
  <2>1. ShownBefore(x)
    BY <1>x DEF InOrder, ShownFirst
  <2>2. ASSUME NEW j \in 1 .. Len(shown'), NEW k \in 1 .. Len(shown'), j < k
        PROVE  Before(shown'[j].id, shown'[k].id)
    <3>1. j \in 1 .. Len(shown) /\ shown'[j] = shown[j]
      BY <1>3, <2>2
    <3>2. CASE k \in 1 .. Len(shown) /\ shown'[k] = shown[k]
      BY <2>2, <3>1, <3>2 DEF InOrder, ShownInOrder
    <3>3. CASE shown'[k] = m
      BY <1>x, <2>1, <3>1, <3>3 DEF ShownBefore
    <3> QED
      BY <1>3, <3>2, <3>3
  <2> QED
    BY <2>2 DEF ShownInOrder, Before
<1>11. Accounted'
  <2>1. ASSUME NEW id \in 1 .. sent
        PROVE  (Queued(id) \/ Held(id) \/ Shown(id) \/ id \in lost)'
    <3>1. CASE id = x
      BY <1>3, <1>x, <3>1 DEF Shown
    <3>2. CASE Queued(id) /\ id # x
      BY <1>2, <1>x, <3>2 DEF Queued
    <3>3. CASE Held(id)
      BY <1>1, <3>3 DEF Held
    <3>4. CASE Shown(id)
      BY <1>3, <3>4 DEF Shown
    <3>5. CASE id \in lost
      BY <1>1, <3>5
    <3> QED
      BY <3>1, <3>2, <3>3, <3>4, <3>5 DEF Accounted
  <2>2. ASSUME NEW id \in lost
        PROVE  (~Queued(id) /\ ~Held(id) /\ ~Shown(id))'
    <3>1. ~Queued(id) /\ ~Held(id) /\ ~Shown(id)
      BY DEF Accounted
    <3>2. ~Queued(id)'
      BY <1>2, <3>1 DEF Queued
    <3>3. id # x
      BY <1>x, <3>1 DEF Queued
    <3>4. ~Shown(id)'
      BY <1>3, <1>x, <3>1, <3>3 DEF Shown
    <3> QED
      BY <1>1, <3>1, <3>2, <3>4 DEF Held
  <2> QED
    BY <1>1, <2>1, <2>2 DEF Accounted
<1> QED
  BY <1>4, <1>5, <1>6, <1>9, <1>10, <1>11 DEF InOrder

-----------------------------------------------------------------------------
\* Nothing is on its way before the programs run.
LEMMA InitPipeInv == Init => PipeInv
<1> SUFFICES ASSUME Init PROVE PipeInv
  OBVIOUS
<1>1. <<>> \in Seq(Messages) /\ <<>> \in Seq(Prints) /\ Len(<<>>) = 0
  OBVIOUS
<1>2. queue = <<>> /\ shown = <<>> /\ sent = 0 /\ which = 1 /\ lost = {}
  BY DEF Init
<1>3. \A n \in Readers : item[n] = NoItem /\ item[n].id = 0 /\ ~Holding(n)
  BY DEF Init, NoItem, Holding
<1>4. PipeTypes
  BY <1>1, <1>2 DEF Init, PipeTypes, NoItem, Texts
<1>5. Numbered
  BY <1>1, <1>2, <1>3 DEF Numbered, InHand
<1>6. InOrder
  BY <1>1, <1>2, <1>3
  DEF InOrder, QueueInOrder, HandsInOrder, ShownFirst, ShownInOrder, InHand
<1>7. Accounted
  BY <1>1, <1>2 DEF Accounted
<1> QED
  BY <1>4, <1>5, <1>6, <1>7, InitSignalInv DEF PipeInv

\* Signals, numbers, order and account hold together in every reachable state.
THEOREM PipeInvariant == Spec => []PipeInv
<1>1. Init => PipeInv
  BY InitPipeInv
<1>2. PipeInv /\ [Next]_vars => PipeInv'
  <2> SUFFICES ASSUME PipeInv, [Next]_vars PROVE PipeInv'
    OBVIOUS
  <2>1. SignalInv'
    BY StepSignalInv DEF PipeInv
  <2>2. /\ \/ Quiet \/ Sends \/ ToScreen
           \/ \E n \in Readers : Takes(n) \/ Forwards(n) \/ Loses(n)
        /\ PipeTypes'
    BY PipeSteps DEF PipeInv
  <2>3. Numbered' /\ InOrder' /\ Accounted'
    BY <2>2, QuietKeeps, SendsKeeps, ToScreenKeeps, TakesKeeps, ForwardsKeeps, LosesKeeps
  <2> QED
    BY <2>1, <2>2, <2>3 DEF PipeInv
<1> QED
  BY <1>1, <1>2, PTL DEF Spec

\* A set in which no two differ has at most one element.
LEMMA OneOrNone ==
  ASSUME NEW S, \A x, y \in S : x = y
  PROVE  Cardinality(S) = IF S = {} THEN 0 ELSE 1
<1>1. CASE S = {}
  BY <1>1, FS_EmptySet
<1>2. CASE S # {}
  <2>1. PICK x : S = {x}
    BY <1>2
  <2> QED
    BY <1>2, <2>1, FS_Singleton
<1> QED
  BY <1>1, <1>2

\* Two places with one report would have to be in order with it.
LEMMA AccountedMeansOnce == PipeInv => ExactlyOnce
<1> SUFFICES ASSUME PipeInv, NEW id \in 1 .. sent
             PROVE  InQueue(id) + InHands(id) + OnScreen(id) + Lost(id) = 1
  BY DEF ExactlyOnce
<1> DEFINE Q == {k \in DOMAIN queue : queue[k].id = id}
           H == {n \in Readers : item[n].id = id}
           P == {k \in DOMAIN shown : shown[k].id = id}
<1>t. /\ sent \in Nat /\ id \in Nat /\ id # 0
      /\ DOMAIN queue = 1 .. Len(queue) /\ DOMAIN shown = 1 .. Len(shown)
      /\ Len(queue) \in Nat /\ Len(shown) \in Nat
  BY LenProperties DEF PipeInv, PipeTypes
<1>b. ~Before(id, id)
  BY <1>t DEF Before
<1>1. \A j, k \in Q : j = k
  <2> SUFFICES ASSUME NEW j \in Q, NEW k \in Q, j # k PROVE FALSE
    OBVIOUS
  <2>1. j \in 1 .. Len(queue) /\ k \in 1 .. Len(queue) /\ (j < k \/ k < j)
    BY <1>t
  <2>2. Ahead(j, k) \/ Ahead(k, j)
    BY <2>1 DEF Ahead
  <2>3. Before(id, id)
    BY <2>1, <2>2 DEF PipeInv, InOrder, QueueInOrder
  <2> QED
    BY <1>b, <2>3
<1>2. \A m, n \in H : m = n
  <2> SUFFICES ASSUME NEW m \in H, NEW n \in H PROVE m = n
    OBVIOUS
  <2>1. Parity(id) = Parity(m) /\ Parity(id) = Parity(n)
    BY <1>t DEF PipeInv, Numbered, InHand
  <2> QED
    BY <2>1, OwnParity
<1>3. \A j, k \in P : j = k
  <2> SUFFICES ASSUME NEW j \in P, NEW k \in P, j # k PROVE FALSE
    OBVIOUS
  <2>1. j \in 1 .. Len(shown) /\ k \in 1 .. Len(shown) /\ (j < k \/ k < j)
    BY <1>t
  <2>2. Before(id, id)
    BY <2>1 DEF PipeInv, InOrder, ShownInOrder
  <2> QED
    BY <1>b, <2>2
<1>4. Q = {} \/ H = {}
  BY <1>b, <1>t DEF PipeInv, InOrder, HandsInOrder, InHand
<1>5. (Q = {} \/ P = {}) /\ (H = {} \/ P = {})
  BY <1>b, <1>t DEF PipeInv, InOrder, ShownFirst, ShownBefore, InHand
<1>6. /\ Queued(id) <=> Q # {}
      /\ Held(id) <=> H # {}
      /\ Shown(id) <=> P # {}
  BY <1>t DEF Queued, Held, Shown
<1>7. /\ InQueue(id) = IF Q = {} THEN 0 ELSE 1
      /\ InHands(id) = IF H = {} THEN 0 ELSE 1
      /\ OnScreen(id) = IF P = {} THEN 0 ELSE 1
  BY <1>1, <1>2, <1>3, OneOrNone DEF InQueue, InHands, OnScreen
<1> HIDE DEF Q, H, P
<1>8. /\ Queued(id) \/ Held(id) \/ Shown(id) \/ id \in lost
      /\ id \in lost => ~Queued(id) /\ ~Held(id) /\ ~Shown(id)
  BY DEF PipeInv, Accounted
<1> QED
  BY <1>4, <1>5, <1>6, <1>7, <1>8 DEF Lost

\* A report the editor has sent is in exactly one place, whatever signals and
\* interrupts the readers receive (N1.c:35-92, N2.c:37-94): no reader shows one
\* twice, and only an interrupted msgsnd takes one away.
THEOREM ReportsExactlyOnce == Spec => []ExactlyOnce
  BY PipeInvariant, AccountedMeansOnce, PTL

\* Screen shows the reports of each reader in the order of the editor, for any
\* number of reports and any capacity of the queue (Screen.c, N1.c:79, 92).
THEOREM ShownInEditorsOrder == Spec => []ScreenInOrder
<1>1. PipeInv => ScreenInOrder
  <2> SUFFICES ASSUME PipeInv, NEW j \in DOMAIN shown, NEW k \in DOMAIN shown, j < k,
                      shown[j].id % 2 = shown[k].id % 2
               PROVE  shown[j].id < shown[k].id
    BY DEF ScreenInOrder
  <2>1. j \in 1 .. Len(shown) /\ k \in 1 .. Len(shown)
    BY LenProperties DEF PipeInv, PipeTypes
  <2> QED
    BY <2>1 DEF PipeInv, InOrder, ShownInOrder, Before, Parity
<1> QED
  BY <1>1, PipeInvariant, PTL

\* Two readers that wait for reports of their own have none in the queue, and
\* then every report in it is for the screen.
LEMMA StalledMeansWedged == PipeInv => StallsOnlyWhenFull
<1> SUFFICES ASSUME PipeInv, Stalled, ~mishap, ~Wedged PROVE FALSE
  BY DEF StallsOnlyWhenFull
<1>1. \A n \in Readers :
         /\ ~pending[n]
         /\ \/ pc[n] = "spin" /\ live[n] = 1
            \/ pc[n] = "recv" /\ ~HasType(queue, n)
  BY DEF Stalled, Idle, Wedged
<1>2. \A n \in Readers : pc[n] = "recv" /\ ~HasType(queue, n)
  <2> SUFFICES ASSUME NEW n \in Readers, pc[n] = "spin", live[n] = 1 PROVE FALSE
    BY <1>1
  <2>1. Running(n) /\ ~pending[n] /\ Flag(n) = 1 /\ ~OwnBroadcast(n)
    BY <1>1 DEF Running, Flag, OwnBroadcast
  <2>2. Broadcasting(Partner(n))
    BY <2>1 DEF PipeInv, SignalInv, PausedOnlyWhileLive
  <2> QED
    BY <1>1, <2>2 DEF Broadcasting, Partner, Readers
<1>3. PICK id \in 1 .. sent : OnScreen(id) = 0 /\ id \notin lost
  BY DEF Stalled
<1>t. /\ sent \in Nat /\ queue \in Seq(Messages) /\ DOMAIN queue = 1 .. Len(queue)
      /\ DOMAIN shown = 1 .. Len(shown) /\ Len(shown) \in Nat
  BY LenProperties DEF PipeInv, PipeTypes
<1>4. ~Held(id)
  <2>1. \A n \in Readers : ~Holding(n)
    BY <1>2 DEF Holding
  <2> QED
    BY <2>1, <1>t DEF PipeInv, Numbered, InHand, Held
<1>5. ~Shown(id)
  <2> DEFINE P == {k \in DOMAIN shown : shown[k].id = id}
  <2>1. IsFiniteSet(1 .. Len(shown)) /\ P \in SUBSET (1 .. Len(shown))
    BY <1>t, FS_Interval
  <2>2. IsFiniteSet(P)
    <3> HIDE DEF P
    <3> QED
      BY <2>1, FS_Subset
  <2>3. Cardinality(P) = 0
    BY <1>3 DEF OnScreen
  <2>4. P = {}
    BY <2>2, <2>3, FS_EmptySet
  <2> QED
    BY <1>t, <2>4 DEF Shown
<1>6. PICK k \in 1 .. Len(queue) : queue[k].id = id
  BY <1>3, <1>4, <1>5 DEF PipeInv, Accounted, Queued
<1>7. queue[k].type \in {1, 2, 3}
  <2>1. queue[k] \in Messages
    BY <1>t, ElementOfSeq
  <2> QED
    BY <2>1 DEF Messages
<1>8. HasType(queue, queue[k].type)
  BY <1>t DEF HasType, OfType
<1> QED
  BY <1>2, <1>7, <1>8 DEF Stalled, Readers

\* As long as the toggles pair up, the readers, the screen and the editor's
\* reports stop only at a full queue that both stages share (N1.c:79, 92): an
\* idle reader is never left paused.
THEOREM StallsAreFullQueues == Spec => []StallsOnlyWhenFull
  BY PipeInvariant, StalledMeansWedged, PTL
=============================================================================
