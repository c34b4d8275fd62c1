--------------------------- MODULE FrontEndProofs ---------------------------
(***************************************************************************)
(* Proofs about the pages of the browser, for any number of rows, tenants, *)
(* files, products, tables and sockets, and however much happens.  Each    *)
(* page has an inductive invariant of its own, of which what is claimed of *)
(* it follows; that of the tables is in TableDeskProofs.                   *)
(***************************************************************************)
EXTENDS FrontEnd, TableDeskProofs, FiniteSetTheorems

-----------------------------------------------------------------------------
(* The link.                                                                 *)

\* Unless it was hasty, a client on the page holds the one socket there is, and one that was closed none;
\* while an attempt is scheduled there is none.
SocketInv ==
  /\ closed = ~mounted
  /\ ~mounted => ~timer
  /\ ~hasty =>
       /\ timer => ws = NoSocket
       /\ IF mounted THEN \A s \in Sockets : socket[s] # "closed" => s = ws
                     ELSE \A s \in Sockets : socket[s] \notin Live

\* Nothing is on its way on a closed socket, and no end on one that is served.
WireInv ==
  \A s \in Sockets :
    /\ socket[s] = "closed" => s \notin clients /\ wire[s] = <<>>
    /\ s \in clients => \A i \in DOMAIN wire[s] : wire[s][i] # End

\* An event is on each wire once, and not any more when it has arrived.
EventInv ==
  /\ \A i \in DOMAIN feed : feed[i] <= number
  /\ \A s \in Sockets : \A i \in DOMAIN wire[s] : wire[s][i].kind = "event" =>
       /\ wire[s][i].no <= number
       /\ \A j \in DOMAIN wire[s] : wire[s][j].kind = "event" /\ wire[s][j].no = wire[s][i].no => j = i
  /\ ~hasty =>
       /\ \A i, j \in DOMAIN feed : feed[i] = feed[j] => i = j
       /\ \A s \in Sockets : socket[s] \in Live =>
            \A i \in DOMAIN wire[s] : wire[s][i].kind = "event" =>
              \A j \in DOMAIN feed : feed[j] # wire[s][i].no

LinkInv == LinkTypeOK /\ SocketInv /\ WireInv /\ EventInv

AFrame == [kind : {"open", "end", "metrics", "error", "event"}, about : Queues \cup {""}, no : Nat]
ASocket == Live \cup {"closing", "closed"}

\* The type of the link, but for the wires.
LinkRest ==
  /\ running \in BOOLEAN /\ timer \in BOOLEAN /\ closed \in BOOLEAN /\ mounted \in BOOLEAN
  /\ hasty \in BOOLEAN
  /\ metrics \in [Queues -> Nat] /\ shown \in [Queues -> Nat] /\ number \in Nat
  /\ recent \in Seq(Nat) /\ Len(recent) <= Keep
  /\ errors \in Seq(Nat) /\ Len(errors) <= Keep
  /\ feed \in Seq(Nat)
  /\ clients \subseteq Sockets
  /\ socket \in [Sockets -> ASocket]
  /\ ws \in Sockets \cup {NoSocket}
  /\ status \in {"connecting", "connected", "disconnected"}
  /\ left \in [Acts -> Nat]

LEMMA WireTypes == LinkTypeOK <=> LinkRest /\ wire \in [Sockets -> Seq(AFrame)]
  BY DEF LinkTypeOK, LinkRest, AFrame, ASocket

LEMMA WireTypesNext == LinkTypeOK' <=> LinkRest' /\ wire' \in [Sockets -> Seq(AFrame)]
  BY DEF LinkTypeOK, LinkRest, AFrame, ASocket

LEMMA SpendIs == ASSUME left \in [Acts -> Nat], NEW act \in Acts, Spend(act) PROVE left' \in [Acts -> Nat]
  BY DEF Spend

LEMMA FrameIs ==
  /\ \A kind \in {"open", "end", "metrics", "error", "event"}, about \in Queues \cup {""}, n \in Nat :
       LET f == Frame(kind, about, n) IN f \in AFrame /\ f.kind = kind /\ f.no = n
  /\ Opened \in AFrame /\ Opened.kind = "open" /\ End \in AFrame /\ End.kind = "end"
  BY DEF Frame, AFrame, Opened, End

\* The rest of a sequence.
LEMMA RestIs ==
  ASSUME NEW S, NEW q \in Seq(S), q # <<>>
  PROVE  /\ Len(q) \in Nat /\ DOMAIN q = 1..Len(q) /\ 1 \in DOMAIN q /\ Head(q) = q[1] /\ Head(q) \in S
         /\ Tail(q) \in Seq(S) /\ DOMAIN Tail(q) = 1..(Len(q) - 1)
         /\ \A i \in DOMAIN Tail(q) : i + 1 \in DOMAIN q /\ i + 1 # 1 /\ Tail(q)[i] = q[i + 1]
  <1>1. Len(q) \in Nat \ {0} /\ DOMAIN q = 1..Len(q)
    BY EmptySeq, LenProperties
  <1>2. /\ Head(q) \in S /\ Tail(q) \in Seq(S) /\ Len(Tail(q)) = Len(q) - 1
        /\ \A i \in 1..Len(Tail(q)) : Tail(q)[i] = q[i + 1]
    BY HeadTailProperties
  <1>3. DOMAIN Tail(q) = 1..Len(Tail(q))
    BY <1>2, LenProperties
  <1>. QED
    BY <1>1, <1>2, <1>3

\* A sequence with one more.
LEMMA MoreIs ==
  ASSUME NEW S, NEW q \in Seq(S), NEW e \in S
  PROVE  /\ Append(q, e) \in Seq(S) /\ Len(q) \in Nat
         /\ DOMAIN q = 1..Len(q) /\ DOMAIN Append(q, e) = 1..(Len(q) + 1)
         /\ \A i \in DOMAIN q : Append(q, e)[i] = q[i]
         /\ Append(q, e)[Len(q) + 1] = e
  <1>1. Len(q) \in Nat /\ DOMAIN q = 1..Len(q)
    BY LenProperties
  <1>2. Append(q, e) \in Seq(S) /\ Len(Append(q, e)) = Len(q) + 1 /\ Append(q, e)[Len(q) + 1] = e
        /\ \A i \in 1..Len(q) : Append(q, e)[i] = q[i]
    BY AppendProperties
  <1>3. DOMAIN Append(q, e) = 1..Len(Append(q, e))
    BY <1>2, LenProperties
  <1>. QED
    BY <1>1, <1>2, <1>3

LEMMA FirstIs ==
  ASSUME NEW S, NEW q \in Seq(S), NEW e \in S
  PROVE  /\ <<e>> \o q \in Seq(S) /\ Len(q) \in Nat /\ Len(<<e>> \o q) = Len(q) + 1
         /\ DOMAIN q = 1..Len(q) /\ DOMAIN (<<e>> \o q) = 1..(Len(q) + 1)
         /\ (<<e>> \o q)[1] = e
         /\ \A i \in 2..(Len(q) + 1) : (<<e>> \o q)[i] = q[i - 1]
  <1>1. Len(q) \in Nat /\ DOMAIN q = 1..Len(q)
    BY LenProperties
  <1>2. <<e>> \in Seq(S) /\ Len(<<e>>) = 1 /\ <<e>>[1] = e
    OBVIOUS
  <1>3. /\ <<e>> \o q \in Seq(S) /\ Len(<<e>> \o q) = 1 + Len(q)
        /\ \A i \in 1..(1 + Len(q)) : (<<e>> \o q)[i] = IF i <= 1 THEN <<e>>[i] ELSE q[i - 1]
    BY <1>2, ConcatProperties
  <1>4. DOMAIN (<<e>> \o q) = 1..Len(<<e>> \o q)
    BY <1>3, LenProperties
  <1>. QED
    BY <1>1, <1>2, <1>3, <1>4

\* What is kept of the newest errors.
LEMMA NewestIs ==
  ASSUME NEW q \in Seq(Nat), NEW n \in Nat
  PROVE  Newest(<<n>> \o q) \in Seq(Nat) /\ Len(Newest(<<n>> \o q)) <= Keep
  <1>. DEFINE p == <<n>> \o q
              k == IF Len(p) > Keep THEN Keep ELSE Len(p)
  <1>1. p \in Seq(Nat) /\ Len(p) \in Nat /\ DOMAIN p = 1..Len(p)
    BY FirstIs, LenProperties
  <1>2. k \in Nat /\ k <= Keep /\ k <= Len(p)
    BY <1>1, LinkAssumption
  <1>3. \A i \in 1..k : p[i] \in Nat
    BY <1>1, <1>2, ElementOfSeq
  <1>. HIDE DEF p, k
  <1>4. SubSeq(p, 1, k) \in Seq(Nat) /\ Len(SubSeq(p, 1, k)) = IF 1 <= k THEN k - 1 + 1 ELSE 0
    BY <1>2, <1>3, SubSeqProperties
  <1>5. Newest(p) = SubSeq(p, 1, k)
    BY DEF Newest, k
  <1>6. Newest(p) \in Seq(Nat) /\ Len(Newest(p)) <= Keep
    BY <1>2, <1>4, <1>5
  <1>. QED
    BY <1>6 DEF p

\* What a new connection is sent: no events.
LEMMA ReplayIs ==
  ASSUME metrics \in [Queues -> Nat], recent \in Seq(Nat)
  PROVE  LET first == <<Opened>> \o Replay IN
         /\ first \in Seq(AFrame)
         /\ \A i \in DOMAIN first : first[i] # End /\ first[i].kind # "event"
  <1>. DEFINE Quiet == {f \in AFrame : f.kind \in {"open", "metrics", "error"}}
              replayed == {q \in Queues : metrics[q] # 0}
              n     == Cardinality(replayed)
              A     == [i \in 1..n |-> LET q == SetToSeq(replayed)[i] IN Frame("metrics", q, metrics[q])]
              B     == [i \in DOMAIN recent |-> Frame("error", "", recent[i])]
  <1>1. IsFiniteSet(replayed) /\ n \in Nat
    <2>1. IsFiniteSet(replayed)
      BY LinkAssumption, FS_Subset
    <2>. QED
      BY <2>1, FS_CardinalityType
  <1>2. SetToSeq(replayed) \in [1..n -> replayed]
    <2>1. PICK f \in Bijection(1..n, replayed) : TRUE
      BY <1>1, FS_CardinalityType DEF ExistsBijection
    <2>2. f \in [1..n -> replayed] /\ IsInjective(f)
      BY <2>1 DEF Bijection, Injection
    <2>. QED
      BY <2>2 DEF SetToSeq
  <1>3. \A i \in 1..n : A[i] \in Quiet
    <2>. TAKE i \in 1..n
    <2>. DEFINE q == SetToSeq(replayed)[i]
    <2>1. q \in Queues /\ metrics[q] \in Nat
      BY <1>2
    <2>2. A[i] = Frame("metrics", q, metrics[q])
      OBVIOUS
    <2>. HIDE DEF q, A, replayed, n
    <2>3. Frame("metrics", q, metrics[q]) \in AFrame /\ Frame("metrics", q, metrics[q]).kind = "metrics"
      BY <2>1 DEF Frame, AFrame
    <2>. QED
      BY <2>2, <2>3
  <1>4. A \in Seq(Quiet)
    <2>1. A \in [1..n -> Quiet]
      BY <1>3
    <2>. HIDE DEF A, n, Quiet
    <2>. QED
      BY <1>1, <2>1
  <1>5. B \in Seq(Quiet)
    <2>1. Len(recent) \in Nat /\ DOMAIN recent = 1..Len(recent) /\ recent \in [1..Len(recent) -> Nat]
      BY LenProperties
    <2>2. \A i \in 1..Len(recent) : Frame("error", "", recent[i]) \in Quiet
      BY <2>1 DEF Frame, AFrame
    <2>3. B \in [1..Len(recent) -> Quiet]
      BY <2>1, <2>2
    <2>. HIDE DEF B, Quiet
    <2>. QED
      BY <2>1, <2>3
  <1>6. Replay = A \o B
    BY DEF Replay
  <1>7. Opened \in Quiet
    BY FrameIs
  <1>8. A \o B \in Seq(Quiet)
    <2>. HIDE DEF A, B, Quiet
    <2>. QED
      BY <1>4, <1>5, ConcatProperties
  <1>. DEFINE first == <<Opened>> \o Replay
  <1>9. first \in Seq(Quiet)
    <2>. HIDE DEF A, B, Quiet
    <2>. QED
      BY <1>6, <1>7, <1>8, FirstIs
  <1>10. \A i \in DOMAIN first : first[i] \in Quiet
    <2>. HIDE DEF Quiet, first
    <2>. QED
      BY <1>9, LenProperties, ElementOfSeq
  <1>11. first \in Seq(AFrame)
    <2>1. Quiet \subseteq AFrame
      OBVIOUS
    <2>. HIDE DEF Quiet, first
    <2>. QED
      BY <1>9, <2>1, SeqMonotonic
  <1>12. \A f \in Quiet : f # End /\ f.kind # "event"
    BY FrameIs
  <1>. HIDE DEF Quiet, A, B, first
  <1>. QED
    BY <1>10, <1>11, <1>12 DEF first

\* The wires, when a frame goes to everyone the gateway serves.
LEMMA BroadcastIs ==
  ASSUME wire \in [Sockets -> Seq(AFrame)], NEW frame \in AFrame, Broadcast(frame)
  PROVE  /\ wire' \in [Sockets -> Seq(AFrame)]
         /\ \A s \in Sockets : Len(wire[s]) \in Nat /\ DOMAIN wire[s] = 1..Len(wire[s])
         /\ \A s \in Sockets \ clients : wire'[s] = wire[s]
         /\ \A s \in Sockets \cap clients :
              /\ DOMAIN wire'[s] = 1..(Len(wire[s]) + 1)
              /\ wire'[s][Len(wire[s]) + 1] = frame
              /\ \A i \in DOMAIN wire[s] : wire'[s][i] = wire[s][i]
  <1>1. wire' = [s \in Sockets |-> IF s \in clients THEN Append(wire[s], frame) ELSE wire[s]]
    BY DEF Broadcast
  <1>2. \A s \in Sockets : /\ Append(wire[s], frame) \in Seq(AFrame) /\ Len(wire[s]) \in Nat
                           /\ DOMAIN wire[s] = 1..Len(wire[s])
                           /\ DOMAIN Append(wire[s], frame) = 1..(Len(wire[s]) + 1)
                           /\ \A i \in DOMAIN wire[s] : Append(wire[s], frame)[i] = wire[s][i]
                           /\ Append(wire[s], frame)[Len(wire[s]) + 1] = frame
    BY MoreIs
  <1>. QED
    BY <1>1, <1>2

\* A broadcast leaves every wire in order: what is new is newer than all events there are.
LEMMA BroadcastKeeps ==
  ASSUME LinkInv, NEW frame \in AFrame, Broadcast(frame), frame # End,
         number' = number + 1, frame.kind = "event" => frame.no = number + 1,
         UNCHANGED <<clients, socket, ws, timer, closed, mounted, feed, hasty>>
  PROVE  wire' \in [Sockets -> Seq(AFrame)] /\ SocketInv' /\ WireInv' /\ EventInv'
  <1>1. wire \in [Sockets -> Seq(AFrame)] /\ number \in Nat /\ feed \in Seq(Nat)
    BY WireTypes DEF LinkInv, LinkRest
  <1>2. /\ wire' \in [Sockets -> Seq(AFrame)]
        /\ \A s \in Sockets : Len(wire[s]) \in Nat /\ DOMAIN wire[s] = 1..Len(wire[s])
        /\ \A s \in Sockets \ clients : wire'[s] = wire[s]
        /\ \A s \in Sockets \cap clients :
             /\ DOMAIN wire'[s] = 1..(Len(wire[s]) + 1)
             /\ wire'[s][Len(wire[s]) + 1] = frame
             /\ \A i \in DOMAIN wire[s] : wire'[s][i] = wire[s][i]
    BY <1>1, BroadcastIs
  <1>3. ASSUME NEW s \in Sockets, NEW i \in DOMAIN wire'[s]
        PROVE  \/ i \in DOMAIN wire[s] /\ wire'[s][i] = wire[s][i]
               \/ s \in clients /\ i = Len(wire[s]) + 1 /\ i \notin DOMAIN wire[s] /\ wire'[s][i] = frame
    BY <1>2, <1>3
  <1>4. SocketInv'
    BY DEF LinkInv, SocketInv
  <1>5. WireInv'
    <2>1. ASSUME NEW s \in Sockets, socket[s] = "closed" PROVE s \notin clients /\ wire'[s] = <<>>
      BY <1>2, <2>1 DEF LinkInv, WireInv
    <2>2. ASSUME NEW s \in Sockets, s \in clients, NEW i \in DOMAIN wire'[s] PROVE wire'[s][i] # End
      BY <1>3, <2>2 DEF LinkInv, WireInv
    <2>. QED
      BY <2>1, <2>2 DEF WireInv
  <1>6. \A i \in DOMAIN feed : feed[i] \in Nat /\ feed[i] <= number
    BY <1>1, LenProperties, ElementOfSeq DEF LinkInv, EventInv
  <1>7. \A s \in Sockets : \A i \in DOMAIN wire[s] :
          wire[s][i] \in AFrame /\ wire[s][i].no \in Nat /\ (wire[s][i].kind = "event" => wire[s][i].no <= number)
    <2>. TAKE s \in Sockets
    <2>. TAKE i \in DOMAIN wire[s]
    <2>1. wire[s] \in Seq(AFrame)
      BY <1>1
    <2>2. wire[s][i] \in AFrame
      BY <2>1, LenProperties, ElementOfSeq
    <2>. QED
      BY <2>2 DEF AFrame, LinkInv, EventInv
  <1>8. ASSUME NEW s \in Sockets, NEW i \in DOMAIN wire'[s], wire'[s][i].kind = "event"
        PROVE  /\ wire'[s][i].no <= number + 1
               /\ \A j \in DOMAIN wire'[s] : wire'[s][j].kind = "event" /\ wire'[s][j].no = wire'[s][i].no => j = i
               /\ ~hasty => (socket[s] \in Live => \A j \in DOMAIN feed : feed[j] # wire'[s][i].no)
    <2>1. CASE i \in DOMAIN wire[s] /\ wire'[s][i] = wire[s][i]
      <3>1. wire'[s][i].no \in Nat /\ wire'[s][i].no <= number
        BY <1>7, <1>8, <2>1
      <3>2. ASSUME NEW j \in DOMAIN wire'[s], wire'[s][j].kind = "event", wire'[s][j].no = wire'[s][i].no
            PROVE  j = i
        <4>1. CASE j \in DOMAIN wire[s] /\ wire'[s][j] = wire[s][j]
          BY <1>8, <2>1, <3>2, <4>1 DEF LinkInv, EventInv
        <4>2. CASE wire'[s][j] = frame
          BY <1>1, <3>1, <3>2, <4>2
        <4>. QED
          BY <1>3, <4>1, <4>2
      <3>3. ~hasty => (socket[s] \in Live => \A j \in DOMAIN feed : feed[j] # wire'[s][i].no)
        BY <1>8, <2>1 DEF LinkInv, EventInv
      <3>. QED
        BY <1>1, <3>1, <3>2, <3>3
    <2>2. CASE i = Len(wire[s]) + 1 /\ i \notin DOMAIN wire[s] /\ wire'[s][i] = frame
      <3>1. wire'[s][i].no = number + 1
        BY <1>8, <2>2
      <3>2. ASSUME NEW j \in DOMAIN wire'[s], wire'[s][j].kind = "event", wire'[s][j].no = wire'[s][i].no
            PROVE  j = i
        <4>1. CASE j \in DOMAIN wire[s] /\ wire'[s][j] = wire[s][j]
          BY <1>1, <1>7, <3>1, <3>2, <4>1
        <4>. QED
          BY <1>3, <2>2, <4>1
      <3>. QED
        BY <1>1, <1>6, <3>1, <3>2
    <2>. QED
      BY <1>3, <2>1, <2>2
  <1>9. EventInv'
    <2>1. \A i \in DOMAIN feed : feed[i] <= number'
      BY <1>1, <1>6
    <2>. QED
      BY <1>8, <2>1 DEF EventInv, LinkInv
  <1>. QED
    BY <1>2, <1>4, <1>5, <1>9

\* What of the link is not on the page.
LEMMA ReportKeeps ==
  ASSUME LinkInv, NEW q \in Queues, BroadcastQueueMetrics(q),
         UNCHANGED <<socket, ws, timer, closed, status, pageVars, hasty>>
  PROVE  LinkInv'
  <1>1. Frame("metrics", q, number + 1) \in AFrame /\ Frame("metrics", q, number + 1).kind = "metrics"
    <2>1. number + 1 \in Nat
      BY WireTypes DEF LinkInv, LinkRest
    <2>. QED
      BY <2>1 DEF Frame, AFrame
  <1>2. Frame("metrics", q, number + 1) # End
    BY <1>1, FrameIs
  <1>3. wire' \in [Sockets -> Seq(AFrame)] /\ SocketInv' /\ WireInv' /\ EventInv'
    <2>. HIDE DEF Frame
    <2>1. /\ Broadcast(Frame("metrics", q, number + 1)) /\ number' = number + 1
          /\ UNCHANGED <<clients, socket, ws, timer, closed, mounted, feed, hasty>>
      BY DEF BroadcastQueueMetrics, pageVars
    <2>. QED
      BY <1>1, <1>2, <2>1, BroadcastKeeps
  <1>4. LinkTypeOK'
    <2>1. LinkRest /\ "report" \in Acts
      BY WireTypes DEF LinkInv, Acts
    <2>2. left' \in [Acts -> Nat]
      BY <2>1, SpendIs DEF LinkRest, BroadcastQueueMetrics
    <2>3. LinkRest'
      BY <2>1, <2>2 DEF LinkRest, BroadcastQueueMetrics, pageVars
    <2>. QED
      BY <1>3, <2>3, WireTypesNext
  <1>. QED
    BY <1>3, <1>4 DEF LinkInv

LEMMA ErrorKeeps ==
  ASSUME LinkInv, BroadcastSystemError, UNCHANGED <<socket, ws, timer, closed, status, pageVars, hasty>>
  PROVE  LinkInv'
  <1>1. Frame("error", "", number + 1) \in AFrame /\ Frame("error", "", number + 1).kind = "error"
    <2>1. number + 1 \in Nat
      BY WireTypes DEF LinkInv, LinkRest
    <2>. QED
      BY <2>1 DEF Frame, AFrame
  <1>2. Frame("error", "", number + 1) # End
    BY <1>1, FrameIs
  <1>3. wire' \in [Sockets -> Seq(AFrame)] /\ SocketInv' /\ WireInv' /\ EventInv'
    <2>1. /\ Broadcast(Frame("error", "", number + 1)) /\ number' = number + 1
          /\ UNCHANGED <<clients, socket, ws, timer, closed, mounted, feed, hasty>>
      BY DEF BroadcastSystemError, pageVars
    <2>. QED
      BY <1>1, <1>2, <2>1, BroadcastKeeps
  <1>4. recent' \in Seq(Nat) /\ Len(recent') <= Keep
    <2>1. number + 1 \in Nat /\ recent \in Seq(Nat)
      BY WireTypes DEF LinkInv, LinkRest
    <2>2. recent' = Newest(<<number + 1>> \o recent)
      BY Zenon DEF BroadcastSystemError
    <2>. QED
      BY <2>1, <2>2, NewestIs
  <1>5. LinkTypeOK'
    <2>1. LinkRest /\ "error" \in Acts
      BY WireTypes DEF LinkInv, Acts
    <2>2. left' \in [Acts -> Nat]
      BY <2>1, SpendIs DEF LinkRest, BroadcastSystemError
    <2>3. LinkRest'
      <3>1. /\ number' = number + 1
            /\ UNCHANGED <<running, metrics, clients, socket, ws, timer, closed, status, pageVars, hasty>>
        BY DEF BroadcastSystemError
      <3>. QED
        BY <1>4, <2>1, <2>2, <3>1 DEF LinkRest, pageVars
    <2>. QED
      BY <1>3, <2>3, WireTypesNext
  <1>. QED
    BY <1>3, <1>5 DEF LinkInv

LEMMA EventKeeps ==
  ASSUME LinkInv, BroadcastEvent, UNCHANGED <<socket, ws, timer, closed, status, pageVars, hasty>>
  PROVE  LinkInv'
  <1>1. /\ Frame("event", "", number + 1) \in AFrame /\ Frame("event", "", number + 1).kind = "event"
        /\ Frame("event", "", number + 1).no = number + 1
    <2>1. number + 1 \in Nat
      BY WireTypes DEF LinkInv, LinkRest
    <2>. QED
      BY <2>1 DEF Frame, AFrame
  <1>2. Frame("event", "", number + 1) # End
    BY <1>1, FrameIs
  <1>3. wire' \in [Sockets -> Seq(AFrame)] /\ SocketInv' /\ WireInv' /\ EventInv'
    <2>1. /\ Broadcast(Frame("event", "", number + 1)) /\ number' = number + 1
          /\ UNCHANGED <<clients, socket, ws, timer, closed, mounted, feed, hasty>>
      BY DEF BroadcastEvent, pageVars
    <2>. QED
      BY <1>1, <1>2, <2>1, BroadcastKeeps
  <1>4. LinkTypeOK'
    <2>1. LinkRest /\ "event" \in Acts
      BY WireTypes DEF LinkInv, Acts
    <2>2. left' \in [Acts -> Nat]
      BY <2>1, SpendIs DEF LinkRest, BroadcastEvent
    <2>3. LinkRest'
      <3>1. /\ number' = number + 1
            /\ UNCHANGED <<running, metrics, recent, clients, socket, ws, timer, closed, status, pageVars, hasty>>
        BY DEF BroadcastEvent
      <3>. QED
        BY <2>1, <2>2, <3>1 DEF LinkRest, pageVars
    <2>. QED
      BY <1>3, <2>3, WireTypesNext
  <1>. QED
    BY <1>3, <1>4 DEF LinkInv

\* A wire that is set anew, with no event on it.
LEMMA WireSet ==
  ASSUME LinkInv, NEW s \in Sockets, NEW q \in Seq(AFrame), wire' = [wire EXCEPT ![s] = q],
         \A i \in DOMAIN q : q[i].kind # "event",
         \A r \in Sockets \ {s} : socket'[r] \in Live => socket[r] \in Live,
         UNCHANGED <<feed, number>>, hasty => hasty'
  PROVE  wire' \in [Sockets -> Seq(AFrame)] /\ EventInv'
  <1>1. wire \in [Sockets -> Seq(AFrame)]
    BY WireTypes DEF LinkInv
  <1>2. wire' \in [Sockets -> Seq(AFrame)] /\ wire'[s] = q /\ \A r \in Sockets \ {s} : wire'[r] = wire[r]
    BY <1>1
  <1>3. EventInv'
    <2>1. \A i \in DOMAIN feed : feed[i] <= number
      BY DEF LinkInv, EventInv
    <2>2. ASSUME NEW r \in Sockets, NEW i \in DOMAIN wire'[r], wire'[r][i].kind = "event"
          PROVE  r # s /\ wire'[r] = wire[r]
      BY <1>2, <2>2
    <2>3. ~hasty' => \A i, j \in DOMAIN feed : feed[i] = feed[j] => i = j
      BY DEF LinkInv, EventInv
    <2>4. ASSUME NEW r \in Sockets, NEW i \in DOMAIN wire'[r], wire'[r][i].kind = "event"
          PROVE  /\ wire'[r][i].no <= number
                 /\ \A j \in DOMAIN wire'[r] : wire'[r][j].kind = "event" /\ wire'[r][j].no = wire'[r][i].no => j = i
                 /\ ~hasty' => (socket'[r] \in Live => \A j \in DOMAIN feed : feed[j] # wire'[r][i].no)
      <3>1. r # s /\ wire'[r] = wire[r]
        BY <2>2, <2>4
      <3>. QED
        BY <2>4, <3>1 DEF LinkInv, EventInv
    <2>. QED
      BY <2>1, <2>3, <2>4 DEF EventInv
  <1>. QED
    BY <1>2, <1>3

LEMMA GatewayKeeps ==
  ASSUME LinkInv, UNCHANGED <<socket, ws, timer, closed, status, pageVars, hasty>>,
         NEW s \in Sockets, HandleUpgrade(s) \/ HandleClose(s) \/ Break(s)
  PROVE  LinkInv'
  <1>0. SocketInv' /\ feed' = feed /\ mounted' = mounted
    BY DEF LinkInv, SocketInv, pageVars
  <1>1. CASE HandleUpgrade(s)
    <2>. DEFINE q == <<Opened>> \o Replay
    <2>1. /\ socket[s] = "connecting" /\ clients' = clients \cup {s} /\ wire' = [wire EXCEPT ![s] = q]
          /\ UNCHANGED <<running, metrics, recent, number, left>>
      BY <1>1 DEF HandleUpgrade
    <2>2. q \in Seq(AFrame) /\ \A i \in DOMAIN q : q[i] # End /\ q[i].kind # "event"
      BY ReplayIs DEF LinkInv, LinkTypeOK
    <2>. HIDE DEF q
    <2>3. wire' \in [Sockets -> Seq(AFrame)] /\ EventInv'
      BY <1>0, <2>1, <2>2, WireSet
    <2>4. wire \in [Sockets -> Seq(AFrame)]
      BY WireTypes DEF LinkInv
    <2>5. WireInv'
      BY <2>1, <2>2, <2>4 DEF LinkInv, WireInv
    <2>6. LinkTypeOK'
      BY <2>1, <2>3 DEF LinkInv, LinkTypeOK, pageVars, AFrame
    <2>. QED
      BY <1>0, <2>3, <2>5, <2>6 DEF LinkInv
  <1>2. CASE HandleClose(s)
    <2>1. clients' = clients \ {s} /\ UNCHANGED <<running, metrics, recent, number, left, wire>>
      BY <1>2 DEF HandleClose
    <2>2. WireInv'
      BY <2>1 DEF LinkInv, WireInv
    <2>3. EventInv'
      BY <1>0, <2>1 DEF LinkInv, EventInv
    <2>4. LinkTypeOK'
      BY <2>1 DEF LinkInv, LinkTypeOK, pageVars
    <2>. QED
      BY <1>0, <2>2, <2>3, <2>4 DEF LinkInv
  <1>3. CASE Break(s)
    <2>1. /\ s \in clients /\ clients' = clients \ {s} /\ wire' = [wire EXCEPT ![s] = <<End>>]
          /\ UNCHANGED <<running, metrics, recent, number>> /\ Spend("break")
      BY <1>3 DEF Break
    <2>2. <<End>> \in Seq(AFrame) /\ \A i \in DOMAIN <<End>> : <<End>>[i].kind # "event"
      <3>1. End \in AFrame /\ End.kind = "end"
        BY FrameIs
      <3>2. <<End>> \in Seq(AFrame) /\ DOMAIN <<End>> = {1} /\ <<End>>[1] = End
        BY <3>1
      <3>. QED
        BY <3>1, <3>2
    <2>3. wire' \in [Sockets -> Seq(AFrame)] /\ EventInv'
      BY <1>0, <2>1, <2>2, WireSet
    <2>4. wire \in [Sockets -> Seq(AFrame)]
      BY WireTypes DEF LinkInv
    <2>5. WireInv'
      BY <2>1, <2>4 DEF LinkInv, WireInv
    <2>6. LinkTypeOK'
      <3>1. LinkRest /\ "break" \in Acts
        BY WireTypes DEF LinkInv, Acts
      <3>2. left' \in [Acts -> Nat]
        BY <2>1, <3>1, SpendIs DEF LinkRest
      <3>3. LinkRest'
        BY <2>1, <3>1, <3>2 DEF LinkRest, pageVars
      <3>. QED
        BY <2>3, <3>3, WireTypesNext
    <2>. QED
      BY <1>0, <2>3, <2>5, <2>6 DEF LinkInv
  <1>. QED
    BY <1>1, <1>2, <1>3

LEMMA RestartKeeps ==
  ASSUME LinkInv, Restart \/ Boot, UNCHANGED <<socket, ws, timer, closed, status, pageVars, hasty>>
  PROVE  LinkInv'
  <1>0. SocketInv' /\ feed' = feed /\ mounted' = mounted
    BY DEF LinkInv, SocketInv, pageVars
  <1>1. CASE Restart
    <2>1. /\ running' = FALSE /\ metrics' = [q \in Queues |-> 0] /\ recent' = <<>> /\ Broadcast(End)
          /\ clients' = {} /\ number' = number /\ Spend("restart")
      BY <1>1 DEF Restart
    <2>2. wire \in [Sockets -> Seq(AFrame)] /\ End \in AFrame /\ End.kind = "end"
      BY WireTypes, FrameIs DEF LinkInv
    <2>3. /\ wire' \in [Sockets -> Seq(AFrame)]
          /\ \A s \in Sockets : Len(wire[s]) \in Nat /\ DOMAIN wire[s] = 1..Len(wire[s])
          /\ \A s \in Sockets \ clients : wire'[s] = wire[s]
          /\ \A s \in Sockets \cap clients :
               /\ DOMAIN wire'[s] = 1..(Len(wire[s]) + 1)
               /\ wire'[s][Len(wire[s]) + 1] = End
               /\ \A i \in DOMAIN wire[s] : wire'[s][i] = wire[s][i]
      BY <2>1, <2>2, BroadcastIs
    <2>4. ASSUME NEW s \in Sockets, NEW i \in DOMAIN wire'[s], wire'[s][i].kind = "event"
          PROVE  i \in DOMAIN wire[s] /\ wire'[s][i] = wire[s][i]
      BY <2>2, <2>3, <2>4
    <2>5. WireInv'
      BY <2>1, <2>3 DEF LinkInv, WireInv
    <2>6. ASSUME NEW s \in Sockets, NEW i \in DOMAIN wire'[s], wire'[s][i].kind = "event"
          PROVE  /\ wire'[s][i].no <= number
                 /\ \A j \in DOMAIN wire'[s] : wire'[s][j].kind = "event" /\ wire'[s][j].no = wire'[s][i].no => j = i
                 /\ ~hasty => (socket[s] \in Live => \A j \in DOMAIN feed : feed[j] # wire'[s][i].no)
      BY <2>4, <2>6 DEF LinkInv, EventInv
    <2>7. EventInv'
      BY <1>0, <2>1, <2>6 DEF LinkInv, EventInv
    <2>8. LinkTypeOK'
      <3>1. LinkRest /\ "restart" \in Acts
        BY WireTypes DEF LinkInv, Acts
      <3>2. left' \in [Acts -> Nat]
        BY <2>1, <3>1, SpendIs DEF LinkRest
      <3>3. recent' \in Seq(Nat) /\ Len(recent') <= Keep
        BY <2>1, EmptySeq, LinkAssumption
      <3>4. LinkRest'
        BY <2>1, <3>1, <3>2, <3>3 DEF LinkRest, pageVars
      <3>. QED
        BY <2>3, <3>4, WireTypesNext
    <2>. QED
      BY <1>0, <2>5, <2>7, <2>8 DEF LinkInv
  <1>2. CASE Boot
    <2>1. running' = TRUE /\ UNCHANGED <<metrics, recent, clients, wire, number, left>>
      BY <1>2 DEF Boot
    <2>2. WireInv' /\ EventInv'
      BY <1>0, <2>1 DEF LinkInv, WireInv, EventInv
    <2>3. LinkTypeOK'
      BY <2>1 DEF LinkInv, LinkTypeOK, pageVars
    <2>. QED
      BY <1>0, <2>2, <2>3 DEF LinkInv
  <1>. QED
    BY <1>1, <1>2

\* A socket is opened when there is none.
LEMMA ConnectKeeps ==
  ASSUME LinkInv, Connect, mounted, closed' = FALSE, timer' \in BOOLEAN, hasty => hasty',
         ~hasty' => ws = NoSocket /\ ~timer',
         UNCHANGED <<clients, wire, feed, number, mounted>>
  PROVE  /\ SocketInv' /\ WireInv' /\ EventInv'
         /\ socket' \in [Sockets -> ASocket] /\ ws' \in Sockets /\ status' = "connecting"
  <1>1. PICK new \in Sockets :
          /\ socket[new] = "closed" /\ ws' = new /\ status' = "connecting"
          /\ socket' = [s \in Sockets |->
               CASE s = new -> "connecting"
                 [] s = ws /\ socket[s] \in Live -> "closing"
                 [] OTHER -> socket[s]]
    BY Zenon DEF Connect
  <1>2. LinkRest /\ wire \in [Sockets -> Seq(AFrame)]
    BY WireTypes DEF LinkInv
  <1>3. /\ socket'[new] = "connecting"
        /\ \A s \in Sockets \ {new} : socket'[s] = IF s = ws /\ socket[s] \in Live THEN "closing" ELSE socket[s]
    <2>. DEFINE to(s) == CASE s = new -> "connecting"
                           [] s = ws /\ socket[s] \in Live -> "closing"
                           [] OTHER -> socket[s]
    <2>1. to(new) = "connecting"
      BY <1>1 DEF Live
    <2>2. ASSUME NEW s \in Sockets \ {new}
          PROVE  to(s) = IF s = ws /\ socket[s] \in Live THEN "closing" ELSE socket[s]
      <3>1. CASE s = ws /\ socket[s] \in Live
        BY <3>1
      <3>2. CASE ~(s = ws /\ socket[s] \in Live)
        BY <3>2
      <3>. QED
        BY <3>1, <3>2
    <2>3. socket' = [s \in Sockets |-> to(s)]
      BY <1>1
    <2>. HIDE DEF to
    <2>4. \A s \in Sockets : socket'[s] = to(s)
      BY <2>3
    <2>. QED
      BY <2>1, <2>2, <2>4
  <1>4. socket' \in [Sockets -> ASocket]
    <2>1. socket \in [Sockets -> ASocket]
      BY <1>2 DEF LinkRest
    <2>2. \A s \in Sockets : socket'[s] \in ASocket
      BY <1>3, <2>1 DEF ASocket, Live
    <2>. QED
      BY <1>1, <2>2
  <1>5. new \notin clients /\ wire[new] = <<>>
    BY <1>1 DEF LinkInv, WireInv
  <1>6. SocketInv'
    <2>1. closed' = ~mounted'
      OBVIOUS
    <2>2. ASSUME ~hasty' PROVE \A s \in Sockets : socket'[s] # "closed" => s = new
      <3>1. ~hasty /\ ws = NoSocket
        BY <2>2
      <3>2. \A s \in Sockets : socket[s] = "closed"
        BY <3>1, LinkAssumption DEF LinkInv, SocketInv
      <3>. QED
        BY <1>3, <3>2 DEF Live
    <2>. QED
      BY <1>1, <2>1, <2>2 DEF SocketInv
  <1>7. WireInv'
    <2>1. ASSUME NEW s \in Sockets, socket'[s] = "closed" PROVE socket[s] = "closed"
      BY <1>3, <2>1
    <2>. QED
      BY <2>1 DEF LinkInv, WireInv
  <1>8. EventInv'
    <2>1. \A i \in DOMAIN feed : feed[i] <= number
      BY DEF LinkInv, EventInv
    <2>2. ~hasty' => \A i, j \in DOMAIN feed : feed[i] = feed[j] => i = j
      BY DEF LinkInv, EventInv
    <2>3. ASSUME NEW s \in Sockets, NEW i \in DOMAIN wire[s], wire[s][i].kind = "event"
          PROVE  /\ wire[s][i].no <= number
                 /\ \A j \in DOMAIN wire[s] : wire[s][j].kind = "event" /\ wire[s][j].no = wire[s][i].no => j = i
      BY <2>3 DEF LinkInv, EventInv
    <2>4. ASSUME ~hasty', NEW s \in Sockets, socket'[s] \in Live, NEW i \in DOMAIN wire[s], wire[s][i].kind = "event"
          PROVE  \A j \in DOMAIN feed : feed[j] # wire[s][i].no
      <3>1. s # new
        BY <1>5, <2>4, EmptySeq
      <3>2. socket[s] \in Live
        BY <1>3, <2>4, <3>1 DEF Live
      <3>. QED
        BY <2>4, <3>2 DEF LinkInv, EventInv
    <2>. QED
      BY <2>1, <2>2, <2>3, <2>4 DEF EventInv
  <1>. QED
    BY <1>1, <1>4, <1>6, <1>7, <1>8

LEMMA TimerKeeps == ASSUME LinkInv, FireTimer PROVE LinkInv'
  <1>1. /\ timer /\ timer' = FALSE /\ Connect
        /\ UNCHANGED <<running, metrics, recent, clients, number, left, wire, closed, mounted, shown, errors, feed, hasty>>
    BY DEF FireTimer, gatewayVars, pageVars
  <1>2. mounted /\ closed = FALSE
    BY <1>1 DEF LinkInv, SocketInv
  <1>3. ~hasty => ws = NoSocket
    BY <1>1 DEF LinkInv, SocketInv
  <1>4. timer' \in BOOLEAN /\ closed' = FALSE
    BY <1>1, <1>2
  <1>5. /\ SocketInv' /\ WireInv' /\ EventInv'
        /\ socket' \in [Sockets -> ASocket] /\ ws' \in Sockets /\ status' = "connecting"
    BY <1>1, <1>2, <1>3, <1>4, ConnectKeeps
  <1>6. LinkTypeOK'
    <2>1. LinkRest /\ wire \in [Sockets -> Seq(AFrame)]
      BY WireTypes DEF LinkInv
    <2>2. LinkRest'
      BY <1>1, <1>5, <2>1 DEF LinkRest
    <2>. QED
      BY <1>1, <2>1, <2>2, WireTypesNext
  <1>. QED
    BY <1>5, <1>6 DEF LinkInv

LEMMA ReconnectKeeps == ASSUME LinkInv, Reconnect PROVE LinkInv'
  <1>1. /\ mounted /\ closed' = FALSE /\ Spend("reconnect")
        /\ UNCHANGED <<running, metrics, recent, clients, number, wire, timer, mounted, shown, errors, feed>>
    BY DEF Reconnect, pageVars
  <1>2. hasty' = (hasty \/ (ws = NoSocket /\ timer))
    BY DEF Reconnect
  <1>3. LinkRest /\ wire \in [Sockets -> Seq(AFrame)]
    BY WireTypes DEF LinkInv
  <1>4. hasty' \in BOOLEAN
    BY <1>2, Zenon
  <1>5. closed = FALSE
    BY <1>1 DEF LinkInv, SocketInv
  <1>6. left' \in [Acts -> Nat]
    <2>1. "reconnect" \in Acts
      BY DEF Acts
    <2>. QED
      BY <1>1, <1>3, <2>1, SpendIs DEF LinkRest
  <1>7. CASE ws # NoSocket
    <2>1. socket' = [socket EXCEPT ![ws] = IF @ \in Live THEN "closing" ELSE @] /\ UNCHANGED <<ws, status>>
      BY <1>7 DEF Reconnect
    <2>2. ws \in Sockets /\ socket \in [Sockets -> ASocket]
      BY <1>3, <1>7 DEF LinkRest
    <2>3. /\ socket'[ws] = IF socket[ws] \in Live THEN "closing" ELSE socket[ws]
          /\ \A s \in Sockets \ {ws} : socket'[s] = socket[s]
      BY <2>1, <2>2
    <2>4. socket' \in [Sockets -> ASocket]
      <3>1. socket'[ws] \in ASocket
        BY <2>2, <2>3 DEF ASocket
      <3>. QED
        BY <2>1, <2>2, <3>1
    <2>5. hasty' <=> hasty
      BY <1>2, <1>7
    <2>6. SocketInv'
      <3>1. ~hasty => (timer => ws = NoSocket)
        BY DEF LinkInv, SocketInv
      <3>2. ~hasty => \A s \in Sockets : socket[s] # "closed" => s = ws
        BY <1>1 DEF LinkInv, SocketInv
      <3>3. ~hasty => \A s \in Sockets : socket'[s] # "closed" => s = ws
        BY <2>3, <3>2
      <3>4. closed' = ~mounted'
        BY <1>1
      <3>. QED
        BY <1>1, <2>1, <2>5, <3>1, <3>3, <3>4 DEF SocketInv
    <2>7. \A s \in Sockets : /\ socket'[s] = "closed" => socket[s] = "closed"
                             /\ socket'[s] \in Live => socket[s] \in Live
      BY <2>3 DEF Live
    <2>8. WireInv'
      BY <1>1, <2>7 DEF LinkInv, WireInv
    <2>9. EventInv'
      BY <1>1, <2>5, <2>7 DEF LinkInv, EventInv
    <2>10. LinkTypeOK'
      <3>1. LinkRest'
        BY <1>1, <1>3, <1>4, <1>6, <2>1, <2>4 DEF LinkRest
      <3>. QED
        BY <1>1, <1>3, <3>1, WireTypesNext
    <2>. QED
      BY <2>6, <2>8, <2>9, <2>10 DEF LinkInv
  <1>8. CASE ws = NoSocket
    <2>1. Connect
      BY <1>8 DEF Reconnect
    <2>2. timer' \in BOOLEAN /\ (~hasty' => ~timer') /\ (hasty => hasty')
      BY <1>1, <1>2, <1>3, <1>8 DEF LinkRest
    <2>3. /\ SocketInv' /\ WireInv' /\ EventInv'
          /\ socket' \in [Sockets -> ASocket] /\ ws' \in Sockets /\ status' = "connecting"
      BY <1>1, <1>8, <2>1, <2>2, ConnectKeeps
    <2>4. LinkTypeOK'
      <3>1. LinkRest'
        BY <1>1, <1>3, <1>4, <1>6, <2>3 DEF LinkRest
      <3>. QED
        BY <1>1, <1>3, <3>1, WireTypesNext
    <2>. QED
      BY <2>3, <2>4 DEF LinkInv
  <1>. QED
    BY <1>7, <1>8

LEMMA UnmountKeeps == ASSUME LinkInv, Unmount PROVE LinkInv'
  <1>1. /\ mounted /\ mounted' = FALSE /\ closed' = TRUE /\ timer' = FALSE /\ ws' = NoSocket /\ Spend("unmount")
        /\ socket' = [s \in Sockets |-> IF s = ws /\ socket[s] \in Live THEN "closing" ELSE socket[s]]
        /\ UNCHANGED <<running, metrics, recent, clients, number, wire, status, shown, errors, feed, hasty>>
    BY DEF Unmount
  <1>2. LinkRest /\ wire \in [Sockets -> Seq(AFrame)] /\ "unmount" \in Acts
    BY WireTypes DEF LinkInv, Acts
  <1>3. left' \in [Acts -> Nat]
    BY <1>1, <1>2, SpendIs DEF LinkRest
  <1>4. \A s \in Sockets : socket'[s] = IF s = ws /\ socket[s] \in Live THEN "closing" ELSE socket[s]
    BY <1>1
  <1>5. socket' \in [Sockets -> ASocket]
    <2>1. socket \in [Sockets -> ASocket]
      BY <1>2 DEF LinkRest
    <2>2. \A s \in Sockets : socket'[s] \in ASocket
      BY <1>4, <2>1 DEF ASocket
    <2>. QED
      BY <1>1, <2>2
  <1>6. SocketInv'
    <2>1. ~hasty => \A s \in Sockets : socket[s] # "closed" => s = ws
      BY <1>1 DEF LinkInv, SocketInv
    <2>2. ~hasty => \A s \in Sockets : socket'[s] \notin Live
      BY <1>4, <2>1 DEF Live
    <2>. QED
      BY <1>1, <2>2 DEF SocketInv
  <1>7. \A s \in Sockets : /\ socket'[s] = "closed" => socket[s] = "closed"
                           /\ socket'[s] \in Live => socket[s] \in Live
    BY <1>4 DEF Live
  <1>8. WireInv'
    BY <1>1, <1>7 DEF LinkInv, WireInv
  <1>9. EventInv'
    BY <1>1, <1>7 DEF LinkInv, EventInv
  <1>10. LinkTypeOK'
    <2>1. LinkRest'
      BY <1>1, <1>2, <1>3, <1>5 DEF LinkRest
    <2>. QED
      BY <1>1, <1>2, <2>1, WireTypesNext
  <1>. QED
    BY <1>6, <1>8, <1>9, <1>10 DEF LinkInv

LEMMA EndKeeps == ASSUME LinkInv, NEW s \in Sockets, OnClose(s) PROVE LinkInv'
  <1>1. /\ Ends(s) /\ socket' = [socket EXCEPT ![s] = "closed"] /\ wire' = [wire EXCEPT ![s] = <<>>]
        /\ ws' = NoSocket /\ status' = "disconnected" /\ timer' = (timer \/ ~closed)
        /\ errors' \in {errors, Push(errors, Local)}
        /\ UNCHANGED <<running, metrics, recent, clients, number, left, closed, mounted, shown, feed, hasty>>
    BY DEF OnClose, ScheduleReconnect, gatewayVars
  <1>2. LinkRest /\ wire \in [Sockets -> Seq(AFrame)]
    BY WireTypes DEF LinkInv
  <1>3. socket' \in [Sockets -> ASocket] /\ socket'[s] = "closed" /\ \A r \in Sockets \ {s} : socket'[r] = socket[r]
    BY <1>1, <1>2 DEF LinkRest, ASocket
  <1>4. socket[s] # "closed"
    BY <1>1 DEF Ends, Live
  <1>5. s \notin clients
    <2>1. CASE wire[s] # <<>> /\ Head(wire[s]) = End
      <3>1. 1 \in DOMAIN wire[s] /\ wire[s][1] = End
        BY <1>2, <2>1, RestIs
      <3>. QED
        BY <3>1 DEF LinkInv, WireInv
    <2>. QED
      BY <1>1, <2>1 DEF Ends
  <1>6. <<>> \in Seq(AFrame) /\ DOMAIN <<>> = {}
    OBVIOUS
  <1>7. wire' \in [Sockets -> Seq(AFrame)] /\ EventInv'
    BY <1>1, <1>3, <1>6, WireSet
  <1>8. WireInv'
    <2>1. wire'[s] = <<>> /\ \A r \in Sockets \ {s} : wire'[r] = wire[r]
      BY <1>1, <1>2
    <2>. QED
      BY <1>1, <1>3, <1>5, <2>1 DEF LinkInv, WireInv
  <1>9. SocketInv'
    <2>1. ~mounted => ~timer'
      BY <1>1 DEF LinkInv, SocketInv
    <2>2. ~hasty => (mounted => \A r \in Sockets : socket'[r] # "closed" => r = ws')
      <3>1. ASSUME ~hasty, mounted PROVE \A r \in Sockets : socket[r] # "closed" => r = s
        BY <1>4, <3>1 DEF LinkInv, SocketInv
      <3>. QED
        BY <1>3, <3>1
    <2>3. ~hasty => (~mounted => \A r \in Sockets : socket'[r] \notin Live)
      BY <1>3 DEF LinkInv, SocketInv, Live
    <2>4. closed' = ~mounted'
      BY <1>1 DEF LinkInv, SocketInv
    <2>. QED
      BY <1>1, <2>1, <2>2, <2>3, <2>4 DEF SocketInv
  <1>10. errors' \in Seq(Nat) /\ Len(errors') <= Keep
    <2>1. errors \in Seq(Nat) /\ Len(errors) <= Keep /\ Local \in Nat
      BY <1>2 DEF LinkRest, Local
    <2>2. Newest(<<Local>> \o errors) \in Seq(Nat) /\ Len(Newest(<<Local>> \o errors)) <= Keep
      BY <2>1, NewestIs
    <2>3. errors' = errors \/ errors' = Newest(<<Local>> \o errors)
      BY <1>1, Zenon DEF Push
    <2>. QED
      BY <2>1, <2>2, <2>3
  <1>11. timer' \in BOOLEAN
    BY <1>1, Zenon
  <1>12. LinkTypeOK'
    <2>1. LinkRest'
      BY <1>1, <1>2, <1>3, <1>10, <1>11 DEF LinkRest
    <2>. QED
      BY <1>7, <2>1, WireTypesNext
  <1>. QED
    BY <1>7, <1>8, <1>9, <1>12 DEF LinkInv

\* What the frame a page takes changes there.
LEMMA TakeIs ==
  ASSUME LinkInv, NEW frame \in AFrame, Take(frame)
  PROVE  /\ shown' \in [Queues -> Nat] /\ errors' \in Seq(Nat) /\ Len(errors') <= Keep /\ feed' \in Seq(Nat)
         /\ mounted' = mounted
         /\ feed' = IF mounted /\ frame.kind = "event" THEN <<frame.no>> \o feed ELSE feed
  <1>1. /\ shown' = IF mounted /\ frame.kind = "metrics"
                      THEN [shown EXCEPT ![frame.about] = frame.no] ELSE shown
        /\ errors' = IF frame.kind = "error" THEN Push(errors, frame.no) ELSE errors
        /\ feed' = IF mounted /\ frame.kind = "event" THEN <<frame.no>> \o feed ELSE feed
        /\ mounted' = mounted
    BY DEF Take
  <1>2. shown \in [Queues -> Nat] /\ errors \in Seq(Nat) /\ Len(errors) <= Keep /\ feed \in Seq(Nat)
    BY WireTypes DEF LinkInv, LinkRest
  <1>3. frame.no \in Nat
    BY DEF AFrame
  <1>4. shown' \in [Queues -> Nat]
    BY <1>1, <1>2, <1>3
  <1>5. errors' \in Seq(Nat) /\ Len(errors') <= Keep
    <2>1. Newest(<<frame.no>> \o errors) \in Seq(Nat) /\ Len(Newest(<<frame.no>> \o errors)) <= Keep
      BY <1>2, <1>3, NewestIs
    <2>2. errors' = errors \/ errors' = Newest(<<frame.no>> \o errors)
      BY <1>1, Zenon DEF Push
    <2>. QED
      BY <1>2, <2>1, <2>2
  <1>6. feed' \in Seq(Nat)
    <2>1. <<frame.no>> \o feed \in Seq(Nat)
      BY <1>2, <1>3, FirstIs
    <2>2. feed' = feed \/ feed' = <<frame.no>> \o feed
      BY <1>1, Zenon
    <2>. QED
      BY <1>2, <2>1, <2>2
  <1>. QED
    BY <1>1, <1>4, <1>5, <1>6

LEMMA ReceiveKeeps == ASSUME LinkInv, NEW s \in Sockets, Receive(s) PROVE LinkInv'
  <1>1. /\ wire[s] # <<>> /\ wire' = [wire EXCEPT ![s] = Tail(@)]
        /\ UNCHANGED <<running, metrics, recent, clients, number, left, ws, timer, closed, hasty>>
    BY DEF Receive, gatewayVars
  <1>2. LinkRest /\ wire \in [Sockets -> Seq(AFrame)]
    BY WireTypes DEF LinkInv
  <1>. DEFINE q == wire[s]
              frame == Head(q)
  <1>3. /\ Len(q) \in Nat /\ DOMAIN q = 1..Len(q) /\ 1 \in DOMAIN q /\ frame = q[1] /\ frame \in AFrame
        /\ Tail(q) \in Seq(AFrame) /\ DOMAIN Tail(q) = 1..(Len(q) - 1)
        /\ \A i \in DOMAIN Tail(q) : i + 1 \in DOMAIN q /\ i + 1 # 1 /\ Tail(q)[i] = q[i + 1]
    BY <1>1, <1>2, RestIs
  <1>4. /\ wire' \in [Sockets -> Seq(AFrame)] /\ wire'[s] = Tail(q)
        /\ \A r \in Sockets \ {s} : wire'[r] = wire[r]
    <2>1. wire' = [wire EXCEPT ![s] = Tail(q)]
      BY <1>1
    <2>. HIDE DEF q
    <2>. QED
      BY <1>2, <1>3, <2>1
  <1>5. /\ mounted' = mounted
        /\ shown' \in [Queues -> Nat] /\ errors' \in Seq(Nat) /\ Len(errors') <= Keep /\ feed' \in Seq(Nat)
        /\ status' \in {"connecting", "connected", "disconnected"}
        /\ \/ socket[s] = "connecting" /\ frame = Opened /\ socket' = [socket EXCEPT ![s] = "open"] /\ feed' = feed
           \/ /\ socket[s] = "open" /\ socket' = socket
              /\ feed' = IF mounted /\ frame.kind = "event" THEN <<frame.no>> \o feed ELSE feed
    <2>1. CASE socket[s] = "open" /\ Take(frame) /\ UNCHANGED <<socket, status>>
      <3>. HIDE DEF frame
      <3>1. /\ mounted' = mounted
            /\ shown' \in [Queues -> Nat] /\ errors' \in Seq(Nat) /\ Len(errors') <= Keep /\ feed' \in Seq(Nat)
            /\ feed' = IF mounted /\ frame.kind = "event" THEN <<frame.no>> \o feed ELSE feed
        BY <1>3, <2>1, TakeIs
      <3>. QED
        BY <1>2, <2>1, <3>1 DEF LinkRest
    <2>2. CASE socket[s] = "connecting" /\ frame = Opened /\ socket' = [socket EXCEPT ![s] = "open"]
               /\ status' = "connected" /\ UNCHANGED pageVars
      BY <1>2, <2>2 DEF LinkRest, pageVars
    <2>. QED
      BY <2>1, <2>2 DEF Receive
  <1>6. /\ socket' \in [Sockets -> ASocket] /\ socket[s] \in Live /\ socket'[s] \in Live
        /\ \A r \in Sockets \ {s} : socket'[r] = socket[r]
    <2>1. socket \in [Sockets -> ASocket] /\ "open" \in ASocket
      BY <1>2 DEF LinkRest, ASocket, Live
    <2>. HIDE DEF frame
    <2>. QED
      BY <1>5, <2>1 DEF Live
  <1>. HIDE DEF frame
  <1>7. LinkTypeOK'
    <2>1. LinkRest'
      BY <1>1, <1>2, <1>5, <1>6 DEF LinkRest
    <2>. QED
      BY <1>4, <2>1, WireTypesNext
  <1>8. \A r \in Sockets : socket'[r] # "closed" <=> socket[r] # "closed"
    BY <1>6 DEF Live
  <1>9. SocketInv'
    <2>1. \A r \in Sockets : socket'[r] \in Live <=> socket[r] \in Live
      BY <1>6
    <2>. QED
      BY <1>1, <1>5, <1>8, <2>1 DEF LinkInv, SocketInv
  <1>10. WireInv'
    <2>1. ASSUME s \in clients, NEW i \in DOMAIN Tail(q) PROVE Tail(q)[i] # End
      BY <1>3, <2>1 DEF LinkInv, WireInv
    <2>2. socket'[s] # "closed"
      BY <1>6 DEF Live
    <2>. HIDE DEF q
    <2>. QED
      BY <1>1, <1>4, <1>6, <2>1, <2>2 DEF LinkInv, WireInv
  <1>11. ASSUME NEW i \in DOMAIN Tail(q), Tail(q)[i].kind = "event"
         PROVE  /\ Tail(q)[i].no <= number
                /\ \A j \in DOMAIN Tail(q) : Tail(q)[j].kind = "event" /\ Tail(q)[j].no = Tail(q)[i].no => j = i
                /\ frame.kind = "event" => frame.no # Tail(q)[i].no
                /\ ~hasty => \A j \in DOMAIN feed : feed[j] # Tail(q)[i].no
    <2>1. i + 1 \in DOMAIN q /\ q[i + 1].kind = "event" /\ Tail(q)[i] = q[i + 1] /\ i + 1 # 1
      BY <1>3, <1>11
    <2>2. /\ q[i + 1].no <= number
          /\ \A j \in DOMAIN q : q[j].kind = "event" /\ q[j].no = q[i + 1].no => j = i + 1
      BY <2>1 DEF LinkInv, EventInv
    <2>3. \A j \in DOMAIN Tail(q) : Tail(q)[j].kind = "event" /\ Tail(q)[j].no = Tail(q)[i].no => j = i
      BY <1>3, <2>1, <2>2
    <2>4. ~hasty => \A j \in DOMAIN feed : feed[j] # q[i + 1].no
      BY <1>6, <2>1 DEF LinkInv, EventInv
    <2>5. frame.kind = "event" => frame.no # q[i + 1].no
      BY <1>3, <2>1, <2>2
    <2>. QED
      BY <2>1, <2>2, <2>3, <2>4, <2>5
  <1>12. frame.kind = "event" => /\ frame.no <= number
                                 /\ ~hasty => \A j \in DOMAIN feed : feed[j] # frame.no
    BY <1>3, <1>6 DEF LinkInv, EventInv
  <1>13. /\ feed \in Seq(Nat) /\ number \in Nat /\ frame.no \in Nat
         /\ \A i \in DOMAIN feed : feed[i] <= number
         /\ ~hasty => \A i, j \in DOMAIN feed : feed[i] = feed[j] => i = j
    BY <1>2, <1>3 DEF LinkRest, AFrame, LinkInv, EventInv
  <1>14. \A r \in Sockets : socket'[r] \in Live <=> socket[r] \in Live
    BY <1>6
  <1>15. ~hasty => \A r \in Sockets : socket[r] \in Live => r = s
    BY <1>6 DEF LinkInv, SocketInv, Live
  <1>16. ASSUME NEW r \in Sockets, NEW i \in DOMAIN wire'[r], wire'[r][i].kind = "event"
         PROVE  /\ wire'[r][i].no <= number
                /\ \A j \in DOMAIN wire'[r] : wire'[r][j].kind = "event" /\ wire'[r][j].no = wire'[r][i].no => j = i
    <2>1. CASE r = s
      <3>. HIDE DEF q
      <3>. QED
        BY <1>4, <1>11, <1>16, <2>1
    <2>2. CASE r # s
      BY <1>4, <1>16, <2>2 DEF LinkInv, EventInv
    <2>. QED
      BY <2>1, <2>2
  <1>17. CASE feed' = feed
    <2>1. ASSUME ~hasty, NEW r \in Sockets, socket[r] \in Live, NEW i \in DOMAIN wire'[r], wire'[r][i].kind = "event"
          PROVE  \A j \in DOMAIN feed : feed[j] # wire'[r][i].no
      <3>1. r = s
        BY <1>15, <2>1
      <3>. HIDE DEF q
      <3>. QED
        BY <1>4, <1>11, <2>1, <3>1
    <2>2. EventInv'
      BY <1>1, <1>13, <1>14, <1>16, <1>17, <2>1 DEF EventInv
    <2>. QED
      BY <1>7, <1>9, <1>10, <2>2 DEF LinkInv
  <1>18. CASE frame.kind = "event" /\ feed' = <<frame.no>> \o feed
    <2>1. /\ Len(feed) \in Nat /\ DOMAIN feed = 1..Len(feed) /\ DOMAIN feed' = 1..(Len(feed) + 1)
          /\ feed'[1] = frame.no /\ \A i \in 2..(Len(feed) + 1) : feed'[i] = feed[i - 1]
      BY <1>13, <1>18, FirstIs
    <2>2. ASSUME NEW i \in DOMAIN feed'
          PROVE  \/ i = 1 /\ feed'[i] = frame.no
                 \/ i - 1 \in DOMAIN feed /\ feed'[i] = feed[i - 1] /\ i \in Nat
      BY <2>1, <2>2
    <2>3. \A i \in DOMAIN feed' : feed'[i] <= number
      BY <1>12, <1>13, <1>18, <2>2
    <2>4. ASSUME ~hasty, NEW i \in DOMAIN feed', NEW j \in DOMAIN feed', feed'[i] = feed'[j] PROVE i = j
      <3>1. i \in Nat /\ j \in Nat
        BY <2>1
      <3>2. CASE i = 1
        BY <1>12, <1>18, <2>2, <2>4, <3>2
      <3>3. CASE j = 1
        BY <1>12, <1>18, <2>2, <2>4, <3>3
      <3>4. CASE i # 1 /\ j # 1
        <4>1. i - 1 \in DOMAIN feed /\ j - 1 \in DOMAIN feed /\ feed[i - 1] = feed[j - 1]
          BY <2>2, <2>4, <3>4
        <4>2. i - 1 = j - 1
          BY <1>13, <2>4, <4>1
        <4>. QED
          BY <3>1, <4>2
      <3>. QED
        BY <3>2, <3>3, <3>4
    <2>5. ASSUME ~hasty, NEW r \in Sockets, socket[r] \in Live, NEW i \in DOMAIN wire'[r], wire'[r][i].kind = "event",
                 NEW j \in DOMAIN feed'
          PROVE  feed'[j] # wire'[r][i].no
      <3>1. r = s
        BY <1>15, <2>5
      <3>2. wire'[r] = Tail(q)
        BY <1>4, <3>1
      <3>. HIDE DEF q
      <3>3. /\ frame.no # wire'[r][i].no
            /\ \A k \in DOMAIN feed : feed[k] # wire'[r][i].no
        BY <1>11, <1>18, <2>5, <3>2
      <3>. QED
        BY <2>2, <3>3
    <2>6. EventInv'
      BY <1>1, <1>14, <1>16, <2>3, <2>4, <2>5 DEF EventInv
    <2>. QED
      BY <1>7, <1>9, <1>10, <2>6 DEF LinkInv
  <1>. QED
    BY <1>5, <1>17, <1>18

\* The link at first.
LEMMA LinkStart == ASSUME NEW bounds \in [Acts -> Nat], LinkInit(bounds) PROVE LinkInv
  <1>. DEFINE first == CHOOSE s \in Sockets : TRUE
  <1>1. first \in Sockets
    BY LinkAssumption
  <1>. HIDE DEF first
  <1>2. /\ running = TRUE /\ metrics = [q \in Queues |-> 0] /\ recent = <<>>
        /\ clients = {} /\ wire = [s \in Sockets |-> <<>>]
        /\ socket = [s \in Sockets |-> IF s = first THEN "connecting" ELSE "closed"]
        /\ ws = first /\ timer = FALSE /\ closed = FALSE /\ status = "connecting"
        /\ mounted = TRUE
        /\ shown = [q \in Queues |-> 0] /\ errors = <<>> /\ feed = <<>>
        /\ number = 0 /\ left = bounds /\ hasty = FALSE
    BY DEF LinkInit, first
  <1>3. /\ <<>> \in Seq(Nat) /\ Len(<<>>) = 0 /\ <<>> \in Seq(AFrame) /\ DOMAIN <<>> = {}
        /\ Keep \in Nat
    BY LinkAssumption
  <1>4. LinkRest
    <2>1. socket \in [Sockets -> ASocket]
      BY <1>2 DEF ASocket, Live
    <2>2. metrics \in [Queues -> Nat] /\ shown \in [Queues -> Nat]
      BY <1>2
    <2>3. /\ recent \in Seq(Nat) /\ Len(recent) <= Keep /\ errors \in Seq(Nat) /\ Len(errors) <= Keep
          /\ feed \in Seq(Nat)
      BY <1>2, <1>3, LinkAssumption
    <2>4. left \in [Acts -> Nat] /\ clients \subseteq Sockets /\ ws \in Sockets
      BY <1>1, <1>2
    <2>. QED
      BY <1>2, <2>1, <2>2, <2>3, <2>4 DEF LinkRest
  <1>5. \A s \in Sockets : wire[s] = <<>>
    BY <1>2
  <1>6. LinkTypeOK
    <2>1. wire \in [Sockets -> Seq(AFrame)]
      BY <1>2, <1>3
    <2>. QED
      BY <1>4, <2>1, WireTypes
  <1>7. SocketInv /\ WireInv
    BY <1>2, <1>3, <1>5 DEF SocketInv, WireInv
  <1>8. EventInv
    BY <1>2, <1>3, <1>5 DEF EventInv
  <1>. QED
    BY <1>6, <1>7, <1>8 DEF LinkInv

\* Every step of the link keeps its invariant.
LEMMA LinkKept == LinkInv /\ [LinkNext]_linkVars => LinkInv'
  <1>. SUFFICES ASSUME LinkInv, [LinkNext]_linkVars PROVE LinkInv'
    OBVIOUS
  <1>1. ASSUME NEW s \in Sockets, HandleUpgrade(s) \/ HandleClose(s),
               UNCHANGED <<socket, ws, timer, closed, status, pageVars, hasty>>
        PROVE  LinkInv'
    BY <1>1, GatewayKeeps
  <1>2. ASSUME NEW s \in Sockets, Receive(s) \/ OnClose(s) PROVE LinkInv'
    BY <1>2, ReceiveKeeps, EndKeeps
  <1>3. CASE FireTimer
    BY <1>3, TimerKeeps
  <1>4. CASE GatewayActs
    <2>1. UNCHANGED <<socket, ws, timer, closed, status, pageVars, hasty>>
      BY <1>4 DEF GatewayActs
    <2>2. \/ \E q \in Queues : BroadcastQueueMetrics(q)
          \/ BroadcastSystemError \/ BroadcastEvent \/ Restart \/ Boot
          \/ \E s \in Sockets : Break(s)
      BY <1>4 DEF GatewayActs
    <2>. QED
      BY <2>1, <2>2, ReportKeeps, ErrorKeeps, EventKeeps, RestartKeeps, GatewayKeeps
  <1>5. CASE Reconnect
    BY <1>5, ReconnectKeeps
  <1>6. CASE Unmount
    BY <1>6, UnmountKeeps
  <1>7. CASE UNCHANGED linkVars
    <2>1. LinkTypeOK'
      BY <1>7 DEF LinkInv, LinkTypeOK, linkVars
    <2>2. SocketInv' /\ WireInv' /\ EventInv'
      BY <1>7 DEF LinkInv, SocketInv, WireInv, EventInv, linkVars
    <2>. QED
      BY <2>1, <2>2 DEF LinkInv
  <1>. QED
    BY <1>1, <1>2, <1>3, <1>4, <1>5, <1>6, <1>7 DEF LinkNext, LinkStep

\* One socket at a time, no attempt after the client was closed, and no event twice.
LEMMA LinkFollows == LinkInv => OneLinkHasCause
  <1>. SUFFICES ASSUME LinkInv, ~hasty PROVE OneLinkHasCause
    BY DEF OneLinkHasCause
  <1>1. \A s \in Sockets : socket[s] \in Live => s = ws
    BY DEF LinkInv, SocketInv, Live
  <1>2. ~mounted => ~timer
    BY DEF LinkInv, SocketInv
  <1>3. \A i, j \in DOMAIN feed : feed[i] = feed[j] => i = j
    BY DEF LinkInv, EventInv
  <1>. QED
    BY <1>1, <1>2, <1>3 DEF OneLinkHasCause

-----------------------------------------------------------------------------
(* The pages that list what the server has.                                  *)

\* What each request is about.
CallInv ==
  \A c \in calls :
    /\ c.visit <= visit
    /\ c.visit = visit => c.page = page
    /\ c.kind # "load" => ~c.dropped /\ c.item \in Items /\ c.page # "audit"
    /\ c.kind = "drop" => c.page = "settings"

\* Of a page that is not mixed: every change under way is its own, a load that it waits for is the only
\* request it waits for, and no two changes are of one row.
SoleInv ==
  ~mixed =>
    /\ \A c \in calls : c.kind # "load" => c.visit = visit /\ c.scope = scope /\ c.kind # "aside"
    /\ \A c \in Awaited(calls) : c.kind = "load" => c.scope = scope /\ \A d \in Awaited(calls) : d = c
    /\ \A c, d \in Awaited(calls) : c.item = d.item => c = d

\* What the server has answered is what it has.
GaveInv ==
  ~mixed =>
    \A c \in Awaited(calls) : c.served =>
      IF c.kind = "load" THEN c.gave = Answered(page, scope)
                         ELSE c.gave[c.item] = Answered(page, scope)[c.item]

\* A page that waits for no load shows what the server has, but for the rows whose change it waits for.
ListInv ==
  ~mixed /\ ~failed /\ (\A c \in Awaited(calls) : c.kind # "load") =>
    /\ \A i \in Items :
         \/ \E c \in Awaited(calls) : c.item = i /\ c.served
         \/ rows[i] = Answered(page, scope)[i]
    /\ \A c \in Awaited(calls) : c.kind = "put" /\ c.served /\ page # "settings" => rows[c.item] # 0

PagesInv == AdminTypeOK /\ CallInv /\ SoleInv /\ GaveInv /\ ListInv

LEMMA CallIs ==
  \A c \in Call :
    /\ [c EXCEPT !.dropped = TRUE] \in Call /\ [c EXCEPT !.dropped = TRUE].dropped
    /\ [c EXCEPT !.dropped = TRUE].visit = c.visit /\ [c EXCEPT !.dropped = TRUE].page = c.page
    /\ [c EXCEPT !.dropped = TRUE].kind = c.kind
    /\ \A g \in Rows :
         LET d == [c EXCEPT !.served = TRUE, !.gave = g] IN
         /\ d \in Call /\ d.served /\ d.gave = g
         /\ d.visit = c.visit /\ d.page = c.page /\ d.kind = c.kind /\ d.scope = c.scope
         /\ d.item = c.item /\ d.hold = c.hold /\ d.dropped = c.dropped
  BY DEF Call

LEMMA NewCallIs ==
  ASSUME asked \in Nat, NEW v \in Nat, NEW p \in Pages, NEW t \in Tenants, NEW kind \in Kinds,
         NEW item \in Items \cup {Nothing}, NEW hold \in Controls
  PROVE  LET d == NewCall(v, p, t, kind, item, hold) IN
         /\ d \in Call /\ ~d.served /\ ~d.dropped
         /\ d.visit = v /\ d.page = p /\ d.kind = kind /\ d.scope = t /\ d.item = item
  BY DEF NewCall, Call, NoRows, Rows

\* What a load leaves of the requests: all of them, with loads of the products dropped.
LEMMA CancelledIs ==
  ASSUME NEW C \in SUBSET Call, NEW p
  PROVE  \A d \in Cancelled(C, p) :
           d \in Call /\ \E c \in C : /\ d = c \/ (d.dropped /\ d.kind = "load")
                                      /\ d.visit = c.visit /\ d.page = c.page /\ d.kind = c.kind
  <1>. SUFFICES ASSUME NEW d \in Cancelled(C, p)
       PROVE  d \in Call /\ \E c \in C : /\ d = c \/ (d.dropped /\ d.kind = "load")
                                         /\ d.visit = c.visit /\ d.page = c.page /\ d.kind = c.kind
    OBVIOUS
  <1>1. PICK c \in C : d = IF p = "products" /\ c.kind = "load" THEN [c EXCEPT !.dropped = TRUE] ELSE c
    BY DEF Cancelled
  <1>2. CASE p = "products" /\ c.kind = "load"
    BY <1>1, <1>2, CallIs
  <1>3. CASE ~(p = "products" /\ c.kind = "load")
    BY <1>1, <1>3
  <1>. QED
    BY <1>2, <1>3

\* After a load was asked for, the page waits for it, and if it is not mixed, for nothing else.
LEMMA AskLoadKeeps ==
  ASSUME PagesInv, NEW C \in SUBSET calls, NEW hold \in Controls, AskLoad(C, visit', page', scope', hold),
         (visit' = visit /\ page' = page) \/ visit' = visit + 1,
         page' \in Pages, scope' \in Tenants
  PROVE  calls' \subseteq Call /\ asked' \in Nat /\ mixed' \in BOOLEAN /\ failed' \in BOOLEAN
         /\ CallInv' /\ SoleInv' /\ GaveInv' /\ ListInv'
  <1>. DEFINE new    == NewCall(visit', page', scope', "load", Nothing, hold)
              others == Cancelled(C, page')
  <1>1. calls' = others \cup {new} /\ asked' = asked + 1 /\ failed' = FALSE
        /\ mixed' = (\E c \in others : ~c.dropped /\ (c.visit = visit' \/ c.kind # "load"))
    BY DEF AskLoad
  <1>2. visit \in Nat /\ visit' \in Nat /\ asked \in Nat /\ calls \subseteq Call
    BY DEF PagesInv, AdminTypeOK
  <1>3. new \in Call /\ ~new.served /\ ~new.dropped /\ new.visit = visit' /\ new.page = page'
        /\ new.kind = "load" /\ new.scope = scope'
    BY <1>2, NewCallIs DEF Kinds
  <1>4. \A d \in others :
          d \in Call /\ \E c \in C : /\ d = c \/ (d.dropped /\ d.kind = "load")
                                     /\ d.visit = c.visit /\ d.page = c.page /\ d.kind = c.kind
    BY <1>2, CancelledIs
  <1>. HIDE DEF new, others
  <1>5. CallInv'
    <2>. SUFFICES ASSUME NEW d \in calls'
         PROVE  /\ d.visit <= visit'
                /\ d.visit = visit' => d.page = page'
                /\ d.kind # "load" => ~d.dropped /\ d.item \in Items /\ d.page # "audit"
                /\ d.kind = "drop" => d.page = "settings"
      BY DEF CallInv
    <2>1. CASE d = new
      BY <1>2, <1>3, <2>1
    <2>2. CASE d \in others
      <3>1. PICK c \in C : /\ d = c \/ (d.dropped /\ d.kind = "load")
                           /\ d.visit = c.visit /\ d.page = c.page /\ d.kind = c.kind
        BY <1>4, <2>2
      <3>2. /\ c.visit <= visit
            /\ c.visit = visit => c.page = page
            /\ c.kind # "load" => ~c.dropped /\ c.item \in Items /\ c.page # "audit"
            /\ c.kind = "drop" => c.page = "settings"
        BY DEF PagesInv, CallInv
      <3>3. c.visit \in Nat
        BY <1>2 DEF Call
      <3>. QED
        BY <1>2, <3>1, <3>2, <3>3
    <2>. QED
      BY <1>1, <2>1, <2>2
  <1>6. ASSUME ~mixed' PROVE Awaited(calls)' = {new} /\ \A c \in calls' : c.kind = "load"
    <2>1. \A c \in others : c.dropped \/ (c.visit # visit' /\ c.kind = "load")
      BY <1>1, <1>6
    <2>2. \A c \in others : c.kind = "load"
      <3>. SUFFICES ASSUME NEW d \in others, d.dropped PROVE d.kind = "load"
        BY <2>1
      <3>1. PICK c \in C : d = c \/ (d.dropped /\ d.kind = "load")
        BY <1>4
      <3>. QED
        BY <3>1 DEF PagesInv, CallInv
    <2>. QED
      BY <1>1, <1>3, <2>1, <2>2 DEF Awaited
  <1>7. SoleInv'
    BY <1>3, <1>6 DEF SoleInv
  <1>8. GaveInv'
    BY <1>3, <1>6 DEF GaveInv
  <1>9. ListInv'
    BY <1>3, <1>6 DEF ListInv
  <1>10. mixed' \in BOOLEAN
    BY <1>1, Zenon
  <1>11. calls' \subseteq Call
    BY <1>1, <1>3, <1>4
  <1>12. asked' \in Nat /\ failed' \in BOOLEAN
    <2>1. failed' \in BOOLEAN
      BY <1>1, Zenon
    <2>2. asked' = asked + 1
      BY <1>1, Zenon
    <2>3. asked' \in Nat
      BY <1>2, <2>2
    <2>. QED
      BY <2>1, <2>3
  <1>. QED
    BY <1>5, <1>7, <1>8, <1>9, <1>10, <1>11, <1>12, Zenon

\* After a change was asked for: a page that is not mixed waits for no load and no other change of that row.
LEMMA AskChangeKeeps ==
  ASSUME PagesInv, NEW kind \in Kinds \ {"load"}, NEW i \in Items, NEW hold \in Controls,
         AskChange(kind, i, hold), page # "audit", kind = "drop" => page = "settings"
  PROVE  AdminTypeOK' /\ CallInv' /\ SoleInv' /\ GaveInv' /\ ListInv'
  <1>. DEFINE new == NewCall(visit, page, scope, kind, i, hold)
  <1>1. calls' = calls \cup {new} /\ asked' = asked + 1
        /\ mixed' = (mixed \/ kind = "aside" \/ \E c \in Awaited(calls) : c.kind = "load" \/ c.item = i)
        /\ UNCHANGED <<db, scope, page, visit, rows, editing, failed>>
        /\ marker' = IF hold = "none" THEN marker ELSE [marker EXCEPT ![hold] = i]
    BY DEF AskChange
  <1>. USE DEF PagesInv
  <1>2. visit \in Nat /\ asked \in Nat /\ calls \subseteq Call /\ page \in Pages /\ scope \in Tenants
    BY DEF AdminTypeOK
  <1>3. new \in Call /\ ~new.served /\ ~new.dropped /\ new.visit = visit /\ new.page = page
        /\ new.kind = kind /\ new.scope = scope /\ new.item = i
    BY <1>2, NewCallIs
  <1>. HIDE DEF new
  <1>4. Awaited(calls)' = Awaited(calls) \cup {new}
    BY <1>1, <1>3 DEF Awaited
  <1>5. mixed' \in BOOLEAN
    BY <1>1, Zenon DEF AdminTypeOK
  <1>6. AdminTypeOK'
    BY <1>1, <1>2, <1>3, <1>5 DEF AdminTypeOK
  <1>7. CallInv'
    BY <1>1, <1>2, <1>3 DEF CallInv
  <1>8. ~mixed' => ~mixed /\ kind # "aside" /\ \A c \in Awaited(calls) : c.kind # "load" /\ c.item # i
    BY <1>1
  <1>9. SoleInv'
    BY <1>1, <1>3, <1>4, <1>8 DEF SoleInv
  <1>10. Answered(page, scope)' = Answered(page, scope)
    BY <1>1 DEF Answered
  <1>11. GaveInv'
    BY <1>1, <1>3, <1>4, <1>8, <1>10 DEF GaveInv
  <1>12. ListInv'
    BY <1>1, <1>3, <1>4, <1>8, <1>10 DEF ListInv
  <1>. QED
    BY <1>6, <1>7, <1>9, <1>11, <1>12

\* A request that is gone, without an effect: nobody waited for it, the server did nothing, or it is noted
\* as failed.
LEMMA GoneKeeps ==
  ASSUME PagesInv, NEW c \in calls, calls' = calls \ {c}, UNCHANGED <<db, scope, page, visit, rows, mixed>>,
         failed => failed',
         c \in Awaited(calls) => failed' \/ (c.kind # "load" /\ ~c.served)
  PROVE  CallInv' /\ SoleInv' /\ GaveInv' /\ ListInv'
  <1>. USE DEF PagesInv
  <1>1. Awaited(calls)' = Awaited(calls) \ {c}
    BY DEF Awaited
  <1>2. Answered(page, scope)' = Answered(page, scope)
    BY DEF Answered
  <1>3. CallInv'
    BY DEF CallInv
  <1>4. SoleInv'
    BY <1>1 DEF SoleInv
  <1>5. GaveInv'
    BY <1>1, <1>2 DEF GaveInv
  <1>6. ListInv'
    <2>. SUFFICES ASSUME ~mixed, ~failed', \A d \in Awaited(calls) \ {c} : d.kind # "load"
         PROVE  /\ \A i \in Items : \/ \E d \in Awaited(calls) \ {c} : d.item = i /\ d.served
                                    \/ rows[i] = Answered(page, scope)[i]
                /\ \A d \in Awaited(calls) : d.kind = "put" /\ d.served /\ page # "settings" => rows[d.item] # 0
      BY <1>1, <1>2 DEF ListInv
    <2>1. \A d \in Awaited(calls) : d.kind # "load"
      OBVIOUS
    <2>2. c \in Awaited(calls) => ~c.served
      OBVIOUS
    <2>. QED
      BY <2>1, <2>2 DEF ListInv
  <1>. QED
    BY <1>3, <1>4, <1>5, <1>6

LEMMA AnsweredIs ==
  ASSUME db \in [Pages -> Rows], NEW p \in Pages, NEW t \in Tenants
  PROVE  Answered(p, t) \in Rows
  BY DEF Answered, Rows

LEMMA ServeLoadKeeps ==
  ASSUME PagesInv, NEW c \in calls, ServeLoad(c)
  PROVE  PagesInv'
  <1>. USE DEF PagesInv
  <1>. DEFINE gave == Answered(c.page, c.scope)
              done == [c EXCEPT !.served = TRUE, !.gave = gave]
  <1>1. c \in Call /\ c.kind = "load" /\ ~c.served /\ calls' = (calls \ {c}) \cup {done}
        /\ UNCHANGED <<db, scope, page, visit, rows, marker, editing, asked, mixed, failed>>
    BY DEF ServeLoad, Reply, AdminTypeOK
  <1>2. gave \in Rows
    BY <1>1, AnsweredIs DEF AdminTypeOK, Call
  <1>3. /\ done \in Call /\ done.served /\ done.gave = gave
        /\ done.visit = c.visit /\ done.page = c.page /\ done.kind = c.kind /\ done.scope = c.scope
        /\ done.item = c.item /\ done.dropped = c.dropped
    BY <1>1, <1>2, CallIs
  <1>4. c \in Awaited(calls) => gave = Answered(page, c.scope)
    BY DEF Awaited, CallInv
  <1>. HIDE DEF gave, done
  <1>5. AdminTypeOK'
    BY <1>1, <1>3 DEF AdminTypeOK
  <1>6. CallInv'
    BY <1>1, <1>3 DEF CallInv
  <1>7. Awaited(calls)' = IF c \in Awaited(calls) THEN (Awaited(calls) \ {c}) \cup {done} ELSE Awaited(calls)
    BY <1>1, <1>3 DEF Awaited
  <1>8. Answered(page, scope)' = Answered(page, scope)
    BY <1>1 DEF Answered
  <1>9. CASE c \in Awaited(calls)
    <2>1. ~mixed => c.scope = scope /\ Awaited(calls)' = {done} /\ \A d \in calls : d.kind = "load"
      BY <1>1, <1>7, <1>9 DEF SoleInv, Awaited, CallInv
    <2>2. SoleInv'
      BY <1>1, <1>3, <2>1 DEF SoleInv
    <2>3. GaveInv'
      BY <1>1, <1>3, <1>4, <1>8, <1>9, <2>1 DEF GaveInv
    <2>4. ListInv'
      BY <1>1, <1>3, <2>1 DEF ListInv
    <2>. QED
      BY <1>5, <1>6, <2>2, <2>3, <2>4
  <1>10. CASE c \notin Awaited(calls)
    <2>1. Awaited(calls)' = Awaited(calls)
      BY <1>7, <1>10
    <2>2. SoleInv'
      BY <1>1, <1>3, <2>1 DEF SoleInv
    <2>3. GaveInv'
      BY <1>1, <1>8, <2>1 DEF GaveInv
    <2>4. ListInv'
      BY <1>1, <1>8, <2>1 DEF ListInv
    <2>. QED
      BY <1>5, <1>6, <2>2, <2>3, <2>4
  <1>. QED
    BY <1>9, <1>10

\* A change that is served changes its row, and an entry of a page that is not the one of the change.
LEMMA ServedIs ==
  ASSUME AdminTypeOK, NEW c \in calls, c.kind # "load", c.item \in Items, c.page # "audit", ServeChange(c)
  PROVE  /\ Changed(c) \in Nat
         /\ db' \in [Pages -> Rows]
         /\ db'[c.page] = [db[c.page] EXCEPT ![c.item] = Changed(c)]
         /\ [NoRows EXCEPT ![c.item] = Changed(c)] \in Rows
         /\ [NoRows EXCEPT ![c.item] = Changed(c)][c.item] = Changed(c)
  <1>1. c \in Call /\ c.page \in Pages /\ c.scope \in Tenants /\ db \in [Pages -> Rows]
    BY DEF AdminTypeOK, Call
  <1>2. db[c.page][c.item] \in Nat
    BY <1>1 DEF Rows
  <1>3. Changed(c) \in Nat
    BY <1>2 DEF Changed
  <1>. DEFINE row  == [db[c.page] EXCEPT ![c.item] = Changed(c)]
              done == [db EXCEPT ![c.page] = row]
              e    == Entry[c.scope]
              logs == [done["audit"] EXCEPT ![e] = @ + 1]
  <1>4. db' = IF c.page \in AccessPages THEN [done EXCEPT !["audit"] = logs] ELSE done
    BY DEF ServeChange
  <1>5. row \in Rows
    BY <1>1, <1>3 DEF Rows
  <1>6. done \in [Pages -> Rows] /\ done[c.page] = row
    BY <1>1, <1>5
  <1>7. "audit" \in Pages /\ e \in Items
    BY <1>1, PagesAssumption DEF Pages
  <1>. HIDE DEF row, done, e
  <1>8. logs \in Rows
    BY <1>6, <1>7 DEF Rows
  <1>. HIDE DEF logs
  <1>9. db' \in [Pages -> Rows] /\ db'[c.page] = row
    BY <1>1, <1>4, <1>6, <1>7, <1>8
  <1>10. [NoRows EXCEPT ![c.item] = Changed(c)] \in Rows /\ [NoRows EXCEPT ![c.item] = Changed(c)][c.item] = Changed(c)
    BY <1>3 DEF NoRows, Rows
  <1>. QED
    BY <1>3, <1>9, <1>10 DEF row

LEMMA ServeChangeKeeps ==
  ASSUME PagesInv, NEW c \in calls, ServeChange(c)
  PROVE  PagesInv'
  <1>. USE DEF PagesInv
  <1>. DEFINE gave == [NoRows EXCEPT ![c.item] = Changed(c)]
              done == [c EXCEPT !.served = TRUE, !.gave = gave]
  <1>1. c \in Call /\ c.kind # "load" /\ ~c.served /\ ~TurnedDown(c) /\ calls' = (calls \ {c}) \cup {done}
        /\ UNCHANGED <<scope, page, visit, rows, marker, editing, asked, mixed, failed>>
    BY DEF ServeChange, Reply, AdminTypeOK
  <1>2. c.item \in Items /\ c.page # "audit" /\ ~c.dropped /\ (c.visit = visit => c.page = page)
        /\ (c.kind = "drop" => c.page = "settings")
    BY <1>1 DEF CallInv
  <1>3. /\ Changed(c) \in Nat
        /\ db' \in [Pages -> Rows]
        /\ db'[c.page] = [db[c.page] EXCEPT ![c.item] = Changed(c)]
        /\ gave \in Rows /\ gave[c.item] = Changed(c)
    BY <1>1, <1>2, ServedIs
  <1>4. /\ done \in Call /\ done.served /\ done.gave = gave
        /\ done.visit = c.visit /\ done.page = c.page /\ done.kind = c.kind /\ done.scope = c.scope
        /\ done.item = c.item /\ done.dropped = c.dropped
    BY <1>1, <1>3, CallIs
  <1>. HIDE DEF gave, done
  <1>5. AdminTypeOK'
    BY <1>1, <1>3, <1>4 DEF AdminTypeOK
  <1>6. CallInv'
    BY <1>1, <1>4 DEF CallInv
  <1>7. Awaited(calls)' = IF c \in Awaited(calls) THEN (Awaited(calls) \ {c}) \cup {done} ELSE Awaited(calls)
    BY <1>1, <1>4 DEF Awaited
  <1>8. ASSUME ~mixed
        PROVE  /\ c \in Awaited(calls) /\ c.page = page /\ c.scope = scope /\ c.kind # "aside"
               /\ \A d \in Awaited(calls) : d.kind # "load" /\ (d # c => d.item # c.item)
    BY <1>1, <1>2, <1>8 DEF SoleInv, Awaited
  <1>9. ASSUME ~mixed
        PROVE  /\ \A i \in Items \ {c.item} : Answered(page, scope)'[i] = Answered(page, scope)[i]
               /\ Answered(page, scope)'[c.item] = Changed(c)
               /\ c.kind = "put" /\ page # "settings" => Answered(page, scope)[c.item] # 0
    <2>1. c.page = page /\ c.scope = scope /\ page' = page /\ scope' = scope /\ page \in Pages
      BY <1>1, <1>8, <1>9 DEF AdminTypeOK
    <2>2. page = "settings" \/ Home[c.item] = scope
      BY <1>1, <2>1 DEF TurnedDown
    <2>3. c.kind = "put" => db[page][c.item] # 0
      BY <1>1, <2>1 DEF TurnedDown
    <2>4. db \in [Pages -> [Items -> Nat]]
      BY DEF AdminTypeOK, Rows
    <2>. QED
      BY <1>2, <1>3, <2>1, <2>2, <2>3, <2>4 DEF Answered
  <1>10. SoleInv'
    <2>. SUFFICES ASSUME ~mixed PROVE SoleInv'
      BY <1>1 DEF SoleInv
    <2>1. Awaited(calls)' = (Awaited(calls) \ {c}) \cup {done}
      BY <1>7, <1>8
    <2>2. \A d \in calls' : d.kind # "load" => d.visit = visit /\ d.scope = scope /\ d.kind # "aside"
      BY <1>1, <1>4, <1>8 DEF SoleInv
    <2>3. \A d \in Awaited(calls)' : d.kind # "load"
      BY <1>1, <1>4, <1>8, <2>1
    <2>4. \A d, e \in Awaited(calls)' : d.item = e.item => d = e
      BY <1>4, <1>8, <2>1 DEF SoleInv
    <2>. QED
      BY <1>1, <2>2, <2>3, <2>4 DEF SoleInv
  <1>11. GaveInv'
    <2>. SUFFICES ASSUME ~mixed, NEW d \in Awaited(calls)', d.served
         PROVE d.kind # "load" /\ d.gave[d.item] = Answered(page, scope)'[d.item]
      BY <1>1 DEF GaveInv
    <2>1. d \in (Awaited(calls) \ {c}) \cup {done}
      BY <1>7, <1>8
    <2>2. CASE d = done
      BY <1>1, <1>3, <1>4, <1>9, <2>2
    <2>3. CASE d # done
      <3>1. d \in Awaited(calls) /\ d.item # c.item /\ d.kind # "load" /\ d.item \in Items
        BY <1>8, <2>1, <2>3 DEF CallInv, Awaited
      <3>. QED
        BY <1>9, <3>1 DEF GaveInv
    <2>. QED
      BY <2>2, <2>3
  <1>12. ListInv'
    <2>. SUFFICES ASSUME ~mixed, ~failed
         PROVE  /\ \A i \in Items : \/ \E d \in Awaited(calls)' : d.item = i /\ d.served
                                    \/ rows[i] = Answered(page, scope)'[i]
                /\ \A d \in Awaited(calls)' : d.kind = "put" /\ d.served /\ page # "settings" => rows[d.item] # 0
      BY <1>1 DEF ListInv
    <2>1. Awaited(calls)' = (Awaited(calls) \ {c}) \cup {done}
      BY <1>7, <1>8
    <2>2. /\ \A i \in Items : \/ \E d \in Awaited(calls) : d.item = i /\ d.served
                              \/ rows[i] = Answered(page, scope)[i]
          /\ \A d \in Awaited(calls) : d.kind = "put" /\ d.served /\ page # "settings" => rows[d.item] # 0
      BY <1>8 DEF ListInv
    <2>3. rows[c.item] = Answered(page, scope)[c.item]
      <3>1. \A d \in Awaited(calls) : d.item = c.item => ~d.served
        BY <1>1, <1>8
      <3>. QED
        BY <1>2, <2>2, <3>1
    <2>4. ASSUME NEW i \in Items
          PROVE  (\E d \in Awaited(calls)' : d.item = i /\ d.served) \/ rows[i] = Answered(page, scope)'[i]
      <3>1. CASE i = c.item
        BY <1>4, <2>1, <3>1
      <3>2. CASE i # c.item
        BY <1>1, <1>9, <2>1, <2>2, <3>2
      <3>. QED
        BY <3>1, <3>2
    <2>5. ASSUME NEW d \in Awaited(calls)', d.kind = "put", d.served, page # "settings" PROVE rows[d.item] # 0
      <3>1. CASE d = done
        BY <1>4, <1>9, <2>3, <2>5, <3>1
      <3>2. CASE d # done
        BY <2>1, <2>2, <2>5, <3>2
      <3>. QED
        BY <3>1, <3>2
    <2>. QED
      BY <2>4, <2>5
  <1>. QED
    BY <1>5, <1>6, <1>10, <1>11, <1>12

LEMMA AnswerKeeps ==
  ASSUME PagesInv, NEW c \in calls, Answer(c)
  PROVE  PagesInv'
  <1>. USE DEF PagesInv
  <1>1. c \in Call /\ c.served /\ c \in Awaited(calls) /\ c.visit = visit /\ ~c.dropped /\ c.page = page
        /\ UNCHANGED <<db, scope, page, visit>>
    BY DEF Answer, AdminTypeOK, Awaited, CallInv
  <1>2. c.hold \in Controls /\ c.gave \in Rows /\ c.kind \in Kinds /\ (c.kind # "load" => c.item \in Items)
    BY <1>1 DEF Call, CallInv
  <1>3. CASE Followed(c)
    <2>. DEFINE hold == IF page = "settings" THEN c.hold ELSE "none"
    <2>1. hold \in Controls /\ page \in Pages /\ scope \in Tenants
      BY <1>2 DEF Controls, AdminTypeOK
    <2>2. AskLoad(calls \ {c}, visit, page, scope, hold) /\ UNCHANGED <<rows, editing>>
          /\ marker' = IF page = "settings" THEN marker ELSE [marker EXCEPT ![c.hold] = Nothing]
      BY <1>3 DEF Answer
    <2>. HIDE DEF hold
    <2>3. AskLoad(calls \ {c}, visit', page', scope', hold)
      BY <1>1, <2>2
    <2>4. calls' \subseteq Call /\ asked' \in Nat /\ mixed' \in BOOLEAN /\ failed' \in BOOLEAN
          /\ CallInv' /\ SoleInv' /\ GaveInv' /\ ListInv'
      BY <1>1, <2>1, <2>3, AskLoadKeeps
    <2>5. AdminTypeOK'
      BY <1>1, <1>2, <2>2, <2>4 DEF AdminTypeOK
    <2>. QED
      BY <2>4, <2>5
  <1>4. CASE ~Followed(c)
    <2>1. /\ calls' = calls \ {c} /\ rows' = RowsAfter(c) /\ editing' = EditingAfter(c)
          /\ marker' = [marker EXCEPT ![c.hold] = Nothing]
          /\ UNCHANGED <<asked, mixed, failed>>
      BY <1>1, <1>4 DEF Answer, Release
    <2>2. rows' \in Rows
      BY <1>2, <2>1 DEF RowsAfter, AdminTypeOK, Rows
    <2>3. editing' \in Items \cup {Nothing}
      <3>1. c.item \in Items \cup {Nothing}
        BY <1>1 DEF Call
      <3>. QED
        BY <2>1, <3>1 DEF EditingAfter, AdminTypeOK
    <2>4. AdminTypeOK'
      BY <1>1, <1>2, <2>1, <2>2, <2>3 DEF AdminTypeOK
    <2>5. Awaited(calls)' = Awaited(calls) \ {c}
      BY <1>1, <2>1 DEF Awaited
    <2>6. Answered(page, scope)' = Answered(page, scope)
      BY <1>1 DEF Answered
    <2>7. CallInv' /\ SoleInv'
      BY <1>1, <2>1, <2>5 DEF CallInv, SoleInv
    <2>8. GaveInv'
      BY <1>1, <2>1, <2>5, <2>6 DEF GaveInv
    <2>9. ListInv'
      <3>. SUFFICES ASSUME ~mixed, ~failed, \A d \in Awaited(calls) \ {c} : d.kind # "load"
           PROVE  /\ \A i \in Items : \/ \E d \in Awaited(calls) \ {c} : d.item = i /\ d.served
                                      \/ rows'[i] = Answered(page, scope)[i]
                  /\ \A d \in Awaited(calls) \ {c} : d.kind = "put" /\ d.served /\ page # "settings" => rows'[d.item] # 0
        BY <1>1, <2>1, <2>5, <2>6 DEF ListInv
      <3>1. CASE c.kind = "load"
        <4>1. Awaited(calls) = {c} /\ c.gave = Answered(page, scope)
          BY <1>1, <3>1 DEF SoleInv, GaveInv
        <4>2. rows' = c.gave
          BY <2>1, <3>1 DEF RowsAfter
        <4>. QED
          BY <4>1, <4>2
      <3>2. CASE c.kind # "load"
        <4>1. /\ \A i \in Items : \/ \E d \in Awaited(calls) : d.item = i /\ d.served
                                  \/ rows[i] = Answered(page, scope)[i]
              /\ \A d \in Awaited(calls) : d.kind = "put" /\ d.served /\ page # "settings" => rows[d.item] # 0
          BY <3>2 DEF ListInv
        <4>2. c.gave[c.item] = Answered(page, scope)[c.item] /\ c.item \in Items
          BY <1>1, <1>2, <3>2 DEF GaveInv
        <4>3. page # "settings" /\ c.kind \in {"add", "put"}
          <5>1. page # "settings"
            BY <1>4, <3>2 DEF Followed
          <5>2. c.kind # "drop" /\ c.kind # "aside"
            BY <1>1, <3>2, <5>1 DEF CallInv, SoleInv
          <5>. QED
            BY <1>2, <3>2, <5>1, <5>2 DEF Kinds
        <4>4. c.kind = "put" => rows[c.item] # 0
          BY <1>1, <4>1, <4>3
        <4>5. rows' = [rows EXCEPT ![c.item] = c.gave[c.item]]
          BY <2>1, <4>3, <4>4 DEF RowsAfter
        <4>6. rows \in [Items -> Nat]
          BY DEF AdminTypeOK, Rows
        <4>7. rows'[c.item] = Answered(page, scope)[c.item] /\ \A i \in Items \ {c.item} : rows'[i] = rows[i]
          BY <4>2, <4>5, <4>6
        <4>8. \A d \in Awaited(calls) \ {c} : d.item \in Items /\ d.item # c.item
          BY <1>1 DEF SoleInv, CallInv, Awaited
        <4>. QED
          BY <4>1, <4>7, <4>8
      <3>. QED
        BY <3>1, <3>2
    <2>. QED
      BY <2>4, <2>7, <2>8, <2>9
  <1>. QED
    BY <1>3, <1>4

\* A page asks for its rows: when it is opened, when its tenant is set, or when it is told to.
LEMMA LoadKeeps ==
  ASSUME PagesInv, AskLoad(calls, visit', page', scope', "none"),
         (visit' = visit /\ page' = page) \/ visit' = visit + 1, page' \in Pages, scope' \in Tenants,
         rows' \in Rows, marker' \in [Controls -> Items \cup {Nothing}], editing' \in Items \cup {Nothing},
         UNCHANGED db
  PROVE  PagesInv'
  <1>1. "none" \in Controls
    BY DEF Controls
  <1>2. calls' \subseteq Call /\ asked' \in Nat /\ mixed' \in BOOLEAN /\ failed' \in BOOLEAN
        /\ CallInv' /\ SoleInv' /\ GaveInv' /\ ListInv'
    BY <1>1, AskLoadKeeps
  <1>3. visit' \in Nat
    BY DEF PagesInv, AdminTypeOK
  <1>4. AdminTypeOK'
    BY <1>2, <1>3 DEF PagesInv, AdminTypeOK
  <1>. QED
    BY <1>2, <1>4 DEF PagesInv

LEMMA PageLoads ==
  ASSUME PagesInv,
         (\E p \in Pages : OpenPage(p)) \/ (\E t \in Tenants : SetTenant(t))
         \/ SetLimit \/ RefreshProfiles \/ SearchProducts
  PROVE  PagesInv'
  <1>1. /\ scope \in Tenants /\ page \in Pages /\ NoRows \in Rows /\ rows \in Rows
        /\ marker \in [Controls -> Items \cup {Nothing}] /\ editing \in Items \cup {Nothing}
    BY DEF PagesInv, AdminTypeOK, NoRows, Rows
  <1>2. ASSUME NEW p \in Pages, OpenPage(p) PROVE PagesInv'
    <2>1. /\ page' = p /\ visit' = visit + 1 /\ rows' = NoRows /\ marker' = [h \in Controls |-> Nothing]
          /\ editing' = Nothing /\ AskLoad(calls, visit', page', scope', "none") /\ scope' = scope /\ db' = db
      BY <1>2 DEF OpenPage, Load
    <2>. QED
      BY <1>1, <2>1, LoadKeeps
  <1>3. ASSUME NEW t \in Tenants, SetTenant(t) PROVE PagesInv'
    <2>1. /\ page' = page /\ visit' = visit /\ rows' = rows /\ marker' = marker
          /\ editing' = Nothing /\ AskLoad(calls, visit', page', scope', "none") /\ scope' = t /\ db' = db
      BY <1>3 DEF SetTenant, Load
    <2>. QED
      BY <1>1, <2>1, LoadKeeps
  <1>4. CASE SetLimit \/ RefreshProfiles \/ SearchProducts
    <2>1. /\ page' = page /\ visit' = visit /\ rows' = rows /\ marker' = marker
          /\ editing' = editing /\ AskLoad(calls, visit', page', scope', "none") /\ scope' = scope /\ db' = db
      BY <1>4 DEF SetLimit, RefreshProfiles, SearchProducts, Load
    <2>. QED
      BY <1>1, <2>1, LoadKeeps
  <1>. QED
    BY <1>2, <1>3, <1>4

\* A button of a page asks for a change; the audit log has none, and only the settings delete.
LEMMA PageAsks ==
  ASSUME PagesInv, NEW i \in Items,
         \/ CreateUser(i) \/ ToggleStatus(i) \/ AssignRole(i) \/ CreateRole(i) \/ UpdatePermissions(i)
         \/ SubmitProfile(i) \/ DeleteProfile(i) \/ ImportProducts(i) \/ UpdateProduct(i)
         \/ RecordPriceChange(i)
  PROVE  PagesInv'
  <1>1. PICK kind \in Kinds \ {"load"}, hold \in Controls :
          AskChange(kind, i, hold) /\ page # "audit" /\ (kind = "drop" => page = "settings")
    <2>. USE DEF Kinds, Controls
    <2>1. CASE CreateUser(i) \/ ToggleStatus(i) \/ AssignRole(i)
      BY <2>1 DEF CreateUser, ToggleStatus, AssignRole, UserForm, UserRow
    <2>2. CASE CreateRole(i) \/ UpdatePermissions(i)
      BY <2>2 DEF CreateRole, UpdatePermissions, RoleForm, RoleRow
    <2>3. CASE SubmitProfile(i)
      <3>1. Saving(i) \in Controls
        BY DEF Saving
      <3>. QED
        BY <2>3, <3>1 DEF SubmitProfile, TssForm, RegisterForm
    <2>4. CASE DeleteProfile(i)
      BY <2>4 DEF DeleteProfile, ProfileRow
    <2>5. CASE ImportProducts(i) \/ UpdateProduct(i) \/ RecordPriceChange(i)
      BY <2>5 DEF ImportProducts, UpdateProduct, ProductForm, RecordPriceChange, PriceForm
    <2>. QED
      BY <2>1, <2>2, <2>3, <2>4, <2>5
  <1>. QED
    BY <1>1, AskChangeKeeps DEF PagesInv

LEMMA GoneTypes ==
  ASSUME AdminTypeOK, NEW c \in calls, calls' = calls \ {c}, marker' = marker \/ Release(c),
         failed' \in BOOLEAN, UNCHANGED <<db, scope, page, visit, rows, editing, asked, mixed>>
  PROVE  AdminTypeOK'
  <1>1. c.hold \in Controls
    BY DEF AdminTypeOK, Call
  <1>2. marker' \in [Controls -> Items \cup {Nothing}]
    BY <1>1 DEF Release, AdminTypeOK
  <1>. QED
    BY <1>2 DEF AdminTypeOK

\* A page that waits for nothing shows what the server has, unless it is noted why it may not.
LEMMA PagesKept == PagesInv /\ [PagesNext]_adminVars => PagesInv'
  <1>. SUFFICES ASSUME PagesInv, [PagesNext]_adminVars PROVE PagesInv'
    OBVIOUS
  <1>1. ASSUME (\E p \in Pages : OpenPage(p)) \/ (\E t \in Tenants : SetTenant(t))
               \/ SetLimit \/ RefreshProfiles \/ SearchProducts
        PROVE  PagesInv'
    BY <1>1, PageLoads
  <1>2. ASSUME NEW i \in Items,
               \/ CreateUser(i) \/ ToggleStatus(i) \/ AssignRole(i) \/ CreateRole(i) \/ UpdatePermissions(i)
               \/ SubmitProfile(i) \/ DeleteProfile(i) \/ ImportProducts(i) \/ UpdateProduct(i)
               \/ RecordPriceChange(i)
        PROVE  PagesInv'
    BY <1>2, PageAsks
  <1>3. ASSUME NEW i \in Items, StartEdit(i) PROVE PagesInv'
    BY <1>3 DEF StartEdit, PagesInv, AdminTypeOK, CallInv, SoleInv, GaveInv, ListInv, Awaited, Answered
  <1>4. ASSUME NEW c \in calls, ServeLoad(c) \/ ServeChange(c) \/ Answer(c) PROVE PagesInv'
    BY <1>4, ServeLoadKeeps, ServeChangeKeeps, AnswerKeeps
  <1>5. ASSUME NEW c \in calls, TurnDown(c) \/ Ignore(c) PROVE PagesInv'
    <2>1. /\ calls' = calls \ {c} /\ UNCHANGED <<db, scope, page, visit, rows, mixed, failed>>
          /\ c \notin Awaited(calls) \/ (c.kind # "load" /\ ~c.served)
          /\ UNCHANGED <<editing, asked>> /\ (marker' = marker \/ Release(c))
      BY <1>5 DEF TurnDown, Ignore
    <2>2. CallInv' /\ SoleInv' /\ GaveInv' /\ ListInv'
      BY <2>1, GoneKeeps
    <2>3. AdminTypeOK'
      BY <2>1, GoneTypes DEF PagesInv, AdminTypeOK
    <2>. QED
      BY <2>2, <2>3 DEF PagesInv
  <1>6. ASSUME NEW c \in calls, Lose(c) PROVE PagesInv'
    <2>1. /\ calls' = calls \ {c} /\ UNCHANGED <<db, scope, page, visit, rows, mixed, editing, asked>>
          /\ Release(c) /\ failed' = (failed \/ c \in Awaited(calls))
      BY <1>6 DEF Lose
    <2>2. failed' \in BOOLEAN
      BY <2>1, Zenon
    <2>3. CallInv' /\ SoleInv' /\ GaveInv' /\ ListInv'
      BY <2>1, GoneKeeps
    <2>4. AdminTypeOK'
      BY <2>1, <2>2, GoneTypes DEF PagesInv
    <2>. QED
      BY <2>3, <2>4 DEF PagesInv
  <1>7. CASE UNCHANGED adminVars
    BY <1>7 DEF adminVars, PagesInv, AdminTypeOK, CallInv, SoleInv, GaveInv, ListInv, Awaited, Answered
  <1>. QED
    BY <1>1, <1>2, <1>3, <1>4, <1>5, <1>6, <1>7 DEF PagesNext

LEMMA PagesFollow == PagesInv => PageShowsServer
  <1>. SUFFICES ASSUME PagesInv, Awaited(calls) = {}, ~mixed, ~failed PROVE rows = Answered(page, scope)
    BY DEF PageShowsServer
  <1>1. \A i \in Items : rows[i] = Answered(page, scope)[i]
    BY DEF PagesInv, ListInv
  <1>2. rows \in Rows /\ Answered(page, scope) \in Rows
    BY AnsweredIs DEF PagesInv, AdminTypeOK
  <1>. QED
    BY <1>1, <1>2 DEF Rows

LEMMA PagesStart ==
  ASSUME NEW p \in Pages, NEW t \in Tenants, AdminInit(p, t)
  PROVE  PagesInv
  <1>. DEFINE first == [NewCall(1, p, t, "load", Nothing, "none") EXCEPT !.no = 1]
  <1>1. /\ db = [q \in Pages |-> [i \in Items |-> IF q # "audit" /\ i = FirstOf[Home[i]] THEN 1 ELSE 0]]
        /\ scope = t /\ page = p /\ visit = 1 /\ rows = NoRows /\ marker = [h \in Controls |-> Nothing]
        /\ editing = Nothing /\ asked = 1 /\ calls = {first} /\ mixed = FALSE /\ failed = FALSE
    BY DEF AdminInit
  <1>2. first \in Call /\ first.visit = 1 /\ first.page = p /\ first.kind = "load" /\ first.scope = t
        /\ ~first.served /\ ~first.dropped
    BY <1>1 DEF NewCall, Call, NoRows, Rows, Kinds, Controls
  <1>. HIDE DEF first
  <1>3. AdminTypeOK
    BY <1>1, <1>2 DEF AdminTypeOK, NoRows, Rows
  <1>4. CallInv /\ SoleInv /\ GaveInv
    BY <1>1, <1>2 DEF CallInv, SoleInv, GaveInv, Awaited
  <1>5. ListInv
    BY <1>1, <1>2 DEF ListInv, Awaited
  <1>. QED
    BY <1>3, <1>4, <1>5 DEF PagesInv

-----------------------------------------------------------------------------
(* The forms of the inventory page.                                          *)

ReceiptType ==
  /\ {file, content} \subseteq Files \cup {Nothing} /\ readers \subseteq Files
  /\ entries \subseteq Pasted /\ posting \in BOOLEAN /\ crossed \in BOOLEAN

\* Unless files were crossed, the one that is read is the one named, and nothing is read but that.
FileInv ==
  crossed \/ readers = {file} \/ (readers = {} /\ content = file)

ReceiptInv == ReceiptType /\ FileInv /\ ReceiptIsNamed

CatalogType ==
  /\ pasted \subseteq Pasted /\ basis \subseteq Pasted /\ faults \subseteq Pasted
  /\ importing \in BOOLEAN
  /\ \A r \in grid : r.of \in Pasted \cup {Nothing} /\ r.as \in ALine
  /\ dropped \subseteq Pasted \cup {Nothing}

\* Each line the rows were made from has a row, was reported, or its row was taken away.
RowInv == basis \subseteq faults \cup dropped \cup {r.of : r \in grid}

CatalogInv == CatalogType /\ RowInv /\ ImportAccountsForLines

CountType ==
  /\ sheets \in [Sheets -> ASheet \cup {Nothing}]
  /\ opening \in Sheets \cup {Nothing} /\ openedFor \subseteq Tenants /\ typed \in BOOLEAN
  /\ closer \in [tenant : Tenants \cup {Nothing}, sheet : Sheets \cup {Nothing}, lines : Sheets \cup {Nothing}]
  /\ closing = Nothing
     \/ (closing.tenant \in Tenants /\ closing.sheet \in Sheets /\ closing.lines \in Sheets \cup {Nothing})
  /\ closedBy \in [Sheets -> Sheets \cup {Nothing}]

\* The sheet whose answer is under way was opened for its tenant, and sheets were opened for finitely
\* many.
SheetInv ==
  /\ IsFiniteSet(openedFor)
  /\ opening # Nothing => sheets[opening] # Nothing /\ sheets[opening].tenant \in openedFor

\* The lines are those of the sheet, or the sheet was opened without any.
OwnLines(n, lines) ==
  IF n = Nothing THEN lines = Nothing ELSE sheets[n] # Nothing /\ (lines = n \/ ~sheets[n].filled)

\* A form nobody has typed into has a sheet with its own lines, and a tenant a sheet was opened for.
CloserInv ==
  typed \/
    /\ OwnLines(closer.sheet, closer.lines)
    /\ closing = Nothing \/ OwnLines(closing.sheet, closing.lines)
    /\ closer.tenant \in openedFor \cup {Nothing}
    /\ closer.sheet # Nothing => sheets[closer.sheet].tenant \in openedFor /\ closer.tenant # Nothing
    /\ \A n \in Sheets : closedBy[n] = Nothing \/ OwnLines(n, closedBy[n])

CountInv == CountType /\ SheetInv /\ CloserInv

LEMMA FormsStart ==
  ASSUME FormsInit
  PROVE  ReceiptInv /\ CatalogInv /\ CountInv
  <1>1. ReceiptInv
    BY DEF FormsInit, ReceiptInv, ReceiptType, FileInv, ReceiptIsNamed
  <1>2. CatalogInv
    BY DEF FormsInit, CatalogInv, CatalogType, RowInv, ImportAccountsForLines
  <1>3. CountInv
    BY FS_EmptySet DEF FormsInit, CountInv, CountType, SheetInv, CloserInv, OwnLines
  <1>. QED
    BY <1>1, <1>2, <1>3

\* A receipt is sent of the file it names, as long as the choice was not changed during a reading.
LEMMA ReceiptKept == ReceiptInv /\ [ReceiptNext]_receiptVars => ReceiptInv'
  <1>. SUFFICES ASSUME ReceiptInv, [ReceiptNext]_receiptVars PROVE ReceiptInv'
    OBVIOUS
  <1>. USE FormsAssumption DEF ReceiptInv, ReceiptType, FileInv, ReceiptIsNamed
  <1>1. ASSUME NEW f \in Files, HandleFile(f) PROVE ReceiptInv'
    BY <1>1 DEF HandleFile
  <1>2. ASSUME NEW f \in Files, ReaderLoads(f) PROVE ReceiptInv'
    BY <1>2 DEF ReaderLoads
  <1>3. ASSUME NEW f \in Files, ReaderFails(f) PROVE ReceiptInv'
    BY <1>3 DEF ReaderFails
  <1>4. CASE ResetFileSelection
    BY <1>4 DEF ResetFileSelection
  <1>5. CASE SubmitReceipt
    <2>. DEFINE crossing == crossed \/ readers # {}
                some     == IF ReceiptItems(entries) = {} THEN content ELSE Nothing
    <2>0. crossing \in BOOLEAN /\ some \in {content, Nothing}
      OBVIOUS
    <2>1. receipt' = [name |-> file, file |-> some, hasty |-> crossing]
      BY <1>5 DEF SubmitReceipt
    <2>. HIDE DEF some
    <2>2. CASE crossed \/ readers # {}
      <3>1. receipt'.hasty
        <4>1. crossing = TRUE
          BY <2>2
        <4>. HIDE DEF crossing
        <4>. QED
          BY <2>1, <4>1
      <3>. QED
        BY <1>5, <3>1 DEF SubmitReceipt
    <2>3. CASE ~(crossed \/ readers # {})
      <3>1. content = file
        BY <2>3
      <3>2. receipt'.name = file /\ receipt'.file \in {content, Nothing}
        BY <2>0, <2>1
      <3>. QED
        BY <1>5, <3>1, <3>2 DEF SubmitReceipt
    <2>. QED
      BY <2>2, <2>3
  <1>6. CASE ReceiptSettles
    BY <1>6 DEF ReceiptSettles
  <1>7. ASSUME NEW lines \in SUBSET Pasted, PasteEntries(lines) PROVE ReceiptInv'
    BY <1>7 DEF PasteEntries
  <1>8. CASE UNCHANGED receiptVars
    BY <1>8 DEF receiptVars
  <1>. QED
    BY <1>1, <1>2, <1>3, <1>4, <1>5, <1>6, <1>7, <1>8 DEF ReceiptNext

\* No line that was read is forgotten, and no row is sent that the server would turn down.
LEMMA CatalogKept == CatalogInv /\ [CatalogNext]_catalogVars => CatalogInv'
  <1>. SUFFICES ASSUME CatalogInv, [CatalogNext]_catalogVars PROVE CatalogInv'
    OBVIOUS
  <1>. USE DEF CatalogInv, CatalogType, RowInv, ImportAccountsForLines
  <1>1. ASSUME NEW lines \in SUBSET Pasted, PasteCatalog(lines) PROVE CatalogInv'
    BY <1>1 DEF PasteCatalog
  <1>2. CASE AnalyzeManualInput
    <2>. DEFINE new == {Row(l, l) : l \in {x \in pasted : CatalogLine(x)}}
    <2>1. grid' = new /\ faults' = {l \in pasted : ~CatalogLine(l)} /\ basis' = pasted /\ dropped' = {}
          /\ UNCHANGED <<pasted, importing, imported>>
      BY <1>2 DEF AnalyzeManualInput
    <2>2. \A l \in pasted : l \in ALine
      BY PastedAssumption
    <2>3. \A r \in new : r.of \in Pasted /\ r.as \in ALine
      BY <2>2 DEF Row
    <2>4. ASSUME NEW l \in pasted, CatalogLine(l) PROVE l \in {r.of : r \in new}
      <3>1. Row(l, l) \in new /\ Row(l, l).of = l
        BY <2>4 DEF Row
      <3>. QED
        BY <3>1
    <2>. HIDE DEF new
    <2>. QED
      BY <2>1, <2>3, <2>4
  <1>3. CASE ClearCatalog
    BY <1>3 DEF ClearCatalog
  <1>4. CASE AddEmptyRow
    <2>1. Row(Nothing, Blank).of = Nothing /\ Row(Nothing, Blank).as \in ALine
      BY DEF Row, Blank, ALine
    <2>. QED
      BY <1>4, <2>1 DEF AddEmptyRow
  <1>5. CASE HandleImportSubmit
    <2>1. imported' = [rows |-> grid, of |-> basis, reported |-> faults, without |-> dropped]
          /\ \A r \in grid : Sendable(r.as)
      BY <1>5 DEF HandleImportSubmit
    <2>2. ImportAccountsForLines'
      BY <2>1
    <2>. QED
      BY <1>5, <2>2 DEF HandleImportSubmit
  <1>6. CASE ImportSettles
    BY <1>6 DEF ImportSettles
  <1>7. ASSUME NEW r \in grid, RemoveRow(r) PROVE CatalogInv'
    BY <1>7 DEF RemoveRow
  <1>8. ASSUME NEW r \in grid, NEW l \in Pasted, UpdateRow(r, l) PROVE CatalogInv'
    <2>1. Row(r.of, l).of = r.of /\ Row(r.of, l).as \in ALine
      BY PastedAssumption DEF Row
    <2>. QED
      BY <1>8, <2>1 DEF UpdateRow
  <1>9. CASE UNCHANGED catalogVars
    BY <1>9 DEF catalogVars
  <1>. QED
    BY <1>1, <1>2, <1>3, <1>4, <1>5, <1>6, <1>7, <1>8, <1>9 DEF CatalogNext

LEMMA SheetIs ==
  \A x \in ASheet :
    /\ [x EXCEPT !.open = FALSE] \in ASheet
    /\ [x EXCEPT !.open = FALSE].tenant = x.tenant
    /\ [x EXCEPT !.open = FALSE].filled = x.filled
  BY DEF ASheet

\* A sheet is closed by the form that was filled for it.
LEMMA CountKept == CountInv /\ [CountNext]_countVars => CountInv'
  <1>. SUFFICES ASSUME CountInv, [CountNext]_countVars PROVE CountInv'
    OBVIOUS
  <1>. USE FormsAssumption, TenantAssumption DEF CountInv, CountType, SheetInv, CloserInv
  <1>1. ASSUME NEW t \in Tenants, HandleCreateSubmit(t) PROVE CountInv'
    <2>1. PICK n \in Sheets, filled \in BOOLEAN :
            /\ sheets[n] = Nothing /\ opening' = n
            /\ sheets' = [sheets EXCEPT ![n] = [tenant |-> t, open |-> TRUE, filled |-> filled]]
      BY <1>1 DEF HandleCreateSubmit
    <2>2. openedFor' = openedFor \cup {t} /\ UNCHANGED <<closer, closing, closedBy, typed>>
      BY <1>1 DEF HandleCreateSubmit
    <2>3. IsFiniteSet(openedFor')
      BY <2>2, FS_AddElement
    <2>4. [tenant |-> t, open |-> TRUE, filled |-> filled] \in ASheet
      BY DEF ASheet
    <2>5. sheets' \in [Sheets -> ASheet \cup {Nothing}] /\ sheets'[n] # Nothing /\ sheets'[n].tenant = t
      BY <2>1, <2>4
    <2>6. \A m \in Sheets : sheets[m] # Nothing => sheets'[m] = sheets[m]
      BY <2>1
    <2>7. CountType' /\ SheetInv'
      BY <2>1, <2>2, <2>3, <2>5
    <2>8. CloserInv'
      <3>. SUFFICES ASSUME ~typed PROVE CloserInv'
        BY <2>2
      <3>1. closer.sheet \in Sheets \cup {Nothing}
        OBVIOUS
      <3>2. closer.sheet # Nothing => sheets'[closer.sheet] = sheets[closer.sheet]
        BY <2>6, <3>1 DEF OwnLines
      <3>. QED
        BY <2>2, <2>6, <3>1, <3>2 DEF OwnLines
    <2>. QED
      BY <2>7, <2>8
  <1>2. CASE CreateResult
    <2>1. opening \in Sheets /\ sheets[opening] # Nothing /\ sheets[opening].tenant \in openedFor
          /\ closer'.sheet = opening /\ closer'.lines \in Sheets \cup {Nothing}
          /\ (closer'.lines = opening \/ ~sheets[opening].filled)
          /\ closer'.tenant \in {closer.tenant, sheets[opening].tenant} \ {Nothing}
      BY <1>2 DEF CreateResult
    <2>. QED
      BY <1>2, <2>1 DEF CreateResult, OwnLines
  <1>3. CASE CreateFails
    BY <1>3 DEF CreateFails, OwnLines
  <1>4. ASSUME NEW t \in Tenants, NEW n \in Sheets, TypeCloser(t, n) PROVE CountInv'
    BY <1>4 DEF TypeCloser
  <1>5. CASE HandleFinalizeSubmit
    BY <1>5 DEF HandleFinalizeSubmit, OwnLines
  <1>6. CASE FinalizeSettles
    <2>1. CASE MayClose(closing)
      <3>. DEFINE n == closing.sheet
      <3>1. n \in Sheets /\ sheets[n] \in ASheet
        BY <1>6, <2>1 DEF FinalizeSettles, MayClose
      <3>2. sheets' = [sheets EXCEPT ![n] = [sheets[n] EXCEPT !.open = FALSE]]
        BY <1>6, <2>1 DEF FinalizeSettles
      <3>3. \A m \in Sheets : /\ sheets'[m].tenant = sheets[m].tenant /\ sheets'[m].filled = sheets[m].filled
                              /\ sheets[m] # Nothing => sheets'[m] # Nothing
        BY <3>1, <3>2, SheetIs
      <3>4. sheets' \in [Sheets -> ASheet \cup {Nothing}]
        BY <3>1, <3>2, SheetIs
      <3>5. closedBy' = [closedBy EXCEPT ![n] = closing.lines] /\ closing' = Nothing /\ closing # Nothing
            /\ UNCHANGED <<opening, closer, typed, openedFor>>
        BY <1>6, <2>1 DEF FinalizeSettles
      <3>6. closing.lines \in Sheets \cup {Nothing} /\ (typed \/ OwnLines(n, closing.lines))
        BY <3>5
      <3>. HIDE DEF n
      <3>7. CountType' /\ SheetInv'
        BY <3>1, <3>3, <3>4, <3>5, <3>6
      <3>8. CloserInv'
        BY <3>1, <3>3, <3>5, <3>6 DEF OwnLines
      <3>. QED
        BY <3>7, <3>8
    <2>2. CASE ~MayClose(closing)
      BY <1>6, <2>2 DEF FinalizeSettles, OwnLines
    <2>. QED
      BY <2>1, <2>2
  <1>7. CASE UNCHANGED countVars
    BY <1>7 DEF countVars, OwnLines
  <1>. QED
    BY <1>1, <1>2, <1>3, <1>4, <1>5, <1>6, <1>7 DEF CountNext

\* What the forms promise, of the invariants of the three.
LEMMA FormsFollow == ReceiptInv /\ CatalogInv /\ CountInv => FormsTypeOK /\ FormsHaveCause
  <1>. SUFFICES ASSUME ReceiptInv, CatalogInv, CountInv PROVE FormsTypeOK /\ FormsHaveCause
    OBVIOUS
  <1>1. FormsTypeOK
    BY DEF ReceiptInv, CatalogInv, CountInv, ReceiptType, CatalogType, CountType, FormsTypeOK
  <1>2. ASSUME closer.sheet # Nothing, ~typed, ~(Cardinality(openedFor) > 1)
        PROVE  closer.tenant = sheets[closer.sheet].tenant
    <2>1. closer.sheet \in Sheets /\ closer.tenant \in openedFor
          /\ sheets[closer.sheet].tenant \in openedFor
      BY <1>2 DEF CountInv, CountType, SheetInv, CloserInv
    <2>2. IsFiniteSet(openedFor) /\ Cardinality(openedFor) \in Nat
      BY FS_CardinalityType DEF CountInv, SheetInv
    <2>3. Cardinality(openedFor) = 0 \/ Cardinality(openedFor) = 1
      BY <1>2, <2>2
    <2>4. Cardinality(openedFor) = 1
      BY <2>1, <2>2, <2>3, FS_EmptySet
    <2>5. PICK x : openedFor = {x}
      BY <2>2, <2>4, FS_Singleton
    <2>. QED
      BY <2>1, <2>5
  <1>3. SheetClosedAsCounted
    BY <1>2, FormsAssumption DEF SheetClosedAsCounted, CountInv, CloserInv, OwnLines
  <1>. QED
    BY <1>1, <1>3 DEF FormsHaveCause, ReceiptInv, CatalogInv

-----------------------------------------------------------------------------
(* The tenant control center.  What is true of the panels needs only that a  *)
(* panel loads for the tenant chosen.  The rest needs to know what a page    *)
(* that is not loose can be waiting for: one load that nobody has aborted    *)
(* and no save, or one save and no load.                                     *)

\* A panel loads for the tenant chosen, and shows that one or none.
PanelInv ==
  \A m \in Modules :
    /\ panel[m].busy \in {Nothing, chosen}
    /\ panel[m].busy = Nothing => panel[m].of \in {Nothing, chosen}

\* A tenant is chosen when the list of tenants arrives, and nothing is under way before.
Fresh ==
  IF tenants = "shown" THEN chosen # Nothing
  ELSE chosen = Nothing /\ loads = {} /\ saving = Nothing

\* A load that was not aborted is for the tenant chosen.
LoadInv == \A l \in loads : ~l.aborted => l.of = chosen

\* A save that the server has served is what the tenant has.
SaveInv ==
  saving # Nothing =>
    /\ saving.served => enabled[saving.of] = saving.modules
    /\ saving.loose \/ saving.origin = saving.of

\* What is shown, and what is under way, of a page that is not loose.
Sound ==
  ~loose =>
    /\ loads # {} =>
         /\ loading /\ saving = Nothing
         /\ \A l \in loads : ~l.aborted /\ (l.served => l.gave = enabled[l.of])
         /\ \A k, l \in loads : k = l
    /\ loads = {} /\ chosen # Nothing => origin = chosen
    /\ saving # Nothing => saving.of = chosen
    /\ loads = {} /\ saving = Nothing /\ chosen # Nothing => known = enabled[chosen]

ControlInv ==
  /\ ControlTypeOK
  /\ PanelInv /\ Fresh /\ LoadInv /\ SaveInv /\ Sound

LEMMA ControlStart ==
  ASSUME NEW first \in [Tenants -> AModule], NEW bound \in Nat, ControlInit(first, bound)
  PROVE  ControlInv
BY TenantAssumption
   DEF ControlInit, ControlInv, ControlTypeOK, PanelInv, Fresh, LoadInv, SaveInv, Sound, Idle, AModule

\* Refetch keeps the panels' type, and has them load for t.
LEMMA RefetchKeeps ==
  ASSUME ControlTypeOK, PanelInv, NEW t \in Tenants, NEW mods \in AModule, Refetch(t, mods),
         t = chosen \/ mods = known, chosen' = t
  PROVE  /\ panel' \in [Modules -> [busy : Tenants \cup {Nothing}, of : Tenants \cup {Nothing}]]
         /\ PanelInv'
BY TenantAssumption DEF Refetch, Idle, ControlTypeOK, PanelInv

LEMMA LoadModulesKeeps ==
  ASSUME ControlInv, NEW t \in Tenants, LoadModules(t), t # chosen,
         loads = {} \/ loose', saving = Nothing \/ loose', loose' \in BOOLEAN,
         choices' \in Nat, tenants' = "shown", UNCHANGED <<enabled, known, wanted, saving, origin>>
  PROVE  ControlInv'
<1> DEFINE new == [of |-> t, aborted |-> FALSE, served |-> FALSE, gave |-> {}]
<1>1. /\ chosen' = t /\ loading' = TRUE
      /\ loads' = {[l EXCEPT !.aborted = TRUE] : l \in loads} \cup {new}
  BY DEF LoadModules
<1>2. known \in AModule /\ Refetch(t, known)
  BY DEF LoadModules, ControlInv, ControlTypeOK
<1>3. /\ panel' \in [Modules -> [busy : Tenants \cup {Nothing}, of : Tenants \cup {Nothing}]]
      /\ PanelInv'
  BY <1>1, <1>2, RefetchKeeps DEF ControlInv
<1>4. \A l \in loads : [l EXCEPT !.aborted = TRUE] \in ALoad /\ [l EXCEPT !.aborted = TRUE].aborted
  BY DEF ControlInv, ControlTypeOK, ALoad
<1>5. new \in ALoad
  BY DEF ALoad, AModule
<1>6. ControlTypeOK'
  BY <1>1, <1>3, <1>4, <1>5 DEF ControlInv, ControlTypeOK
<1>7. Fresh' /\ SaveInv'
  <2>1. Fresh'
    BY <1>1, TenantAssumption DEF Fresh
  <2>2. SaveInv'
    BY DEF SaveInv, ControlInv
  <2> QED
    BY <2>1, <2>2
<1>8. LoadInv'
  <2>1. ASSUME NEW l \in loads', ~l.aborted PROVE l.of = t
    <3>1. l = new
      BY <1>1, <1>4, <2>1
    <3> QED
      BY <3>1
  <2> QED
    BY <1>1, <2>1 DEF LoadInv
<1>9. Sound'
  <2> SUFFICES ASSUME ~loose' PROVE Sound'
    BY DEF Sound
  <2>1. loads = {} /\ saving' = Nothing
    OBVIOUS
  <2>2. loads' = {new}
    BY <1>1, <2>1
  <2>3. new.aborted = FALSE /\ new.served = FALSE
    OBVIOUS
  <2> QED
    BY <1>1, <2>1, <2>2, <2>3 DEF Sound
<1> QED
  BY <1>3, <1>6, <1>7, <1>8, <1>9 DEF ControlInv

\* A load that settles is gone; what it shows, if anything, it shows for the tenant chosen.
LEMMA SettleKeeps ==
  ASSUME ControlInv, NEW l \in loads, loads' = loads \ {l}, loading' = FALSE,
         UNCHANGED <<enabled, tenants, chosen, saving, choices>>,
         \/ /\ l.aborted /\ UNCHANGED <<known, wanted, panel, origin, loose>>
         \/ /\ ~l.aborted /\ l.served /\ ShowModules(l.gave) /\ origin' = l.of /\ UNCHANGED loose
         \/ /\ ~l.aborted /\ ShowModules({}) /\ origin' = Nothing /\ loose' = TRUE
  PROVE  ControlInv'
<1> USE DEF ControlInv
<1>1. l \in ALoad /\ chosen # Nothing /\ chosen \in Tenants
  BY DEF ControlTypeOK, Fresh, ALoad
<1>2. /\ panel' \in [Modules -> [busy : Tenants \cup {Nothing}, of : Tenants \cup {Nothing}]]
      /\ PanelInv' /\ known' \in AModule /\ wanted' \in AModule
  <2>1. CASE UNCHANGED <<known, wanted, panel>>
    BY <2>1 DEF ControlTypeOK, PanelInv
  <2>2. ASSUME NEW mods \in AModule, ShowModules(mods) PROVE <1>2!:
    BY <2>2, <1>1, RefetchKeeps DEF ShowModules
  <2>3. {} \in AModule /\ l.gave \in AModule
    BY <1>1 DEF AModule, ALoad
  <2> QED
    BY <2>1, <2>2, <2>3
<1>3. ControlTypeOK'
  BY <1>1, <1>2 DEF ControlTypeOK, ALoad
<1>4. Fresh' /\ LoadInv' /\ SaveInv'
  BY DEF Fresh, LoadInv, SaveInv
<1>5. Sound'
  <2> SUFFICES ASSUME ~loose' PROVE Sound'
    BY DEF Sound
  <2>1. ~loose /\ ~l.aborted /\ loads = {l} /\ saving = Nothing /\ l.gave = enabled[l.of] /\ l.of = chosen
    BY DEF Sound, LoadInv
  <2> QED
    BY <2>1 DEF Sound, ShowModules
<1> QED
  BY <1>2, <1>3, <1>4, <1>5

LEMMA ControlKept ==
  ASSUME ControlInv, [ControlNext]_controlVars
  PROVE  ControlInv'
<1> USE DEF ControlInv
<1>1. ASSUME NEW t \in Tenants, TenantsArrive(t) PROVE ControlInv'
  BY <1>1, LoadModulesKeeps, TenantAssumption DEF TenantsArrive, Fresh, ControlTypeOK
<1>2. CASE TenantsFail
  BY <1>2 DEF TenantsFail, ControlTypeOK, PanelInv, Fresh, LoadInv, SaveInv, Sound
<1>3. ASSUME NEW t \in Tenants, SelectTenant(t) PROVE ControlInv'
  <2>1. choices' \in Nat /\ loose' = (loads # {} \/ saving # Nothing)
    BY <1>3 DEF SelectTenant, ControlTypeOK
  <2> QED
    BY <1>3, <2>1, LoadModulesKeeps DEF SelectTenant
<1>4. ASSUME NEW l \in loads, ServeModules(l) PROVE ControlInv'
  <2> DEFINE new == [l EXCEPT !.served = TRUE, !.gave = enabled[l.of]]
  <2>1. loads' = (loads \ {l}) \cup {new} /\ l \in ALoad
    BY <1>4 DEF ServeModules, ControlTypeOK
  <2>2. /\ new \in ALoad /\ new.aborted = l.aborted /\ new.of = l.of
        /\ new.gave = enabled[new.of]
    BY <2>1 DEF ALoad, ControlTypeOK
  <2>3. ControlTypeOK' /\ PanelInv'
    BY <1>4, <2>1, <2>2 DEF ServeModules, ControlTypeOK, PanelInv
  <2>4. Fresh' /\ SaveInv'
    BY <1>4 DEF ServeModules, Fresh, SaveInv
  <2>5. LoadInv'
    BY <1>4, <2>1, <2>2 DEF ServeModules, LoadInv
  <2>6. Sound'
    BY <1>4, <2>1, <2>2 DEF ServeModules, Sound
  <2> QED
    BY <2>3, <2>4, <2>5, <2>6
<1>5. ASSUME NEW l \in loads, ModulesArrive(l) PROVE ControlInv'
  BY <1>5, SettleKeeps DEF ModulesArrive
<1>6. ASSUME NEW l \in loads, ModulesFail(l) PROVE ControlInv'
  BY <1>6, SettleKeeps DEF ModulesFail
<1>7. ASSUME NEW l \in loads, AbortSettles(l) PROVE ControlInv'
  BY <1>7, SettleKeeps DEF AbortSettles
<1>8. ASSUME NEW m \in Modules, ToggleModule(m) PROVE ControlInv'
  BY <1>8 DEF ToggleModule, ControlTypeOK, AModule, PanelInv, Fresh, LoadInv, SaveInv, Sound
<1>9. ASSUME NEW m \in Modules, PanelArrives(m) \/ PanelFails(m) PROVE ControlInv'
  <2>1. PanelInv'
    BY <1>9 DEF PanelArrives, PanelFails, PanelInv, ControlTypeOK, Idle
  <2>2. ControlTypeOK'
    BY <1>9 DEF PanelArrives, PanelFails, ControlTypeOK, Idle
  <2>3. Fresh' /\ LoadInv' /\ SaveInv' /\ Sound'
    BY <1>9 DEF PanelArrives, PanelFails, Fresh, LoadInv, SaveInv, Sound
  <2> QED
    BY <2>1, <2>2, <2>3
<1>10. CASE SaveModules
  <2> DEFINE new == [of |-> chosen, modules |-> wanted, served |-> FALSE,
                     origin |-> origin, loose |-> loose]
  <2>1. new \in ASave /\ saving' = new /\ new # Nothing
    <3>1. chosen \in Tenants /\ origin \in Tenants \cup {Nothing} /\ wanted \in AModule /\ loose \in BOOLEAN
      BY <1>10 DEF SaveModules, ControlTypeOK
    <3>2. new \in ASave
      BY <3>1 DEF ASave
    <3> QED
      BY <1>10, <3>2, ControlAssumption DEF SaveModules
  <2>2. ControlTypeOK' /\ PanelInv'
    BY <1>10, <2>1 DEF SaveModules, ControlTypeOK, PanelInv
  <2>3. Fresh' /\ LoadInv'
    BY <1>10 DEF SaveModules, Fresh, LoadInv
  <2>4. loose \/ (loads = {} /\ origin = chosen)
    BY <1>10 DEF SaveModules, Sound
  <2>5. SaveInv'
    BY <2>1, <2>4 DEF SaveInv
  <2>6. Sound'
    BY <1>10, <2>1, <2>4 DEF SaveModules, Sound
  <2> QED
    BY <2>2, <2>3, <2>5, <2>6
<1>11. CASE SetTenantModules
  <2>1. saving \in ASave /\ saving # Nothing /\ saving.of \in Tenants
    BY <1>11 DEF SetTenantModules, ControlTypeOK, ASave
  <2>2. /\ saving' \in ASave /\ saving' # Nothing /\ saving'.of = saving.of
        /\ saving'.modules = saving.modules /\ saving'.origin = saving.origin
        /\ saving'.loose = saving.loose
    BY <1>11, <2>1, ControlAssumption DEF SetTenantModules, ASave
  <2>3. enabled' = [enabled EXCEPT ![saving.of] = saving.modules] /\ enabled' \in [Tenants -> AModule]
    BY <1>11, <2>1 DEF SetTenantModules, ControlTypeOK, ASave
  <2>4. ControlTypeOK' /\ PanelInv'
    BY <1>11, <2>2, <2>3 DEF SetTenantModules, ControlTypeOK, PanelInv
  <2>5. Fresh' /\ LoadInv'
    BY <1>11, <2>1 DEF SetTenantModules, Fresh, LoadInv
  <2>6. SaveInv'
    BY <2>1, <2>2, <2>3 DEF SaveInv, ControlTypeOK
  <2>7. Sound'
    BY <1>11, <2>1, <2>2 DEF SetTenantModules, Sound
  <2> QED
    BY <2>4, <2>5, <2>6, <2>7
<1>12. CASE SaveArrives
  <2>1. /\ saving \in ASave /\ saving # Nothing /\ chosen \in Tenants
        /\ saving.modules \in AModule /\ saving.of \in Tenants
    BY <1>12 DEF SaveArrives, ControlTypeOK, ASave, Fresh
  <2>2. /\ panel' \in [Modules -> [busy : Tenants \cup {Nothing}, of : Tenants \cup {Nothing}]]
        /\ PanelInv'
    BY <1>12, <2>1, RefetchKeeps DEF SaveArrives, ShowModules
  <2>3. ControlTypeOK'
    BY <1>12, <2>1, <2>2 DEF SaveArrives, ShowModules, ControlTypeOK
  <2>4. Fresh' /\ LoadInv' /\ SaveInv'
    BY <1>12, <2>1 DEF SaveArrives, Fresh, LoadInv, SaveInv
  <2>5. Sound'
    BY <1>12, <2>1 DEF SaveArrives, ShowModules, Sound, SaveInv
  <2> QED
    BY <2>2, <2>3, <2>4, <2>5
<1>13. CASE SaveFails
  BY <1>13 DEF SaveFails, ControlTypeOK, PanelInv, Fresh, LoadInv, SaveInv, Sound
<1>14. CASE UNCHANGED controlVars
  BY <1>14 DEF controlVars, ControlTypeOK, PanelInv, Fresh, LoadInv, SaveInv, Sound
<1> QED
  BY <1>1, <1>2, <1>3, <1>4, <1>5, <1>6, <1>7, <1>8, <1>9, <1>10, <1>11, <1>12, <1>13, <1>14
     DEF ControlNext

\* What is claimed of the control center follows.
LEMMA ControlFollows == ControlInv => TenantsKeptApart
<1> SUFFICES ASSUME ControlInv PROVE TenantsKeptApart
  OBVIOUS
<1> USE DEF ControlInv
<1>1. saving # Nothing => saving.loose \/ saving.origin = saving.of
  BY DEF SaveInv
<1>2. chosen # Nothing /\ loads = {} /\ saving = Nothing /\ ~loose => known = enabled[chosen]
  BY DEF Sound
<1>3. \A m \in Visible : panel[m].busy = Nothing => panel[m].of = chosen
  BY DEF Visible, PanelInv, ControlTypeOK, AModule
<1> QED
  BY <1>1, <1>2, <1>3 DEF TenantsKeptApart

-----------------------------------------------------------------------------
(* The cart and the notes of a till.                                         *)

BoardNext == CartNext \/ NoteNext \/ InitializeNext

\* A cart that is still to be sent is the one meant.  Once all are sent, and none was refused, lost
\* or overtaken, it is the one under way, or the cache has it; an empty one it need not have.
CacheInv ==
  ~lost =>
    IF writes # <<>> THEN meant = writes[Len(writes)]
    ELSE ~doubt => IF syncs # {} THEN syncs = {meant}
                                 ELSE cached = meant \/ (cached = NoCart /\ meant = Empty)

\* What initialize collects is the cart meant, and it starts with an empty one.
CartInv ==
  /\ phase # "on" => writes = <<>>
  /\ phase = "cart" => held.cart = Empty
  /\ ~lost => (phase \in {"lists", "tables"} => held.cart = meant) /\ (phase = "on" => cart = meant)

\* The last event of a note that is on its way tells what has become of it.
NewsInv ==
  /\ phase = "off" => news = <<>>
  /\ \A i \in DOMAIN news :
       (\A j \in DOMAIN news : j > i => news[j][1] # news[i][1]) => news[i][2] = desk[news[i][1]]

\* The notes the till has once the lists are loaded.
Kept == IF phase = "on" THEN board ELSE held.notes

\* They are the open ones, but for those an event is on its way about.
NoteInv ==
  ~missed /\ phase \in {"tables", "on"} =>
    /\ \A n \in Notes : NoteOf[n] = tenant =>
         (\E i \in DOMAIN news : news[i][1] = n) \/ (n \in Kept <=> desk[n] = "open")
    /\ mingled \/ \A n \in Kept : NoteOf[n] = tenant

BoardInv == BoardTypeOK /\ CacheInv /\ CartInv /\ NewsInv /\ NoteInv

BoardFlags == doubt \in BOOLEAN /\ lost \in BOOLEAN /\ missed \in BOOLEAN /\ mingled \in BOOLEAN
BoardData ==
  /\ phase \in {"off", "storage", "cart", "lists", "tables", "on"}
  /\ cart \in Cart /\ meant \in Cart
  /\ cached \in Cart \cup {NoCart}
  /\ writes \in Seq(Cart) /\ syncs \subseteq Cart /\ moves \in Nat
  /\ held \in [cart : Cart, notes : SUBSET Notes]
  /\ desk \in [Notes -> {"none", "open", "gone"}] /\ board \subseteq Notes
  /\ news \in Seq(Notes \X {"open", "gone"})
  /\ tenant \in Tenants \cup {Nothing}

LEMMA BoardFlagsKept == BoardFlags /\ [BoardNext]_boardVars => BoardFlags'
  <1>. SUFFICES ASSUME BoardFlags, [BoardNext]_boardVars PROVE BoardFlags'
    OBVIOUS
  <1>. USE DEF BoardFlags, cartVars, noteVars
  <1>1. ASSUME NEW new, NEW intended, Edit(new, intended) PROVE BoardFlags'
    <2>1. lost' \in BOOLEAN
      BY <1>1, Zenon DEF Edit
    <2>. QED
      BY <1>1, <2>1 DEF Edit
  <1>2. CASE PostCart
    <2>1. doubt' \in BOOLEAN
      BY <1>2, Zenon DEF PostCart
    <2>. QED
      BY <1>2, <2>1 DEF PostCart
  <1>3. CASE GetCart
    <2>1. lost' \in BOOLEAN
      BY <1>3, Zenon DEF GetCart
    <2>. QED
      BY <1>3, <2>1 DEF GetCart
  <1>4. CASE Reload
    <2>1. lost' \in BOOLEAN
      BY <1>4, Zenon DEF Reload
    <2>. QED
      BY <1>4, <2>1 DEF Reload
  <1>5. CASE Hear
    <2>1. missed' \in BOOLEAN
      BY <1>5, Zenon DEF Hear
    <2>2. mingled' \in BOOLEAN
      BY <1>5, Zenon DEF Hear
    <2>. QED
      BY <1>5, <2>1, <2>2 DEF Hear
  <1>6. ASSUME NEW t \in Tenants, SelectTillTenant(t) PROVE BoardFlags'
    <2>1. missed' \in BOOLEAN
      BY <1>6, Zenon DEF SelectTillTenant
    <2>. QED
      BY <1>6, <2>1 DEF SelectTillTenant
  <1>7. ASSUME NEW c \in syncs, SyncCart(c) \/ SyncFails(c) PROVE BoardFlags'
    BY <1>7 DEF SyncCart, SyncFails
  <1>8. ASSUME NEW n \in Notes, Happens(n) \/ RecordCash(n) PROVE BoardFlags'
    BY <1>8 DEF Happens, RecordCash
  <1>9. CASE CartExpires
    <2>1. doubt' \in BOOLEAN
      BY <1>9, Zenon DEF CartExpires
    <2>. QED
      BY <1>9, <2>1 DEF CartExpires
  <1>14. CASE Start \/ ReadStorage \/ GetCartFails
    BY <1>14 DEF Start, ReadStorage, GetCartFails
  <1>10. CASE LoadLists \/ ListsFail \/ Initialized \/ Miss
    BY <1>10 DEF LoadLists, ListsFail, Initialized, Miss
  <1>11. CASE UNCHANGED boardVars
    BY <1>11 DEF boardVars
  <1>12. ASSUME NEW p \in Products \cup {Unlisted}, AddToCart(p) \/ RemoveFromCart(p) PROVE BoardFlags'
    BY <1>1, <1>12 DEF AddToCart, RemoveFromCart
  <1>13. CASE ClearCart
    BY <1>1, <1>13 DEF ClearCart
  <1>. QED
    BY <1>2, <1>3, <1>4, <1>5, <1>6, <1>7, <1>8, <1>9, <1>10, <1>11, <1>12, <1>13, <1>14
    DEF BoardNext, CartNext, NoteNext, InitializeNext

\* The edits change the cart shown as they change the one meant.
LEMMA EditIs ==
  ASSUME BoardData, NEW p \in Products \cup {Unlisted},
         AddToCart(p) \/ RemoveFromCart(p) \/ ClearCart
  PROVE  \E new \in Cart, intended \in Cart :
           Edit(new, intended) /\ (cart = meant => new = intended)
  <1>. USE DEF BoardData, Cart
  <1>1. CASE AddToCart(p)
    <2>1. [cart EXCEPT ![p] = @ + 1] \in Cart /\ [meant EXCEPT ![p] = @ + 1] \in Cart
      OBVIOUS
    <2>. QED
      BY <1>1, <2>1 DEF AddToCart
  <1>2. CASE RemoveFromCart(p)
    <2>. DEFINE new == [cart EXCEPT ![p] = @ - 1]
                intended == [meant EXCEPT ![p] = IF @ > 0 THEN @ - 1 ELSE 0]
    <2>1. cart[p] > 0 /\ Edit(new, intended)
      BY <1>2 DEF RemoveFromCart
    <2>2. new \in Cart /\ intended \in Cart
      BY <2>1
    <2>3. cart = meant => new = intended
      BY <2>1
    <2>. HIDE DEF new, intended
    <2>. QED
      BY <2>1, <2>2, <2>3
  <1>3. CASE ClearCart
    <2>1. Empty \in Cart
      BY DEF Empty
    <2>. QED
      BY <1>3, <2>1 DEF ClearCart
  <1>. QED
    BY <1>1, <1>2, <1>3

LEMMA HeldIs ==
  \A h \in [cart : Cart, notes : SUBSET Notes] :
    /\ h.cart \in Cart /\ h.notes \subseteq Notes
    /\ \A c \in Cart : LET g == [h EXCEPT !.cart = c] IN
         g \in [cart : Cart, notes : SUBSET Notes] /\ g.cart = c /\ g.notes = h.notes
    /\ \A N \in SUBSET Notes : LET g == [h EXCEPT !.notes = N] IN
         g \in [cart : Cart, notes : SUBSET Notes] /\ g.notes = N /\ g.cart = h.cart
  OBVIOUS

LEMMA EmptyIs == Empty \in Cart /\ [cart |-> Empty, notes |-> {}] \in [cart : Cart, notes : SUBSET Notes]
  BY DEF Empty, Cart

LEMMA EditKeeps ==
  ASSUME BoardData, CacheInv, CartInv, NewsInv, NoteInv,
         NEW new \in Cart, NEW intended \in Cart, Edit(new, intended), cart = meant => new = intended
  PROVE  BoardData' /\ CacheInv' /\ CartInv' /\ NewsInv' /\ NoteInv'
  <1>. USE DEF noteVars, BoardData
  <1>1. /\ phase # "off" /\ cart' = new /\ meant' = intended
        /\ writes' = IF phase = "on" THEN Append(writes, new) ELSE writes
        /\ lost' = (lost \/ phase # "on")
        /\ UNCHANGED <<phase, cached, syncs, doubt, held, tenant, desk, board, news, missed, mingled>>
    BY DEF Edit
  <1>2. LET w == Append(writes, new) IN w \in Seq(Cart) /\ w # <<>> /\ w[Len(w)] = new
    BY AppendProperties, LenProperties, EmptySeq
  <1>3. BoardData'
    <2>1. writes' \in Seq(Cart)
      BY <1>1, <1>2
    <2>. QED
      BY <1>1, <2>1 DEF Edit
  <1>4. CacheInv' /\ CartInv'
    <2>1. CASE phase = "on"
      <3>1. writes' # <<>> /\ writes'[Len(writes')] = new
        BY <1>1, <1>2, <2>1
      <3>2. ~lost => cart' = meant'
        BY <1>1, <2>1 DEF CartInv
      <3>. QED
        BY <1>1, <2>1, <3>1, <3>2 DEF CacheInv, CartInv
    <2>2. CASE phase # "on"
      BY <1>1, <2>2 DEF CacheInv, CartInv
    <2>. QED
      BY <2>1, <2>2
  <1>5. NewsInv' /\ NoteInv'
    BY <1>1 DEF NewsInv, NoteInv, Kept
  <1>. QED
    BY <1>3, <1>4, <1>5

LEMMA PostKeeps ==
  ASSUME BoardData, CacheInv, CartInv, NewsInv, NoteInv, PostCart
  PROVE  BoardData' /\ CacheInv' /\ CartInv' /\ NewsInv' /\ NoteInv'
  <1>. USE BoardAssumption DEF noteVars, BoardData
  <1>0. PICK sendable \in BOOLEAN :
          /\ syncs' = IF sendable THEN syncs \cup {Head(writes)} ELSE syncs
          /\ doubt' = (~sendable \/ syncs # {})
    BY Zenon DEF PostCart
  <1>1. /\ writes # <<>> /\ writes' = Tail(writes)
        /\ UNCHANGED <<phase, cart, cached, held, moves, meant, lost, tenant, desk, board, news, missed, mingled>>
    BY DEF PostCart
  <1>2. Head(writes) \in Cart /\ Tail(writes) \in Seq(Cart) /\ Len(writes) \in Nat \ {0}
        /\ Head(writes) = writes[1]
    BY <1>1
  <1>3. Len(Tail(writes)) = Len(writes) - 1
        /\ \A i \in 1..Len(Tail(writes)) : Tail(writes)[i] = writes[i + 1]
    BY <1>1, HeadTailProperties
  <1>4. BoardData'
    BY <1>0, <1>1, <1>2
  <1>5. CacheInv'
    <2>. SUFFICES ASSUME ~lost PROVE CacheInv'
      BY <1>1 DEF CacheInv
    <2>1. meant = writes[Len(writes)]
      BY <1>1 DEF CacheInv
    <2>2. CASE Len(writes) = 1
      <3>1. writes' = <<>> /\ Head(writes) = meant
        BY <1>1, <1>2, <1>3, <2>1, <2>2, EmptySeq
      <3>2. ASSUME ~doubt' PROVE syncs' = {meant}
        BY <1>0, <3>1, <3>2
      <3>. QED
        BY <1>1, <3>1, <3>2 DEF CacheInv
    <2>3. CASE Len(writes) # 1
      <3>1. Len(writes') = Len(writes) - 1 /\ writes'[Len(writes')] = writes[Len(writes') + 1]
        BY <1>1, <1>2, <1>3, <2>3
      <3>2. writes' # <<>> /\ writes'[Len(writes')] = meant
        BY <1>2, <2>1, <2>3, <3>1
      <3>. QED
        BY <1>1, <3>2 DEF CacheInv
    <2>. QED
      BY <2>2, <2>3
  <1>6. CartInv' /\ NewsInv' /\ NoteInv'
    BY <1>1 DEF CartInv, NewsInv, NoteInv, Kept
  <1>. QED
    BY <1>4, <1>5, <1>6

\* The rest of what happens to the cart, and initialize.
LEMMA GetCartKeeps ==
  ASSUME BoardData, CacheInv, CartInv, NewsInv, NoteInv, GetCart
  PROVE  BoardData' /\ CacheInv' /\ CartInv' /\ NewsInv' /\ NoteInv'
  <1>. USE BoardAssumption DEF noteVars, BoardData
  <1>. DEFINE found == IF cached = NoCart THEN held.cart ELSE cached
  <1>1. /\ phase = "cart" /\ phase' = "lists"
        /\ held' = [held EXCEPT !.cart = found]
        /\ lost' = (lost \/ doubt \/ syncs # {})
        /\ UNCHANGED <<cart, cached, writes, syncs, moves, meant, doubt, tenant, desk, board, news, missed, mingled>>
    BY DEF GetCart
  <1>2. found \in Cart
    BY HeldIs
  <1>3. held' \in [cart : Cart, notes : SUBSET Notes] /\ held'.cart = found
    BY <1>1, <1>2, HeldIs
  <1>4. BoardData'
    BY <1>1, <1>3
  <1>5. CartInv'
    <2>1. writes = <<>> /\ held.cart = Empty
      BY <1>1 DEF CartInv
    <2>2. ~lost' => ~lost /\ ~doubt /\ syncs = {}
      BY <1>1
    <2>3. ~lost' => found = meant
      BY <2>1, <2>2 DEF CacheInv, Cart
    <2>. QED
      BY <1>1, <1>3, <2>1, <2>3 DEF CartInv
  <1>6. CacheInv' /\ NewsInv' /\ NoteInv'
    BY <1>1 DEF CacheInv, NewsInv, NoteInv
  <1>. QED
    BY <1>4, <1>5, <1>6

LEMMA InitializeKeeps ==
  ASSUME BoardData, CacheInv, CartInv, NewsInv, NoteInv, InitializeNext, ~GetCart
  PROVE  BoardData' /\ CacheInv' /\ CartInv' /\ NewsInv' /\ NoteInv'
  <1>. USE BoardAssumption DEF noteVars, BoardData
  <1>1. CASE Start
    BY <1>1 DEF Start, CacheInv, CartInv, NewsInv, NoteInv
  <1>2. CASE ReadStorage
    <2>1. phase = "storage" /\ phase' = "cart" /\ held' = [held EXCEPT !.cart = Empty]
          /\ UNCHANGED <<cart, cached, writes, syncs, moves, meant, doubt, lost,
                         tenant, desk, board, news, missed, mingled>>
      BY <1>2 DEF ReadStorage
    <2>2. held' \in [cart : Cart, notes : SUBSET Notes] /\ held'.cart = Empty
      BY <2>1, EmptyIs, HeldIs
    <2>3. CacheInv' /\ CartInv' /\ NewsInv' /\ NoteInv'
      BY <2>1, <2>2 DEF CacheInv, CartInv, NewsInv, NoteInv
    <2>. QED
      BY <2>1, <2>2, <2>3
  <1>3. CASE GetCartFails
    BY <1>3 DEF GetCartFails, CacheInv, CartInv, NewsInv, NoteInv
  <1>4. CASE LoadLists
    <2>1. phase = "lists" /\ phase' = "tables" /\ held' = [held EXCEPT !.notes = Open]
          /\ UNCHANGED <<cart, cached, writes, syncs, moves, meant, doubt, lost,
                         tenant, desk, board, news, missed, mingled>>
      BY <1>4 DEF LoadLists
    <2>2. Open \in SUBSET Notes
      BY DEF Open
    <2>3. held' \in [cart : Cart, notes : SUBSET Notes] /\ held'.notes = Open /\ held'.cart = held.cart
      BY <2>1, <2>2, HeldIs
    <2>4. CacheInv' /\ CartInv' /\ NewsInv'
      BY <2>1, <2>3 DEF CacheInv, CartInv, NewsInv
    <2>5. NoteInv'
      BY <2>1, <2>3 DEF NoteInv, Kept, Open
    <2>6. BoardData'
      BY <2>1, <2>3
    <2>. QED
      BY <2>4, <2>5, <2>6
  <1>5. CASE ListsFail
    <2>1. phase = "lists" /\ phase' = "tables" /\ held' = [held EXCEPT !.notes = {}] /\ missed' = TRUE
          /\ UNCHANGED <<cart, cached, writes, syncs, moves, meant, doubt, lost,
                         tenant, desk, board, news, mingled>>
      BY <1>5 DEF ListsFail
    <2>2. held' \in [cart : Cart, notes : SUBSET Notes] /\ held'.cart = held.cart
      BY <2>1, HeldIs
    <2>4. CacheInv' /\ CartInv' /\ NewsInv' /\ NoteInv'
      BY <2>1, <2>2 DEF CacheInv, CartInv, NewsInv, NoteInv
    <2>6. BoardData'
      BY <2>1, <2>2
    <2>. QED
      BY <2>4, <2>6
  <1>6. CASE Initialized
    <2>1. phase = "tables" /\ phase' = "on" /\ cart' = held.cart /\ board' = held.notes
          /\ UNCHANGED <<cached, writes, syncs, moves, meant, doubt, lost, held,
                         tenant, desk, news, missed, mingled>>
      BY <1>6 DEF Initialized
    <2>4. CacheInv' /\ CartInv' /\ NewsInv'
      BY <2>1 DEF CacheInv, CartInv, NewsInv
    <2>5. NoteInv'
      BY <2>1 DEF NoteInv, Kept
    <2>6. BoardData'
      BY <2>1, HeldIs
    <2>. QED
      BY <2>4, <2>5, <2>6
  <1>7. CASE Reload
    <2>1. /\ phase' = "off" /\ cart' = Empty /\ writes' = <<>> /\ board' = {} /\ news' = <<>>
          /\ held' = [cart |-> Empty, notes |-> {}]
          /\ lost' = (lost \/ writes # <<>>)
          /\ UNCHANGED <<cached, syncs, moves, meant, doubt, tenant, desk>>
      BY <1>7 DEF Reload
    <2>2. BoardData'
      BY <2>1, EmptyIs
    <2>3. NewsInv' /\ NoteInv'
      BY <2>1 DEF NewsInv, NoteInv
    <2>4. CartInv'
      BY <2>1 DEF CartInv
    <2>5. CacheInv'
      <3>. SUFFICES ASSUME ~lost' PROVE CacheInv'
        BY DEF CacheInv
      <3>1. ~lost /\ writes = <<>>
        BY <2>1
      <3>. QED
        BY <2>1, <3>1 DEF CacheInv
    <2>. QED
      BY <2>2, <2>3, <2>4, <2>5
  <1>. QED
    BY <1>1, <1>2, <1>3, <1>4, <1>5, <1>6, <1>7 DEF InitializeNext

LEMMA SyncKeeps ==
  ASSUME BoardData, CacheInv, CartInv, NewsInv, NoteInv,
         CartExpires \/ \E c \in syncs : SyncCart(c) \/ SyncFails(c)
  PROVE  BoardData' /\ CacheInv' /\ CartInv' /\ NewsInv' /\ NoteInv'
  <1>. USE DEF noteVars, BoardData
  <1>1. /\ syncs' \subseteq syncs /\ cached' \in Cart \cup {NoCart}
        /\ UNCHANGED <<phase, cart, writes, held, moves, meant, lost, tenant, desk, board, news, missed, mingled>>
    BY DEF CartExpires, SyncCart, SyncFails
  <1>2. CacheInv'
    <2>1. CASE CartExpires
      <3>1. cached' = NoCart /\ UNCHANGED syncs
        BY <2>1 DEF CartExpires
      <3>2. ~doubt' => ~doubt /\ cached = Empty
        BY <2>1 DEF CartExpires
      <3>3. CASE writes # <<>>
        BY <1>1, <3>3 DEF CacheInv
      <3>4. CASE writes = <<>>
        <4>. SUFFICES ASSUME ~lost, ~doubt' PROVE CacheInv'
          BY <1>1, <3>4 DEF CacheInv
        <4>1. ~doubt /\ cached = Empty
          BY <3>2
        <4>2. syncs # {} => syncs = {meant}
          BY <3>4, <4>1 DEF CacheInv
        <4>3. syncs = {} => meant = Empty
          BY <3>4, <4>1 DEF CacheInv
        <4>. QED
          BY <1>1, <3>1, <3>4, <4>2, <4>3 DEF CacheInv
      <3>. QED
        BY <3>3, <3>4
    <2>2. ASSUME NEW c \in syncs, SyncCart(c) PROVE CacheInv'
      <3>1. cached' = c /\ syncs' = syncs \ {c} /\ UNCHANGED doubt
        BY <2>2 DEF SyncCart
      <3>. QED
        BY <1>1, <3>1 DEF CacheInv
    <2>3. ASSUME NEW c \in syncs, SyncFails(c) PROVE CacheInv'
      BY <1>1, <2>3 DEF SyncFails, CacheInv
    <2>. QED
      BY <2>1, <2>2, <2>3
  <1>3. CartInv' /\ NewsInv'
    BY <1>1 DEF CartInv, NewsInv
  <1>4. NoteInv'
    BY <1>1 DEF NoteInv, Kept
  <1>5. BoardData'
    BY <1>1
  <1>. QED
    BY <1>2, <1>3, <1>4, <1>5

\* An event of the shop goes to whoever listens.
LEMMA NewsAppended ==
  ASSUME BoardData, NewsInv, NEW n \in Notes, NEW s \in {"open", "gone"},
         desk' = [desk EXCEPT ![n] = s], news' = Append(news, <<n, s>>), phase' = phase, phase # "off"
  PROVE  /\ desk' \in [Notes -> {"none", "open", "gone"}] /\ news' \in Seq(Notes \X {"open", "gone"})
         /\ NewsInv'
         /\ \A m \in Notes : (\E i \in DOMAIN news' : news'[i][1] = m)
                               <=> m = n \/ \E i \in DOMAIN news : news[i][1] = m
         /\ \A m \in Notes \ {n} : desk'[m] = desk[m]
  <1>. USE DEF BoardData
  <1>. DEFINE k == Len(news)
  <1>1. k \in Nat /\ DOMAIN news = 1..k /\ news' \in Seq(Notes \X {"open", "gone"})
        /\ DOMAIN news' = 1..(k + 1) /\ news'[k + 1] = <<n, s>> /\ \A i \in 1..k : news'[i] = news[i]
    <2>1. <<n, s>> \in Notes \X {"open", "gone"}
      OBVIOUS
    <2>2. k \in Nat /\ DOMAIN news = 1..k
      BY LenProperties
    <2>3. /\ news' \in Seq(Notes \X {"open", "gone"}) /\ Len(news') = k + 1
          /\ \A i \in 1..k : news'[i] = news[i]
          /\ news'[k + 1] = <<n, s>>
      BY <2>1, AppendProperties
    <2>. QED
      BY <2>2, <2>3, LenProperties
  <1>. HIDE DEF k
  <1>2. \A i \in 1..k : news[i][1] \in Notes
    BY <1>1, ElementOfSeq DEF k
  <1>3. NewsInv'
    <2>. SUFFICES ASSUME NEW i \in 1..(k + 1),
                         \A j \in 1..(k + 1) : j > i => news'[j][1] # news'[i][1]
         PROVE  news'[i][2] = desk'[news'[i][1]]
      BY <1>1 DEF NewsInv
    <2>1. CASE i = k + 1
      BY <1>1, <2>1
    <2>2. CASE i # k + 1
      <3>1. i \in 1..k /\ news'[i] = news[i]
        BY <1>1, <2>2
      <3>2. news[i][1] # n
        <4>1. k + 1 > i /\ k + 1 \in 1..(k + 1)
          BY <1>1, <3>1
        <4>. QED
          BY <1>1, <3>1, <4>1
      <3>3. \A j \in 1..k : j > i => news[j][1] # news[i][1]
        BY <1>1, <3>1
      <3>4. news[i][2] = desk[news[i][1]]
        BY <1>1, <3>1, <3>3 DEF NewsInv
      <3>. QED
        BY <1>2, <3>1, <3>2, <3>4
    <2>. QED
      BY <2>1, <2>2
  <1>4. \A m \in Notes : (\E i \in DOMAIN news' : news'[i][1] = m)
                           <=> m = n \/ \E i \in DOMAIN news : news[i][1] = m
    <2>. TAKE m \in Notes
    <2>1. CASE m = n
      BY <1>1, <2>1
    <2>2. CASE m # n
      BY <1>1, <2>2
    <2>. QED
      BY <2>1, <2>2
  <1>. QED
    BY <1>1, <1>3, <1>4

LEMMA HappensKeeps ==
  ASSUME BoardData, CacheInv, CartInv, NewsInv, NoteInv, NEW n \in Notes, Happens(n)
  PROVE  BoardData' /\ CacheInv' /\ CartInv' /\ NewsInv' /\ NoteInv'
  <1>. USE BoardAssumption DEF cartVars, BoardData
  <1>1. PICK s \in {"open", "gone"} : desk' = [desk EXCEPT ![n] = s]
    BY DEF Happens
  <1>2. /\ news' = IF phase = "off" THEN news ELSE Append(news, <<n, desk'[n]>>)
        /\ UNCHANGED <<phase, cart, cached, writes, syncs, moves, meant, doubt, lost,
                       tenant, held, board, missed, mingled>>
    BY DEF Happens
  <1>3. desk'[n] = s /\ desk' \in [Notes -> {"none", "open", "gone"}]
    BY <1>1
  <1>4. CacheInv' /\ CartInv'
    BY <1>2 DEF CacheInv, CartInv
  <1>5. CASE phase = "off"
    <2>1. news = <<>> /\ news' = <<>>
      BY <1>2, <1>5 DEF NewsInv
    <2>2. NewsInv' /\ NoteInv'
      BY <1>2, <1>5, <2>1 DEF NewsInv, NoteInv
    <2>. QED
      BY <1>2, <1>3, <1>4, <2>1, <2>2
  <1>6. CASE phase # "off"
    <2>1. /\ news' \in Seq(Notes \X {"open", "gone"})
          /\ NewsInv'
          /\ \A m \in Notes : (\E i \in DOMAIN news' : news'[i][1] = m)
                                <=> m = n \/ \E i \in DOMAIN news : news[i][1] = m
          /\ \A m \in Notes \ {n} : desk'[m] = desk[m]
      BY <1>1, <1>2, <1>3, <1>6, NewsAppended
    <2>2. NoteInv'
      <3>1. Kept' = Kept
        BY <1>2 DEF Kept
      <3>. QED
        BY <1>2, <2>1, <3>1 DEF NoteInv
    <2>. QED
      BY <1>2, <1>3, <1>4, <2>1, <2>2
  <1>. QED
    BY <1>5, <1>6

LEMMA RecordKeeps ==
  ASSUME BoardData, CacheInv, CartInv, NewsInv, NoteInv, NEW n \in Notes, RecordCash(n)
  PROVE  BoardData' /\ CacheInv' /\ CartInv' /\ NewsInv' /\ NoteInv'
  <1>. USE BoardAssumption DEF cartVars, BoardData
  <1>1. /\ phase # "off" /\ NoteOf[n] = tenant
        /\ desk' = [desk EXCEPT ![n] = "open"] /\ news' = Append(news, <<n, "open">>)
        /\ board' \in {board, board \cup {n}}
        /\ UNCHANGED <<phase, cart, cached, writes, syncs, moves, meant, doubt, lost,
                       tenant, held, missed, mingled>>
    BY DEF RecordCash
  <1>2. CacheInv' /\ CartInv'
    BY <1>1 DEF CacheInv, CartInv
  <1>3. /\ desk' \in [Notes -> {"none", "open", "gone"}] /\ news' \in Seq(Notes \X {"open", "gone"})
        /\ NewsInv'
        /\ \A m \in Notes : (\E i \in DOMAIN news' : news'[i][1] = m)
                              <=> m = n \/ \E i \in DOMAIN news : news[i][1] = m
        /\ \A m \in Notes \ {n} : desk'[m] = desk[m]
    BY <1>1, NewsAppended
  <1>4. NoteInv'
    <2>1. Kept' \subseteq Kept \cup {n} /\ Kept \subseteq Kept'
      BY <1>1 DEF Kept
    <2>. QED
      BY <1>1, <1>3, <2>1 DEF NoteInv
  <1>5. BoardData'
    BY <1>1, <1>3
  <1>. QED
    BY <1>2, <1>3, <1>4, <1>5

LEMMA HearKeeps ==
  ASSUME BoardData, CacheInv, CartInv, NewsInv, NoteInv, Hear
  PROVE  BoardData' /\ CacheInv' /\ CartInv' /\ NewsInv' /\ NoteInv'
  <1>. USE BoardAssumption DEF cartVars, BoardData
  <1>. DEFINE n == Head(news)[1]
              s == Head(news)[2]
              k == Len(news)
  <1>1. /\ news # <<>> /\ news' = Tail(news)
        /\ board' = IF s = "open" THEN board \cup {n} ELSE board \ {n}
        /\ missed' = (missed \/ phase = "tables")
        /\ mingled' = (mingled \/ NoteOf[n] # tenant)
        /\ UNCHANGED <<phase, cart, cached, writes, syncs, moves, meant, doubt, lost, tenant, held, desk>>
    BY DEF Hear
  <1>2. /\ Head(news) \in Notes \X {"open", "gone"} /\ news' \in Seq(Notes \X {"open", "gone"})
        /\ Len(news') = k - 1 /\ \A i \in 1..(k - 1) : news'[i] = news[i + 1]
    BY <1>1, HeadTailProperties
  <1>3. k \in Nat \ {0} /\ DOMAIN news = 1..k /\ DOMAIN news' = 1..(k - 1) /\ Head(news) = news[1]
    <2>1. k \in Nat /\ DOMAIN news = 1..k /\ k # 0
      BY <1>1, LenProperties, EmptySeq
    <2>2. DOMAIN news' = 1..(k - 1)
      BY <1>2, LenProperties
    <2>. QED
      BY <2>1, <2>2, <1>1
  <1>4. n \in Notes /\ s \in {"open", "gone"} /\ news[1][1] = n /\ news[1][2] = s
    BY <1>2, <1>3
  <1>. HIDE DEF n, s, k
  <1>5. CacheInv' /\ CartInv'
    BY <1>1 DEF CacheInv, CartInv
  <1>6. \A i \in 1..(k - 1) : i + 1 \in 1..k
    BY <1>3
  <1>7. NewsInv'
    <2>0. phase' # "off"
      BY <1>1 DEF NewsInv
    <2>. SUFFICES ASSUME NEW i \in 1..(k - 1),
                         \A j \in 1..(k - 1) : j > i => news'[j][1] # news'[i][1]
         PROVE  news'[i][2] = desk[news'[i][1]]
      BY <1>1, <1>3, <2>0 DEF NewsInv
    <2>1. ASSUME NEW j \in 1..k, j > i + 1 PROVE news[j][1] # news[i + 1][1]
      <3>1. j - 1 \in 1..(k - 1) /\ j - 1 > i /\ (j - 1) + 1 = j
        BY <1>3, <2>1
      <3>. QED
        BY <1>2, <3>1
    <2>2. i + 1 \in 1..k
      BY <1>6
    <2>3. news[i + 1][2] = desk[news[i + 1][1]]
      BY <1>3, <2>1, <2>2 DEF NewsInv
    <2>. QED
      BY <1>2, <2>3
  <1>8. ASSUME NEW m \in Notes \ {n}, NEW i \in DOMAIN news, news[i][1] = m
        PROVE  \E j \in DOMAIN news' : news'[j][1] = m
    <2>1. i # 1 /\ i \in 1..k
      BY <1>3, <1>4, <1>8
    <2>2. i - 1 \in 1..(k - 1) /\ (i - 1) + 1 = i
      BY <1>3, <2>1
    <2>. QED
      BY <1>2, <1>3, <1>8, <2>2
  <1>9. (\A j \in DOMAIN news' : news'[j][1] # n) => s = desk[n]
    <2>. SUFFICES ASSUME \A j \in DOMAIN news' : news'[j][1] # n PROVE s = desk[n]
      OBVIOUS
    <2>1. ASSUME NEW j \in 1..k, j > 1 PROVE news[j][1] # n
      <3>1. j - 1 \in 1..(k - 1) /\ (j - 1) + 1 = j
        BY <1>3, <2>1
      <3>2. news'[j - 1][1] # n
        BY <1>3, <3>1
      <3>3. news'[j - 1] = news[j]
        BY <1>2, <3>1
      <3>. QED
        BY <3>2, <3>3
    <2>2. 1 \in DOMAIN news
      BY <1>3
    <2>. QED
      BY <1>3, <1>4, <2>1, <2>2 DEF NewsInv
  <1>10. NoteInv'
    <2>. SUFFICES ASSUME ~missed', phase \in {"tables", "on"} PROVE NoteInv'
      BY <1>1 DEF NoteInv
    <2>1. ~missed /\ phase = "on" /\ phase' = "on" /\ Kept = board /\ Kept' = board'
      BY <1>1 DEF Kept
    <2>2. ASSUME NEW m \in Notes, NoteOf[m] = tenant
          PROVE  (\E i \in DOMAIN news' : news'[i][1] = m) \/ (m \in board' <=> desk[m] = "open")
      <3>1. CASE m = n
        BY <1>1, <1>4, <1>9, <3>1
      <3>2. CASE m # n
        <4>1. m \in board' <=> m \in board
          BY <1>1, <3>2
        <4>2. (\E i \in DOMAIN news : news[i][1] = m) \/ (m \in board <=> desk[m] = "open")
          BY <2>1, <2>2 DEF NoteInv
        <4>. QED
          BY <1>8, <3>2, <4>1, <4>2
      <3>. QED
        BY <3>1, <3>2
    <2>3. mingled' \/ \A m \in board' : NoteOf[m] = tenant
      <3>. SUFFICES ASSUME ~mingled' PROVE \A m \in board' : NoteOf[m] = tenant
        OBVIOUS
      <3>1. ~mingled /\ NoteOf[n] = tenant
        BY <1>1
      <3>2. \A m \in board : NoteOf[m] = tenant
        BY <2>1, <3>1 DEF NoteInv
      <3>. QED
        BY <1>1, <3>1, <3>2
    <2>. QED
      BY <1>1, <2>1, <2>2, <2>3 DEF NoteInv
  <1>11. BoardData'
    <2>1. board' \subseteq Notes
      BY <1>1, <1>4
    <2>. QED
      BY <1>1, <1>2, <2>1
  <1>. QED
    BY <1>5, <1>7, <1>10, <1>11

\* A till that is on, and has lost nothing, has the cart meant; one that has missed nothing, the open notes.
LEMMA BoardKeeps == BoardInv /\ [BoardNext]_boardVars => BoardInv'
  <1>. SUFFICES ASSUME BoardInv, [BoardNext]_boardVars PROVE BoardInv'
    OBVIOUS
  <1>1. BoardData /\ BoardFlags /\ CacheInv /\ CartInv /\ NewsInv /\ NoteInv
    BY DEF BoardInv, BoardTypeOK, BoardData, BoardFlags
  <1>2. BoardFlags'
    BY <1>1, BoardFlagsKept
  <1>3. BoardData' /\ CacheInv' /\ CartInv' /\ NewsInv' /\ NoteInv'
    <2>1. ASSUME NEW p \in Products \cup {Unlisted}, AddToCart(p) \/ RemoveFromCart(p) \/ ClearCart
          PROVE  BoardData' /\ CacheInv' /\ CartInv' /\ NewsInv' /\ NoteInv'
      <3>1. PICK new \in Cart, intended \in Cart : Edit(new, intended) /\ (cart = meant => new = intended)
        BY <1>1, <2>1, EditIs
      <3>. QED
        BY <1>1, <3>1, EditKeeps
    <2>2. CASE ClearCart
      BY <2>1, <2>2
    <2>3. CASE PostCart
      BY <1>1, <2>3, PostKeeps
    <2>4. ASSUME CartExpires \/ \E c \in syncs : SyncCart(c) \/ SyncFails(c)
          PROVE  BoardData' /\ CacheInv' /\ CartInv' /\ NewsInv' /\ NoteInv'
      BY <1>1, <2>4, SyncKeeps
    <2>5. CASE InitializeNext
      BY <1>1, <2>5, InitializeKeeps, GetCartKeeps
    <2>6. ASSUME NEW n \in Notes, Happens(n) \/ RecordCash(n)
          PROVE  BoardData' /\ CacheInv' /\ CartInv' /\ NewsInv' /\ NoteInv'
      BY <1>1, <2>6, HappensKeeps, RecordKeeps
    <2>7. CASE Hear
      BY <1>1, <2>7, HearKeeps
    <2>8. CASE Miss
      BY <1>1, <2>8, EmptySeq DEF Miss, cartVars, BoardData, CacheInv, CartInv, NewsInv, NoteInv
    <2>9. ASSUME NEW t \in Tenants, SelectTillTenant(t)
          PROVE  BoardData' /\ CacheInv' /\ CartInv' /\ NewsInv' /\ NoteInv'
      BY <1>1, <2>9 DEF SelectTillTenant, cartVars, BoardData, CacheInv, CartInv, NewsInv, NoteInv
    <2>10. CASE UNCHANGED boardVars
      BY <1>1, <2>10 DEF boardVars, BoardData, CacheInv, CartInv, NewsInv, NoteInv, Kept
    <2>. QED
      BY <2>1, <2>2, <2>3, <2>4, <2>5, <2>6, <2>7, <2>8, <2>9, <2>10 DEF BoardNext, CartNext, NoteNext
  <1>. QED
    BY <1>2, <1>3 DEF BoardInv, BoardTypeOK, BoardData, BoardFlags

LEMMA BoardStart ==
  ASSUME NEW edits \in Nat, NEW preset \in Tenants \cup {Nothing}, BoardInit(edits, preset)
  PROVE  BoardInv
  <1>1. BoardTypeOK
    BY EmptySeq, EmptyIs DEF BoardInit, BoardTypeOK
  <1>2. CacheInv /\ CartInv /\ NewsInv /\ NoteInv
    BY DEF BoardInit, CacheInv, CartInv, NewsInv, NoteInv
  <1>. QED
    BY <1>1, <1>2 DEF BoardInv

LEMMA BoardFollows == BoardInv => CartKept /\ BoardKept
  <1>. SUFFICES ASSUME BoardInv PROVE CartKept /\ BoardKept
    OBVIOUS
  <1>1. CartKept
    BY DEF BoardInv, CartInv, CartKept
  <1>2. ASSUME phase = "on", news = <<>>, ~missed
        PROVE  /\ tenant # Nothing => Open = {n \in board : NoteOf[n] = tenant}
               /\ mingled \/ \A n \in board : NoteOf[n] = tenant
    <2>1. Kept = board /\ DOMAIN news = {}
      BY <1>2 DEF Kept
    <2>2. \A n \in Notes : NoteOf[n] = tenant => (n \in board <=> desk[n] = "open")
      BY <1>2, <2>1 DEF BoardInv, NoteInv
    <2>3. mingled \/ \A n \in board : NoteOf[n] = tenant
      BY <1>2, <2>1 DEF BoardInv, NoteInv
    <2>4. board \subseteq Notes
      BY DEF BoardInv, BoardTypeOK
    <2>. QED
      BY <2>2, <2>3, <2>4 DEF Open
  <1>. QED
    BY <1>1, <1>2 DEF BoardKept

-----------------------------------------------------------------------------
(* The customer's page of an order.                                          *)

Writes == {"stored", "again", "read", "served"}

\* Who meets whom is noted, as long as both are under way.
MeetInv ==
  /\ fetching = (fetch.at # "idle")
  /\ toggle.at # "idle" /\ registration.at # "idle" => tangled /\ uncertain
  /\ fetch.at # "idle" /\ (toggle.at # "idle" \/ registration.at # "idle" \/ sending # "idle") => tangled /\ uncertain

\* What an untangled request has read or is about to write is what there is.
GraspInv ==
  ~tangled =>
    /\ prefs = consent
    /\ toggle.at \in {"read", "served"} => toggle.row = prefs
    /\ registration.at \in {"read", "served"} => registration.row = prefs
    /\ registration.at \in {"asking", "sent"} => registration.slot = prefs["slot"]
    /\ fetch.at = "served" => fetch.got.prefs = prefs
    /\ ~broken /\ toggle.at # "served" => tracking.prefs["slot"] = prefs["slot"]

\* What the page shows, or is about to.
ShownInv ==
  /\ sending = "served" => feedback
  /\ ~uncertain =>
       /\ fetch.at = "served" => fetch.got.prefs = prefs /\ fetch.got.feedback = feedback
       /\ toggle.at = "served" => toggle.row = prefs
       /\ registration.at = "served" => registration.row = prefs
       /\ ~broken /\ fetch.at = "idle" =>
            /\ toggle.at # "served" /\ registration.at \notin Writes => tracking.prefs = prefs
            /\ sending # "served" => tracking.feedback = feedback

\* Feedback is asked for when the order is delivered.
AskedInv ==
  /\ tracking.delivered \/ (fetch.at = "served" /\ fetch.got.delivered) => order = "DELIVERED"
  /\ sending # "idle" \/ feedback => order = "DELIVERED" \/ forced

TrackingInv == TrackingTypeOK /\ MeetInv /\ GraspInv /\ ShownInv /\ AskedInv

LEMMA OrderStart ==
  ASSUME NEW first \in Prefs, NEW force \in BOOLEAN, NEW bound \in Nat, TrackingInit(first, force, bound)
  PROVE  TrackingInv
  BY DEF TrackingInit, TrackingInv, TrackingTypeOK, MeetInv, GraspInv, ShownInv, AskedInv, Prefs,
         Snapshot, Toggle, Register, Field, Writes

\* What is written in the place of a row, a change, a registration or a snapshot is one.
LEMMA RowIs ==
  /\ "push" \in Field /\ "slot" \in Field
  /\ \A row \in Prefs, f \in Field, v \in BOOLEAN :
       [row EXCEPT ![f] = v] \in Prefs /\ PreferenceRow(row, f, v) \in Prefs
  /\ \A row \in Prefs, v \in BOOLEAN : [row EXCEPT !["push"] = TRUE, !["slot"] = v] \in Prefs
  /\ \A row \in Prefs, f \in Field : row[f] \in BOOLEAN
  BY DEF PreferenceRow, Prefs, Field

LEMMA ToggleIs ==
  \A t \in Toggle :
    /\ t.row \in Prefs /\ t.field \in Field /\ t.value \in BOOLEAN
    /\ [t EXCEPT !.at = "idle"] \in Toggle
    /\ \A row \in Prefs : [t EXCEPT !.at = "read", !.row = row] \in Toggle
                          /\ [t EXCEPT !.at = "served", !.row = row] \in Toggle
    /\ \A f \in Field, v \in BOOLEAN : [t EXCEPT !.at = "sent", !.field = f, !.value = v] \in Toggle
  BY DEF Toggle

LEMMA RegisterIs ==
  \A r \in Register :
    /\ r.row \in Prefs /\ r.slot \in BOOLEAN
    /\ \A a \in {"idle", "sent", "stored", "again"} : [r EXCEPT !.at = a] \in Register
    /\ \A row \in Prefs : [r EXCEPT !.at = "read", !.row = row] \in Register
                          /\ [r EXCEPT !.at = "served", !.row = row] \in Register
    /\ \A v \in BOOLEAN : [r EXCEPT !.at = "asking", !.slot = v] \in Register
  BY DEF Register

LEMMA SnapshotIs ==
  /\ \A s \in Snapshot :
       /\ s.prefs \in Prefs /\ s.delivered \in BOOLEAN /\ s.feedback \in BOOLEAN
       /\ \A row \in Prefs : [s EXCEPT !.prefs = row] \in Snapshot
       /\ [s EXCEPT !.feedback = TRUE] \in Snapshot
  /\ \A row \in Prefs, d \in BOOLEAN, f \in BOOLEAN :
       [prefs |-> row, delivered |-> d, feedback |-> f] \in Snapshot
  BY DEF Snapshot

FlagType ==
  /\ feedback \in BOOLEAN /\ fetching \in BOOLEAN /\ broken \in BOOLEAN
  /\ forced \in BOOLEAN /\ tangled \in BOOLEAN /\ uncertain \in BOOLEAN
DataType ==
  /\ prefs \in Prefs /\ order \in {"UNDERWAY", "DELIVERED"} /\ tracking \in Snapshot
  /\ fetch \in [at : {"idle", "sent", "served"}, got : Snapshot]
  /\ toggle \in Toggle /\ registration \in Register /\ sending \in {"idle", "sent", "served"}
  /\ clicks \in Nat /\ consent \in Prefs

LEMMA OrderFlags == FlagType /\ [TrackingNext]_trackingVars => FlagType'
  <1>. SUFFICES ASSUME FlagType, [TrackingNext]_trackingVars PROVE FlagType'
    OBVIOUS
  <1>. USE DEF FlagType, orderVars, trackVars, requestVars, trackNotes
  <1>0. ASSUME NEW meets, Click(meets) PROVE tangled' \in BOOLEAN
    BY <1>0, Zenon DEF Click
  <1>. USE DEF Click
  <1>1. CASE LoadTracking
    <2>1. uncertain' \in BOOLEAN
      BY <1>1, Zenon DEF LoadTracking
    <2>. QED
      BY <1>0, <1>1, <2>1 DEF LoadTracking
  <1>2. ASSUME NEW f \in Field, HandlePreferenceToggle(f) PROVE FlagType'
    <2>1. uncertain' \in BOOLEAN
      BY <1>2, Zenon DEF HandlePreferenceToggle
    <2>. QED
      BY <1>0, <1>2, <2>1 DEF HandlePreferenceToggle
  <1>3. CASE HandlePushRegistration
    <2>1. uncertain' \in BOOLEAN
      BY <1>3, Zenon DEF HandlePushRegistration
    <2>. QED
      BY <1>0, <1>3, <2>1 DEF HandlePushRegistration
  <1>4. CASE HandleFeedbackSubmit
    BY <1>0, <1>4 DEF HandleFeedbackSubmit
  <1>5. CASE RegistrationFails
    <2>1. uncertain' \in BOOLEAN
      BY <1>5, Zenon DEF RegistrationFails
    <2>. QED
      BY <1>5, <2>1 DEF RegistrationFails
  <1>6. CASE GetTrackingSnapshot \/ TrackingArrives \/ TrackingFails \/ FindPreference
    BY <1>6 DEF GetTrackingSnapshot, TrackingArrives, TrackingFails, FindPreference
  <1>7. CASE UpdateNotificationPreferences \/ ToggleArrives \/ ToggleFails \/ RegistrationAdvances
    BY <1>7 DEF UpdateNotificationPreferences, ToggleArrives, ToggleFails, RegistrationAdvances
  <1>8. CASE RegisterPushSubscription \/ AllowStatusPush \/ RegistrationArrives
    BY <1>8 DEF RegisterPushSubscription, AllowStatusPush, RegistrationArrives
  <1>9. CASE SubmitFeedback \/ FeedbackArrives \/ FeedbackFails \/ OrderDelivered
    BY <1>9 DEF SubmitFeedback, FeedbackArrives, FeedbackFails, OrderDelivered
  <1>10. CASE UNCHANGED trackingVars
    BY <1>10 DEF trackingVars
  <1>. QED
    BY <1>1, <1>2, <1>3, <1>4, <1>5, <1>6, <1>7, <1>8, <1>9, <1>10 DEF TrackingNext

LEMMA OrderData == FlagType /\ DataType /\ [TrackingNext]_trackingVars => DataType'
  <1>. SUFFICES ASSUME FlagType, DataType, [TrackingNext]_trackingVars PROVE DataType'
    OBVIOUS
  <1>. USE DEF DataType, orderVars, trackVars, requestVars, trackNotes
  <1>1. CASE LoadTracking
    BY <1>1 DEF LoadTracking, Click
  <1>2. ASSUME NEW f \in Field, HandlePreferenceToggle(f) PROVE DataType'
    <2>. DEFINE v == ~tracking.prefs[f]
    <2>1. v \in BOOLEAN
      OBVIOUS
    <2>3. toggle' = [toggle EXCEPT !.at = "sent", !.field = f, !.value = v]
      BY <1>2 DEF HandlePreferenceToggle
    <2>. HIDE DEF v
    <2>2. toggle' \in Toggle
      BY <2>1, <2>3, ToggleIs
    <2>. QED
      BY <1>2, <2>2 DEF HandlePreferenceToggle, Click
  <1>3. CASE HandlePushRegistration
    <2>1. tracking.prefs["slot"] \in BOOLEAN
      BY RowIs, SnapshotIs
    <2>2. registration' \in Register
      BY <1>3, <2>1, RegisterIs DEF HandlePushRegistration
    <2>. QED
      BY <1>3, <2>2 DEF HandlePushRegistration, Click
  <1>4. CASE GetTrackingSnapshot
    <2>1. fetch'.got \in Snapshot /\ fetch' = [at |-> "served", got |-> fetch'.got]
      BY <1>4, SnapshotIs DEF GetTrackingSnapshot, FlagType
    <2>. QED
      BY <1>4, <2>1 DEF GetTrackingSnapshot
  <1>5. CASE TrackingArrives \/ TrackingFails
    BY <1>5 DEF TrackingArrives, TrackingFails
  <1>6. CASE FindPreference
    BY <1>6, ToggleIs, RegisterIs DEF FindPreference
  <1>7. CASE UpdateNotificationPreferences
    <2>1. prefs' \in Prefs /\ consent' \in Prefs
      BY <1>7, ToggleIs, RowIs DEF UpdateNotificationPreferences
    <2>2. \A row \in Prefs : [toggle EXCEPT !.at = "served", !.row = row] \in Toggle
      BY ToggleIs
    <2>3. toggle' \in Toggle
      BY <1>7, <2>1, <2>2 DEF UpdateNotificationPreferences
    <2>4. UNCHANGED <<order, tracking, fetch, registration, sending, clicks>>
      BY <1>7 DEF UpdateNotificationPreferences
    <2>. QED
      BY <2>1, <2>3, <2>4
  <1>8. CASE ToggleArrives
    <2>1. tracking' \in Snapshot
      BY <1>8, ToggleIs, SnapshotIs DEF ToggleArrives
    <2>. QED
      BY <1>8, <2>1, ToggleIs DEF ToggleArrives
  <1>16. CASE ToggleFails
    BY <1>16, ToggleIs DEF ToggleFails
  <1>9. CASE RegistrationAdvances
    BY <1>9, RegisterIs DEF RegistrationAdvances
  <1>10. CASE RegisterPushSubscription
    <2>1. consent' \in Prefs
      BY <1>10, RowIs DEF RegisterPushSubscription
    <2>2. prefs' \in Prefs
      BY <1>10, RegisterIs, RowIs DEF RegisterPushSubscription
    <2>. QED
      BY <1>10, <2>1, <2>2, RegisterIs DEF RegisterPushSubscription
  <1>11. CASE AllowStatusPush
    <2>1. prefs' \in Prefs /\ consent' \in Prefs
      BY <1>11, RegisterIs, RowIs DEF AllowStatusPush
    <2>2. \A row \in Prefs : [registration EXCEPT !.at = "served", !.row = row] \in Register
      BY RegisterIs
    <2>3. registration' \in Register
      BY <1>11, <2>1, <2>2 DEF AllowStatusPush
    <2>4. UNCHANGED <<order, tracking, fetch, toggle, sending, clicks>>
      BY <1>11 DEF AllowStatusPush
    <2>. QED
      BY <2>1, <2>3, <2>4
  <1>12. CASE RegistrationArrives
    <2>1. tracking' \in Snapshot
      BY <1>12, RegisterIs, SnapshotIs DEF RegistrationArrives
    <2>. QED
      BY <1>12, <2>1, RegisterIs DEF RegistrationArrives
  <1>17. CASE RegistrationFails
    BY <1>17, RegisterIs DEF RegistrationFails
  <1>13. CASE HandleFeedbackSubmit \/ SubmitFeedback \/ FeedbackFails \/ OrderDelivered
    BY <1>13 DEF HandleFeedbackSubmit, SubmitFeedback, FeedbackFails, OrderDelivered, Click
  <1>14. CASE FeedbackArrives
    BY <1>14, SnapshotIs DEF FeedbackArrives
  <1>15. CASE UNCHANGED trackingVars
    BY <1>15 DEF trackingVars
  <1>. QED
    BY <1>1, <1>2, <1>3, <1>4, <1>5, <1>6, <1>7, <1>8, <1>9, <1>10, <1>11, <1>12, <1>13, <1>14, <1>15,
       <1>16, <1>17
    DEF TrackingNext

LEMMA OrderTypes == TrackingInv /\ [TrackingNext]_trackingVars => TrackingTypeOK'
  <1>1. TrackingTypeOK <=> FlagType /\ DataType
    BY DEF TrackingTypeOK, FlagType, DataType
  <1>2. TrackingTypeOK' <=> FlagType' /\ DataType'
    BY DEF TrackingTypeOK, FlagType, DataType
  <1>. QED
    BY <1>1, <1>2, OrderFlags, OrderData DEF TrackingInv

LEMMA OrderMeets == TrackingInv /\ [TrackingNext]_trackingVars => MeetInv'
  <1>. SUFFICES ASSUME TrackingTypeOK, MeetInv, [TrackingNext]_trackingVars PROVE MeetInv'
    BY DEF TrackingInv
  <1>. USE DEF TrackingTypeOK, Toggle, Register, MeetInv, orderVars, trackVars, requestVars, trackNotes
  <1>1. CASE LoadTracking \/ HandlePushRegistration
    BY <1>1 DEF LoadTracking, HandlePushRegistration, Click, TrackingAtRest, TrackingVisible
  <1>7. ASSUME NEW f \in Field, HandlePreferenceToggle(f) PROVE MeetInv'
    <2>1. /\ toggle.at = "idle" /\ ~fetching /\ UNCHANGED <<fetching, fetch, registration, sending>>
          /\ registration.at # "idle" => tangled' /\ uncertain'
      BY <1>7 DEF HandlePreferenceToggle, Click, TrackingVisible
    <2>2. fetch.at = "idle" /\ fetch'.at = "idle" /\ registration'.at = registration.at
      BY <2>1
    <2>3. fetching' = (fetch'.at # "idle")
      BY <2>1, <2>2
    <2>. QED
      BY <2>1, <2>2, <2>3
  <1>2. CASE GetTrackingSnapshot
    <2>1. /\ fetch.at # "idle" /\ fetch'.at # "idle"
          /\ UNCHANGED <<fetching, toggle, registration, sending, tangled, uncertain>>
      BY <1>2 DEF GetTrackingSnapshot
    <2>. QED
      BY <2>1
  <1>9. CASE TrackingArrives \/ TrackingFails
    BY <1>9 DEF TrackingArrives, TrackingFails
  <1>8. CASE FindPreference
    BY <1>8 DEF FindPreference
  <1>3. CASE UpdateNotificationPreferences \/ ToggleArrives \/ ToggleFails \/ RegistrationAdvances
    BY <1>3 DEF UpdateNotificationPreferences, ToggleArrives, ToggleFails, RegistrationAdvances
  <1>4. CASE RegisterPushSubscription \/ AllowStatusPush \/ RegistrationArrives \/ RegistrationFails
    BY <1>4 DEF RegisterPushSubscription, AllowStatusPush, RegistrationArrives, RegistrationFails
  <1>5. CASE HandleFeedbackSubmit \/ SubmitFeedback \/ FeedbackArrives \/ FeedbackFails \/ OrderDelivered
    BY <1>5 DEF HandleFeedbackSubmit, SubmitFeedback, FeedbackArrives, FeedbackFails, OrderDelivered,
                Click, TrackingVisible
  <1>6. CASE UNCHANGED trackingVars
    BY <1>6 DEF trackingVars
  <1>. QED
    BY <1>1, <1>2, <1>3, <1>4, <1>5, <1>6, <1>7, <1>8, <1>9 DEF TrackingNext

LEMMA OrderGrasps == TrackingInv /\ [TrackingNext]_trackingVars => GraspInv'
  <1>. SUFFICES ASSUME TrackingTypeOK, MeetInv, GraspInv, [TrackingNext]_trackingVars PROVE GraspInv'
    BY DEF TrackingInv
  <1>. USE DEF TrackingTypeOK, Toggle, Register, Snapshot, MeetInv, GraspInv,
               orderVars, trackVars, requestVars, trackNotes
  <1>1. CASE LoadTracking \/ (\E f \in Field : HandlePreferenceToggle(f)) \/ HandlePushRegistration
    BY <1>1 DEF LoadTracking, HandlePreferenceToggle, HandlePushRegistration, Click, TrackingAtRest,
                TrackingVisible
  <1>2. CASE GetTrackingSnapshot \/ TrackingArrives \/ TrackingFails
    BY <1>2 DEF GetTrackingSnapshot, TrackingArrives, TrackingFails
  <1>3. CASE FindPreference
    BY <1>3 DEF FindPreference
  <1>4. CASE UpdateNotificationPreferences
    BY <1>4 DEF UpdateNotificationPreferences, PreferenceRow
  <1>5. CASE ToggleArrives \/ ToggleFails \/ RegistrationAdvances
    BY <1>5 DEF ToggleArrives, ToggleFails, RegistrationAdvances
  <1>6. CASE RegisterPushSubscription
    BY <1>6 DEF RegisterPushSubscription, Prefs, Field
  <1>7. CASE AllowStatusPush
    BY <1>7 DEF AllowStatusPush, PreferenceRow, Prefs, Field
  <1>8. CASE RegistrationArrives \/ RegistrationFails
    BY <1>8 DEF RegistrationArrives, RegistrationFails
  <1>9. CASE HandleFeedbackSubmit \/ SubmitFeedback \/ FeedbackArrives \/ FeedbackFails \/ OrderDelivered
    BY <1>9 DEF HandleFeedbackSubmit, SubmitFeedback, FeedbackArrives, FeedbackFails, OrderDelivered,
                Click
  <1>10. CASE UNCHANGED trackingVars
    BY <1>10 DEF trackingVars
  <1>. QED
    BY <1>1, <1>2, <1>3, <1>4, <1>5, <1>6, <1>7, <1>8, <1>9, <1>10 DEF TrackingNext

LEMMA OrderShows == TrackingInv /\ [TrackingNext]_trackingVars => ShownInv'
  <1>. SUFFICES ASSUME TrackingTypeOK, MeetInv, ShownInv, [TrackingNext]_trackingVars PROVE ShownInv'
    BY DEF TrackingInv
  <1>. USE DEF TrackingTypeOK, Toggle, Register, Snapshot, MeetInv, ShownInv, Writes,
               orderVars, trackVars, requestVars, trackNotes
  <1>1. CASE LoadTracking \/ (\E f \in Field : HandlePreferenceToggle(f)) \/ HandlePushRegistration
    BY <1>1 DEF LoadTracking, HandlePreferenceToggle, HandlePushRegistration, Click, TrackingAtRest,
                TrackingVisible
  <1>2. CASE GetTrackingSnapshot \/ TrackingArrives \/ TrackingFails
    BY <1>2 DEF GetTrackingSnapshot, TrackingArrives, TrackingFails
  <1>3. CASE FindPreference
    BY <1>3 DEF FindPreference
  <1>4. CASE UpdateNotificationPreferences
    BY <1>4 DEF UpdateNotificationPreferences
  <1>5. CASE ToggleArrives \/ ToggleFails \/ RegistrationAdvances
    BY <1>5 DEF ToggleArrives, ToggleFails, RegistrationAdvances
  <1>6. CASE RegisterPushSubscription \/ AllowStatusPush
    BY <1>6 DEF RegisterPushSubscription, AllowStatusPush
  <1>7. CASE RegistrationArrives \/ RegistrationFails
    BY <1>7 DEF RegistrationArrives, RegistrationFails
  <1>8. CASE HandleFeedbackSubmit \/ SubmitFeedback \/ FeedbackArrives \/ FeedbackFails \/ OrderDelivered
    BY <1>8 DEF HandleFeedbackSubmit, SubmitFeedback, FeedbackArrives, FeedbackFails, OrderDelivered,
                Click, TrackingVisible
  <1>9. CASE UNCHANGED trackingVars
    BY <1>9 DEF trackingVars
  <1>. QED
    BY <1>1, <1>2, <1>3, <1>4, <1>5, <1>6, <1>7, <1>8, <1>9 DEF TrackingNext

LEMMA OrderAsks == TrackingInv /\ [TrackingNext]_trackingVars => AskedInv'
  <1>. SUFFICES ASSUME TrackingTypeOK, AskedInv, [TrackingNext]_trackingVars PROVE AskedInv'
    BY DEF TrackingInv
  <1>. USE DEF AskedInv, orderVars, trackVars, requestVars, trackNotes
  <1>1. CASE LoadTracking \/ HandlePushRegistration
    BY <1>1 DEF LoadTracking, HandlePushRegistration, Click, TrackingTypeOK
  <1>7. ASSUME NEW f \in Field, HandlePreferenceToggle(f) PROVE AskedInv'
    BY <1>7 DEF HandlePreferenceToggle, Click
  <1>2. CASE GetTrackingSnapshot \/ TrackingArrives \/ TrackingFails \/ FindPreference
    BY <1>2 DEF GetTrackingSnapshot, TrackingArrives, TrackingFails, FindPreference, TrackingTypeOK, Snapshot
  <1>3. CASE UpdateNotificationPreferences \/ ToggleArrives \/ ToggleFails \/ RegistrationAdvances
    BY <1>3 DEF UpdateNotificationPreferences, ToggleArrives, ToggleFails, RegistrationAdvances,
                TrackingTypeOK, Snapshot
  <1>4. CASE RegisterPushSubscription \/ AllowStatusPush
    <2>1. UNCHANGED <<order, feedback, tracking, fetch, sending, forced>>
      BY <1>4 DEF RegisterPushSubscription, AllowStatusPush
    <2>. QED
      BY <2>1
  <1>8. CASE RegistrationArrives \/ RegistrationFails
    BY <1>8 DEF RegistrationArrives, RegistrationFails, TrackingTypeOK, Snapshot
  <1>5. CASE HandleFeedbackSubmit \/ SubmitFeedback \/ FeedbackArrives \/ FeedbackFails \/ OrderDelivered
    BY <1>5 DEF HandleFeedbackSubmit, SubmitFeedback, FeedbackArrives, FeedbackFails, OrderDelivered,
                CanSubmitFeedback, Click, TrackingTypeOK, Snapshot
  <1>6. CASE UNCHANGED trackingVars
    BY <1>6 DEF trackingVars
  <1>. QED
    BY <1>1, <1>2, <1>3, <1>4, <1>5, <1>6, <1>7, <1>8 DEF TrackingNext

LEMMA OrderKept == TrackingInv /\ [TrackingNext]_trackingVars => TrackingInv'
  BY OrderTypes, OrderMeets, OrderGrasps, OrderShows, OrderAsks DEF TrackingInv

LEMMA ConsentFollows == TrackingInv => ConsentKept
  BY DEF TrackingInv, GraspInv, ShownInv, AskedInv, ConsentKept, TrackingVisible, TrackingAtRest, Writes

-----------------------------------------------------------------------------
(* All pages together.  A step is one of one scene, and leaves the others.   *)

FrontInv ==
  /\ scene \in Scenes
  /\ LinkInv /\ PagesInv /\ ReceiptInv /\ CatalogInv /\ CountInv
  /\ ControlInv /\ BoardInv /\ DeskInv /\ TrackingInv

LEMMA FrontStart == FrontInit => FrontInv
  <1>. SUFFICES ASSUME FrontInit PROVE FrontInv
    OBVIOUS
  <1>1. LinkInv
    BY LinkStart DEF FrontInit
  <1>2. PagesInv
    BY PagesStart DEF FrontInit
  <1>3. ReceiptInv /\ CatalogInv /\ CountInv
    BY FormsStart DEF FrontInit
  <1>4. ControlInv
    BY ControlStart DEF FrontInit
  <1>5. BoardInv
    BY BoardStart DEF FrontInit
  <1>6. DeskInv
    BY DeskStart DEF FrontInit
  <1>7. TrackingInv
    BY OrderStart DEF FrontInit
  <1>. QED
    BY <1>1, <1>2, <1>3, <1>4, <1>5, <1>6, <1>7 DEF FrontInit, FrontInv

\* What a step is to each page.
LEMMA StepOfEach ==
  ASSUME [Next]_vars
  PROVE  /\ [LinkNext]_linkVars /\ [PagesNext]_adminVars /\ [ControlNext]_controlVars
         /\ [ReceiptNext]_receiptVars /\ [CatalogNext]_catalogVars /\ [CountNext]_countVars
         /\ [BoardNext]_boardVars /\ [DeskNext]_deskVars /\ [TrackingNext]_trackingVars
         /\ scene' = scene
  <1>1. CASE UNCHANGED vars
    BY <1>1 DEF vars, formVars
  <1>2. CASE Next
    <2>1. scene' = scene
      BY <1>2 DEF Next
    <2>2. \/ LinkNext /\ UNCHANGED <<adminVars, formVars, controlVars, boardVars, deskVars, trackingVars>>
          \/ PagesNext /\ UNCHANGED <<linkVars, formVars, controlVars, boardVars, deskVars, trackingVars>>
          \/ /\ ReceiptNext \/ CatalogNext \/ CountNext
             /\ UNCHANGED <<linkVars, adminVars, controlVars, boardVars, deskVars, trackingVars>>
          \/ ControlNext /\ UNCHANGED <<linkVars, adminVars, formVars, boardVars, deskVars, trackingVars>>
          \/ BoardNext /\ UNCHANGED <<linkVars, adminVars, formVars, controlVars, deskVars, trackingVars>>
          \/ DeskNext /\ UNCHANGED <<linkVars, adminVars, formVars, controlVars, boardVars, trackingVars>>
          \/ TrackingNext /\ UNCHANGED <<linkVars, adminVars, formVars, controlVars, boardVars, deskVars>>
      BY <1>2 DEF Next, BoardNext
    <2>3. /\ ReceiptNext => UNCHANGED <<catalogVars, countVars>>
          /\ CatalogNext => UNCHANGED <<receiptVars, countVars>>
          /\ CountNext => UNCHANGED <<receiptVars, catalogVars>>
      BY DEF ReceiptNext, CatalogNext, CountNext
    <2>4. UNCHANGED formVars => UNCHANGED <<receiptVars, catalogVars, countVars>>
      BY DEF formVars
    <2>. QED
      BY <2>1, <2>2, <2>3, <2>4
  <1>. QED
    BY <1>1, <1>2

LEMMA FrontKept == FrontInv /\ [Next]_vars => FrontInv'
  <1>. SUFFICES ASSUME FrontInv, [Next]_vars PROVE FrontInv'
    OBVIOUS
  <1>1. /\ [LinkNext]_linkVars /\ [PagesNext]_adminVars /\ [ControlNext]_controlVars
        /\ [ReceiptNext]_receiptVars /\ [CatalogNext]_catalogVars /\ [CountNext]_countVars
        /\ [BoardNext]_boardVars /\ [DeskNext]_deskVars /\ [TrackingNext]_trackingVars
        /\ scene' = scene
    BY StepOfEach
  <1>2. LinkInv' /\ PagesInv'
    BY <1>1, LinkKept, PagesKept DEF FrontInv
  <1>3. ReceiptInv' /\ CatalogInv' /\ CountInv'
    BY <1>1, ReceiptKept, CatalogKept, CountKept DEF FrontInv
  <1>4. ControlInv' /\ BoardInv'
    BY <1>1, ControlKept, BoardKeeps DEF FrontInv
  <1>5. DeskInv' /\ TrackingInv'
    BY <1>1, DeskKept, OrderKept DEF FrontInv
  <1>. QED
    BY <1>1, <1>2, <1>3, <1>4, <1>5 DEF FrontInv

\* Every variable of every page keeps its type.
THEOREM FrontTypeCorrect == FrontSpec => []TypeOK
  <1>1. FrontInv => TypeOK
    <2>. SUFFICES ASSUME FrontInv PROVE TypeOK
      OBVIOUS
    <2>1. LinkTypeOK /\ AdminTypeOK /\ ControlTypeOK /\ BoardTypeOK /\ TrackingTypeOK
      BY DEF FrontInv, LinkInv, PagesInv, ControlInv, BoardInv, TrackingInv
    <2>2. FormsTypeOK /\ DeskTypeOK
      BY FormsFollow, DeskFollows DEF FrontInv
    <2>. QED
      BY <2>1, <2>2 DEF FrontInv, TypeOK
  <1>. QED
    BY <1>1, FrontStart, FrontKept, PTL DEF FrontSpec

\* RealtimeClient: one socket lives at most, the one the client holds, a client that was closed tries
\* nothing again, and no event is shown twice, unless a reconnect was asked for while an attempt was
\* scheduled.
THEOREM OneLink == FrontSpec => []OneLinkHasCause
  <1>1. FrontInv => OneLinkHasCause
    BY LinkFollows DEF FrontInv
  <1>. QED
    BY <1>1, FrontStart, FrontKept, PTL DEF FrontSpec

\* A page of the administration that waits for nothing shows what the server has, and a form of the
\* inventory sends what it names, accounts for each line and closes the count it shows, but for the
\* causes each of them states.
THEOREM PagesShowServer == FrontSpec => []PagesHaveCause
  <1>1. FrontInv => PagesHaveCause
    BY PagesFollow, FormsFollow DEF FrontInv, PagesHaveCause
  <1>. QED
    BY <1>1, FrontStart, FrontKept, PTL DEF FrontSpec

\* Modules are saved for the tenant they were loaded for, the page shows what that tenant has, and
\* the panels show the tenant chosen, but for the causes TenantsKeptApart names.
THEOREM TenantsStayApart == FrontSpec => []TenantsKeptApart
  <1>1. FrontInv => TenantsKeptApart
    BY ControlFollows DEF FrontInv
  <1>. QED
    BY <1>1, FrontStart, FrontKept, PTL DEF FrontSpec

\* The till has the cart that was meant and the open notes of its tenant, and the tables keep what
\* was ordered and served, but for the causes each of them states.
THEOREM TillIsRight == FrontSpec => []TillHasCause
  <1>1. FrontInv => TillHasCause
    BY BoardFollows, DeskFollows DEF FrontInv, TillHasCause
  <1>. QED
    BY <1>1, FrontStart, FrontKept, PTL DEF FrontSpec

\* What a customer has allowed and withdrawn is what the server goes by, unless two requests of
\* theirs have overlapped; a page at rest shows what the server has, unless that or a failure has
\* occurred; and feedback is given for delivered orders, unless the link forces it.
THEOREM ConsentIsKept == FrontSpec => []ConsentKept
  <1>1. FrontInv => ConsentKept
    BY ConsentFollows DEF FrontInv
  <1>. QED
    BY <1>1, FrontStart, FrontKept, PTL DEF FrontSpec
=============================================================================
