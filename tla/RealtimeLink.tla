---------------------------- MODULE RealtimeLink ----------------------------
(***************************************************************************)
(* The link from the server to the pages: the gateway and its connections  *)
(* (realtime.gateway.ts), the client in the browser (RealtimeClient.ts)    *)
(* and the provider that keeps what arrives (PosRealtimeProvider.tsx).     *)
(*                                                                         *)
(* A socket number is free again when its socket is closed.  A link that   *)
(* dies is noticed at both ends: the client sends nothing, and does not    *)
(* notice a link that dies silently.  Metrics, errors and events are       *)
(* numbered as they are made.  Delays before a new attempt are left out,   *)
(* and so are the entries the inventory pages push themselves.             *)
(***************************************************************************)
EXTENDS Naturals, Sequences, FiniteSets, SequencesExt

CONSTANTS
  Sockets,   \* as many as may be in use at once
  NoSocket,
  Queues,    \* the queues that report metrics
  Keep       \* the errors kept at each end

ASSUME LinkAssumption ==
  /\ Sockets # {} /\ IsFiniteSet(Sockets) /\ NoSocket \notin Sockets
  /\ IsFiniteSet(Queues) /\ Keep \in Nat \ {0}

VARIABLES
  running,  \* the gateway is up
  metrics,  \* its newest metrics of each queue, 0 if none
  recent,   \* its errors, newest first
  clients,  \* the sockets it serves
  wire,     \* what is on its way to the browser on each socket
  socket,   \* the ready state of each socket in the browser
  ws,       \* the socket the client holds
  timer,    \* an attempt is scheduled
  closed,   \* the client was closed
  status,   \* the status it tells
  mounted,  \* the provider is on the page
  shown,    \* the metrics the page has
  errors,   \* its errors, newest arrival first
  feed,     \* the inventory events that have arrived
  number,   \* the last number given
  left,     \* bound: how often the environment may still act
  hasty     \* history: a reconnect was asked for while an attempt was scheduled

linkVars == <<running, metrics, recent, clients, wire, socket, ws, timer, closed, status, mounted,
              shown, errors, feed, number, left, hasty>>
gatewayVars == <<running, metrics, recent, clients, number, left>>
pageVars    == <<mounted, shown, errors, feed>>

Frame(kind, about, n) == [kind |-> kind, about |-> about, no |-> n]
Opened == Frame("open", "", 0)
End    == Frame("end", "", 0)
Local  == 0  \* an error the client reports itself

Acts == {"report", "error", "event", "break", "restart", "reconnect", "unmount"}
Live == {"connecting", "open"}

\* The provider mounts, and with it the client connects.
LinkInit(bounds) ==
  LET first == CHOOSE s \in Sockets : TRUE IN
  /\ running = TRUE
  /\ metrics = [q \in Queues |-> 0] /\ recent = <<>>
  /\ clients = {} /\ wire = [s \in Sockets |-> <<>>]
  /\ socket = [s \in Sockets |-> IF s = first THEN "connecting" ELSE "closed"]
  /\ ws = first /\ timer = FALSE /\ closed = FALSE /\ status = "connecting"
  /\ mounted = TRUE
  /\ shown = [q \in Queues |-> 0] /\ errors = <<>> /\ feed = <<>>
  /\ number = 0 /\ left = bounds /\ hasty = FALSE

\* Mutant: nothing is forgotten.
Newest_All(seq) == seq

Spend(act) == left[act] > 0 /\ left' = [left EXCEPT ![act] = @ - 1]
Newest(seq) == SubSeq(seq, 1, IF Len(seq) > Keep THEN Keep ELSE Len(seq))

-----------------------------------------------------------------------------
(* The gateway.                                                              *)

Broadcast(frame) ==
  wire' = [s \in Sockets |-> IF s \in clients THEN Append(wire[s], frame) ELSE wire[s]]

BroadcastQueueMetrics(q) ==
  /\ running /\ Spend("report")
  /\ number' = number + 1
  /\ metrics' = [metrics EXCEPT ![q] = number + 1]
  /\ Broadcast(Frame("metrics", q, number + 1))
  /\ UNCHANGED <<running, recent, clients>>

BroadcastSystemError ==
  /\ running /\ Spend("error")
  /\ number' = number + 1
  /\ recent' = Newest(<<number + 1>> \o recent)
  /\ Broadcast(Frame("error", "", number + 1))
  /\ UNCHANGED <<running, metrics, clients>>

\* Inventory events are sent to whoever is connected and not kept.
BroadcastEvent ==
  /\ running /\ Spend("event")
  /\ number' = number + 1
  /\ Broadcast(Frame("event", "", number + 1))
  /\ UNCHANGED <<running, metrics, recent, clients>>

\* Mutant: a new connection is sent nothing.
Replay_None == <<>>

\* handleUpgrade: a new connection is sent the metrics and the errors the gateway has.
Replay ==
  LET known == {q \in Queues : metrics[q] # 0} IN
  [i \in 1..Cardinality(known) |->
     LET q == SetToSeq(known)[i] IN Frame("metrics", q, metrics[q])]
  \o [i \in DOMAIN recent |-> Frame("error", "", recent[i])]

HandleUpgrade(s) ==
  /\ running /\ socket[s] = "connecting" /\ s \notin clients /\ wire[s] = <<>>
  /\ clients' = clients \cup {s}
  /\ wire' = [wire EXCEPT ![s] = <<Opened>> \o Replay]
  /\ UNCHANGED <<running, metrics, recent, number, left>>

\* A close frame from the client, or the end of its connection.
HandleClose(s) ==
  /\ socket[s] = "closing" /\ s \in clients
  /\ clients' = clients \ {s}
  /\ UNCHANGED <<running, metrics, recent, number, left, wire>>

\* The connection is lost with what is on its way.
Break(s) ==
  /\ s \in clients /\ Spend("break")
  /\ clients' = clients \ {s}
  /\ wire' = [wire EXCEPT ![s] = <<End>>]
  /\ UNCHANGED <<running, metrics, recent, number>>

\* The server goes down, after a last close frame to everyone, and what it knew is lost.
Restart ==
  /\ running /\ Spend("restart")
  /\ running' = FALSE
  /\ metrics' = [q \in Queues |-> 0] /\ recent' = <<>>
  /\ Broadcast(End)
  /\ clients' = {}
  /\ UNCHANGED number

Boot ==
  /\ ~running /\ running' = TRUE
  /\ UNCHANGED <<metrics, recent, clients, wire, number, left>>

-----------------------------------------------------------------------------
(* The client in the browser.                                                *)

\* connect: a socket it holds that lives is closed and a new one opened.
Connect ==
  \E new \in {s \in Sockets : socket[s] = "closed"} :
    /\ new = CHOOSE s \in Sockets : socket[s] = "closed"
    /\ socket' = [s \in Sockets |->
         CASE s = new -> "connecting"
           [] s = ws /\ socket[s] \in Live -> "closing"
           [] OTHER -> socket[s]]
    /\ ws' = new
    /\ status' = "connecting"

FireTimer ==
  /\ timer /\ timer' = FALSE
  /\ Connect
  /\ UNCHANGED <<gatewayVars, wire, closed, pageVars, hasty>>

\* The button of the diagnostics page: a socket the client holds is closed, and its end schedules
\* the new attempt; without one it connects at once.
Reconnect ==
  /\ mounted /\ Spend("reconnect")
  /\ closed' = FALSE
  /\ IF ws # NoSocket
       THEN /\ socket' = [socket EXCEPT ![ws] = IF @ \in Live THEN "closing" ELSE @]
            /\ UNCHANGED <<ws, status>>
       ELSE Connect
  /\ hasty' = (hasty \/ (ws = NoSocket /\ timer))
  /\ UNCHANGED <<running, metrics, recent, clients, number, wire, timer, pageVars>>

\* The page is left: the provider takes its listeners back and closes the client.
Unmount ==
  /\ mounted /\ Spend("unmount")
  /\ mounted' = FALSE
  /\ closed' = TRUE /\ timer' = FALSE
  /\ ws' = NoSocket
  /\ socket' = [s \in Sockets |-> IF s = ws /\ socket[s] \in Live THEN "closing" ELSE socket[s]]
  /\ UNCHANGED <<running, metrics, recent, clients, number, wire, status, shown, errors, feed, hasty>>

\* Mutant: an attempt is scheduled whether or not the client was closed.
ScheduleReconnect_Always == timer' = TRUE

ScheduleReconnect == timer' = (timer \/ ~closed)

Push(list, n) == IF mounted THEN Newest(<<n>> \o list) ELSE list

\* The handlers of the provider for what a frame brings.
Take(frame) ==
  /\ shown' = IF mounted /\ frame.kind = "metrics"
                THEN [shown EXCEPT ![frame.about] = frame.no] ELSE shown
  /\ errors' = IF frame.kind = "error" THEN Push(errors, frame.no) ELSE errors
  /\ feed' = IF mounted /\ frame.kind = "event" THEN <<frame.no>> \o feed ELSE feed
  /\ UNCHANGED mounted

\* onopen, and onmessage; a socket that is being closed delivers nothing any more.
Receive(s) ==
  /\ wire[s] # <<>>
  /\ \/ /\ socket[s] = "connecting" /\ Head(wire[s]) = Opened
        /\ socket' = [socket EXCEPT ![s] = "open"]
        /\ status' = "connected"
        /\ UNCHANGED pageVars
     \/ /\ socket[s] = "open" /\ Head(wire[s]) # End
        /\ Take(Head(wire[s]))
        /\ UNCHANGED <<socket, status>>
  /\ wire' = [wire EXCEPT ![s] = Tail(@)]
  /\ UNCHANGED <<gatewayVars, ws, timer, closed, hasty>>

\* A socket ends: the server closed it, the connection broke, the client closed it, or nobody
\* answers the attempt.
Ends(s) ==
  \/ socket[s] \in Live /\ wire[s] # <<>> /\ Head(wire[s]) = End
  \/ socket[s] = "closing" /\ s \notin clients
  \/ socket[s] = "connecting" /\ s \notin clients /\ wire[s] = <<>> /\ ~running

\* onclose, after onerror where the end was not a clean one: whichever socket it was, the client
\* holds none any more.
OnClose(s) ==
  /\ Ends(s)
  /\ socket' = [socket EXCEPT ![s] = "closed"]
  /\ wire' = [wire EXCEPT ![s] = <<>>]
  /\ ws' = NoSocket
  /\ status' = "disconnected"
  /\ ScheduleReconnect
  /\ errors' \in {errors, Push(errors, Local)}
  /\ UNCHANGED <<gatewayVars, closed, mounted, shown, feed, hasty>>

-----------------------------------------------------------------------------
LinkStep ==
  \/ \E s \in Sockets : (HandleUpgrade(s) \/ HandleClose(s))
       /\ UNCHANGED <<socket, ws, timer, closed, status, pageVars, hasty>>
  \/ \E s \in Sockets : Receive(s) \/ OnClose(s)
  \/ FireTimer

GatewayActs ==
  /\ \/ \E q \in Queues : BroadcastQueueMetrics(q)
     \/ BroadcastSystemError \/ BroadcastEvent \/ Restart \/ Boot
     \/ \E s \in Sockets : Break(s)
  /\ UNCHANGED <<socket, ws, timer, closed, status, pageVars, hasty>>

LinkNext == LinkStep \/ GatewayActs \/ Reconnect \/ Unmount

-----------------------------------------------------------------------------
LinkTypeOK ==
  /\ running \in BOOLEAN /\ timer \in BOOLEAN /\ closed \in BOOLEAN /\ mounted \in BOOLEAN
  /\ hasty \in BOOLEAN
  /\ metrics \in [Queues -> Nat] /\ shown \in [Queues -> Nat] /\ number \in Nat
  /\ recent \in Seq(Nat) /\ Len(recent) <= Keep
  /\ errors \in Seq(Nat) /\ Len(errors) <= Keep
  /\ feed \in Seq(Nat)
  /\ clients \subseteq Sockets
  /\ wire \in [Sockets -> Seq([kind : {"open", "end", "metrics", "error", "event"},
                               about : Queues \cup {""}, no : Nat])]
  /\ socket \in [Sockets -> Live \cup {"closing", "closed"}]
  /\ ws \in Sockets \cup {NoSocket}
  /\ status \in {"connecting", "connected", "disconnected"}
  /\ left \in [Acts -> Nat]

\* RealtimeClient.connect, reconnect, close: at most one socket lives and it is the one the client
\* holds, none lives and no attempt is scheduled once the client was closed, and no event is shown
\* twice, unless a reconnect was asked for while an attempt was scheduled: that attempt then closes
\* the socket just opened, whose end makes the client forget the next one.
OneLinkHasCause ==
  ~hasty =>
    /\ \A s \in Sockets : socket[s] \in Live => s = ws
    /\ ~mounted => ~timer
    /\ \A i, j \in DOMAIN feed : feed[i] = feed[j] => i = j

\* handleUpgrade and the provider: when the server stays up and the page open, the page comes to
\* show, for good, the newest metrics of every queue the gateway knows, and its newest error, which
\* the replay to a second socket can push out of the list again.
CaughtUp ==
  /\ \A q \in Queues : metrics[q] \in {0, shown[q]}
  /\ recent = <<>> \/ hasty \/ \E i \in DOMAIN errors : errors[i] = recent[1]
PageCatchesUp == <>[](running /\ mounted) => <>[]CaughtUp
=============================================================================
