--------------------------- MODULE SignalingClient ---------------------------
(***************************************************************************)
(* The signaling socket of one client (lib/webrtc/SignalingClient.ts): the *)
(* outbound queue, the reconnect timer with its growing delay, the         *)
(* heartbeat, and the sockets it opens one after the other; and of the     *)
(* server what decides their fate: whether the participants row is still   *)
(* open when a socket arrives, and that it closes when the handler of the  *)
(* socket it is bound to ends.                                              *)
(*                                                                         *)
(* Either end may notice at any moment that a socket is gone, and the two  *)
(* do so in any order.  A close that the other end starts shows first as a *)
(* readyState of CLOSING, and as an onclose later.  Frames are the numbers *)
(* 1, 2, ... in the order in which the room hands them to send, and a ping *)
(* is 0; the write of any of them may throw.                                *)
(***************************************************************************)
EXTENDS Integers, Sequences, Functions

CONSTANTS
    Delays,         \* how many entries RECONNECT_DELAYS_MS has
    MaxSockets,     \* bound: sockets opened
    MaxFrames,      \* bound: frames sent
    MaxThrows       \* bound: writes that throw

ASSUME ClientAssumption ==
    /\ Delays \in Nat \ {0}
    /\ MaxSockets \in Nat /\ MaxFrames \in Nat /\ MaxThrows \in Nat

VARIABLES
    status,         \* getStatus()
    closedByCaller,
    attempt,
    delay,          \* the entry of the delays last used, 0 before that
    timer,          \* reconnectTimer is set
    heartbeat,      \* heartbeatTimer is set
    queue,
    sent,           \* how many frames send was given
    written,        \* the frames given to a socket, in that order
    threw,          \* the frames whose write threw some time (for the properties)
    throws,         \* how many writes threw
    opened,         \* how many sockets were made, the last one is "socket"
    ws,             \* readyState of each socket
    server,         \* what the server does with each socket
    row,            \* the participants row of this session
    bound           \* its connection_id, 0 if it has none

client  == <<status, closedByCaller, attempt, delay, timer, heartbeat>>
outbox  == <<queue, sent, written, threw, throws>>
sockets == <<opened, ws>>
room    == <<server, row, bound>>
vars    == <<client, outbox, sockets, room>>

Sockets == 1..MaxSockets
Ping    == 0
Frames  == {Ping} \union 1..MaxFrames

TypeOK ==
    /\ status \in {"connecting", "open", "reconnecting", "closed"}
    /\ closedByCaller \in BOOLEAN /\ timer \in BOOLEAN /\ heartbeat \in BOOLEAN
    /\ attempt \in Nat
    /\ delay \in 0..Delays
    /\ sent \in 0..MaxFrames
    /\ queue \in Seq(Frames) /\ written \in Seq(Frames)
    /\ threw \subseteq Frames /\ throws \in 0..MaxThrows
    /\ opened \in 0..MaxSockets
    /\ ws \in [Sockets -> {"unmade", "connecting", "open", "closing", "closed"}]
    /\ server \in [Sockets -> {"none", "serving", "refusing", "done"}]
    /\ row \in {"open", "left"}
    /\ bound \in 0..MaxSockets

Init ==
    /\ status = "closed" /\ closedByCaller = FALSE
    /\ attempt = 0 /\ delay = 0
    /\ timer = FALSE /\ heartbeat = FALSE
    /\ queue = <<>> /\ sent = 0 /\ written = <<>>
    /\ threw = {} /\ throws = 0
    /\ opened = 0
    /\ ws = [s \in Sockets |-> "unmade"]
    /\ server = [s \in Sockets |-> "none"]
    /\ row = "open" /\ bound = 0

-----------------------------------------------------------------------------
(* The client *)

(* socket?.readyState === WebSocket.OPEN *)
IsOpen == opened # 0 /\ ws[opened] = "open"

(* open *)
OpenSocket ==
    /\ opened < MaxSockets
    /\ opened' = opened + 1
    /\ ws' = [ws EXCEPT ![opened + 1] = "connecting"]
    /\ status' = IF attempt = 0 THEN "connecting" ELSE "reconnecting"

(* connect, which the room calls once. *)
Connect ==
    /\ opened = 0 /\ ~closedByCaller
    /\ OpenSocket
    /\ UNCHANGED <<closedByCaller, attempt, delay, timer, heartbeat, outbox, room>>

(* onopen ran for this socket, and neither onclose nor close did since. *)
Up == opened # 0 /\ ws[opened] \in {"open", "closing"}

(* A way to go through n frames: place[1], ..., place[kept] are those whose  *)
(* send succeeds and the rest those whose send throws, each in their order.  *)
Sorts(place, kept, n) ==
    /\ place \in Bijection(1..n, 1..n)
    /\ \A i, j \in 1..n :
           i < j /\ (j <= kept \/ kept < i) => place[i] < place[j]

(* write, of one frame after the other while rest is queued: a frame whose  *)
(* send throws goes to the tail of the queue.                                *)
Write(frames, rest) ==
    LET n == Len(frames) IN
    \E kept \in 0..n : \E place \in [1..n -> 1..n] :
        LET out  == [i \in 1..kept |-> frames[place[i]]]
            back == [i \in 1..(n - kept) |-> frames[place[kept + i]]]
        IN  /\ throws + (n - kept) <= MaxThrows
            /\ Sorts(place, kept, n)
            /\ written' = written \o out
            /\ queue' = rest \o back
            /\ threw' = threw \union {frames[place[kept + i]] : i \in 1..(n - kept)}
            /\ throws' = throws + (n - kept)

(* send: after close the room has let go of the client. *)
Send ==
    /\ ~closedByCaller
    /\ sent < MaxFrames
    /\ sent' = sent + 1
    /\ \/ IsOpen /\ Write(<<sent + 1>>, queue)
       \/ /\ ~IsOpen
          /\ queue' = Append(queue, sent + 1)
          /\ UNCHANGED <<written, threw, throws>>
    /\ UNCHANGED <<client, sockets, room>>

(* The heartbeat, while the socket is open.  A ping that is written changes  *)
(* nothing here; one whose write throws is queued like any other frame.      *)
Heartbeat ==
    /\ heartbeat /\ IsOpen
    /\ throws < MaxThrows
    /\ queue' = Append(queue, Ping)
    /\ threw' = threw \union {Ping}
    /\ throws' = throws + 1
    /\ UNCHANGED <<client, sent, written, sockets, room>>

(* Faulty variants, for trying out what the runs can tell apart. *)
KeepQueue == queue
KeepTimer == UNCHANGED timer
KeepHeartbeat == UNCHANGED heartbeat
SameAttempt == UNCHANGED attempt
GiveUp ==
    IF attempt = Delays
       THEN status' = "closed" /\ UNCHANGED <<attempt, delay, timer>>
       ELSE /\ status' = "reconnecting"
            /\ delay' = attempt + 1
            /\ attempt' = attempt + 1
            /\ timer' = TRUE

(* What flush leaves in the queue before it writes. *)
Emptied == <<>>
StartHeartbeat == heartbeat' = TRUE
StopHeartbeat == heartbeat' = FALSE
ClearTimer == timer' = FALSE

(* onopen: the attempts are forgotten and the queue is flushed, whether or  *)
(* not the server is going to keep the socket.                               *)
OnOpen(s) ==
    /\ s = opened /\ ws[s] = "connecting"
    /\ server[s] # "none"
    /\ ws' = [ws EXCEPT ![s] = "open"]
    /\ attempt' = 0
    /\ status' = "open"
    /\ StartHeartbeat
    /\ Write(queue, Emptied)
    /\ UNCHANGED <<closedByCaller, delay, timer, sent, opened, room>>

(* The other end starts to close: readyState leaves OPEN, and no handler of  *)
(* the client runs yet.                                                       *)
StartsClosing(s) ==
    /\ s = opened /\ ws[s] = "open"
    /\ ws' = [ws EXCEPT ![s] = "closing"]
    /\ UNCHANGED <<client, outbox, opened, room>>

CountAttempt == attempt' = attempt + 1

ScheduleReconnect ==
    IF timer
       THEN UNCHANGED <<attempt, delay, timer, status>>
       ELSE /\ delay' = IF attempt < Delays THEN attempt + 1 ELSE Delays
            /\ CountAttempt
            /\ timer' = TRUE
            /\ status' = "reconnecting"

(* onclose, of a handshake that failed, of a socket that was lost, or of    *)
(* one the other end has closed.  close took the handlers off, so that it   *)
(* never runs after it.                                                       *)
OnClose(s) ==
    /\ s = opened /\ ws[s] \in {"connecting", "open", "closing"}
    /\ ~closedByCaller
    /\ ws' = [ws EXCEPT ![s] = "closed"]
    /\ StopHeartbeat
    /\ ScheduleReconnect
    /\ UNCHANGED <<closedByCaller, outbox, opened, room>>

(* The timer fires. *)
Reconnect ==
    /\ timer
    /\ ClearTimer
    /\ OpenSocket
    /\ UNCHANGED <<closedByCaller, attempt, delay, heartbeat, outbox, room>>

(* close *)
Close ==
    /\ opened # 0 /\ ~closedByCaller
    /\ closedByCaller' = TRUE
    /\ ClearTimer
    /\ attempt' = 0
    /\ StopHeartbeat
    /\ ws' = [ws EXCEPT ![opened] = "closed"]
    /\ status' = "closed"
    /\ UNCHANGED <<delay, outbox, opened, room>>

-----------------------------------------------------------------------------
(* The server *)

(* authenticate, and the accept both its outcomes end in: a socket of an    *)
(* open row is bound to it, another is accepted only to be told and closed. *)
Accept(s) ==
    /\ ws[s] = "connecting"
    /\ server[s] = "none"
    /\ \/ /\ row = "open"
          /\ server' = [server EXCEPT ![s] = "serving"]
          /\ bound' = s
       \/ /\ row = "left"
          /\ server' = [server EXCEPT ![s] = "refusing"]
          /\ UNCHANGED bound
    /\ UNCHANGED <<client, outbox, sockets, row>>

(* _teardown, when receive_json fails or the handler ends: before the       *)
(* client notices or after it.                                               *)
Teardown(s) ==
    /\ server[s] = "serving"
    /\ server' = [server EXCEPT ![s] = "done"]
    /\ IF bound = s THEN row' = "left" /\ bound' = 0 ELSE UNCHANGED <<row, bound>>
    /\ UNCHANGED <<client, outbox, sockets>>

(* close(4401) *)
RefuseClose(s) ==
    /\ server[s] = "refusing"
    /\ server' = [server EXCEPT ![s] = "done"]
    /\ UNCHANGED <<client, outbox, sockets, row, bound>>

Next ==
    \/ Connect \/ Send \/ Heartbeat \/ Reconnect \/ Close
    \/ \E s \in Sockets : \/ OnOpen(s) \/ StartsClosing(s) \/ OnClose(s)
                          \/ Accept(s) \/ Teardown(s) \/ RefuseClose(s)

Spec == Init /\ [][Next]_vars

-----------------------------------------------------------------------------
(* Properties *)

(* What was given to a socket, and behind it what is still queued. *)
Line == written \o queue

(* Whatever is lost, reopened, closed or thrown, every frame given to send   *)
(* was given to a socket once or is queued once, and no frame goes ahead of  *)
(* an older one, or will, unless a write of the older one threw (send,       *)
(* flush, write): a reconnect neither repeats nor forgets nor overtakes.      *)
WrittenInOrder ==
    /\ 1..sent \subseteq Range(Line)
    /\ \A i, j \in DOMAIN Line : Line[i] = Line[j] /\ i # j => Line[i] = Ping
    /\ \A i, j \in DOMAIN Line : i < j /\ Line[i] > Line[j] => Line[j] \in threw

(* While the socket is open nothing waits in the queue but what a write threw *)
(* back; the heartbeat runs and the status is "open" from onopen until        *)
(* onclose or close, through a closing that the other end started.            *)
OpenIsServed ==
    /\ IsOpen => Range(queue) \subseteq threw
    /\ Up <=> heartbeat
    /\ Up <=> status = "open"

(* Never two sockets, and never a retry to come beside a socket: the overlap  *)
(* onerror is written to avoid.                                                *)
OneAtATime ==
    \A s \in Sockets :
        ws[s] \in {"connecting", "open", "closing"} => s = opened /\ ~timer

(* Once the room has called close nothing of the client is left: no socket,   *)
(* no retry that would bring one, no heartbeat.                                *)
StaysClosed ==
    closedByCaller =>
        /\ \A s \in Sockets : ws[s] \notin {"connecting", "open", "closing"}
        /\ ~timer /\ ~heartbeat

(* As long as no socket opens, each retry waits for longer than the one       *)
(* before it, up to the last entry of the delays.                              *)
BackoffGrows ==
    [][\A s \in Sockets :
           ws[s] = "connecting" /\ timer' /\ ~timer
               => delay' > delay \/ delay' = Delays]_vars

(* A socket that was lost is replaced, however often the server refuses it,   *)
(* until the room calls close (or the bound on sockets is reached).            *)
Retries ==
    \A s \in Sockets :
        s < MaxSockets /\ ws[s] = "closed" ~> opened > s \/ closedByCaller

(* The browser runs a timer that is due. *)
FairSpec == Spec /\ WF_vars(Reconnect)
=============================================================================
