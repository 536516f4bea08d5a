------------------------ MODULE SignalingClientProofs ------------------------
(***************************************************************************)
(* The safety properties of SignalingClient, for any number of delays,     *)
(* sockets and frames.                                                      *)
(*                                                                         *)
(* The properties of the client hold together: that a retry finds no       *)
(* socket to overlap needs that the timer is set only while there is none, *)
(* that a frame sent on an open socket overtakes none but those thrown     *)
(* back needs that no others are queued while the socket is open, and so   *)
(* on.  Their conjunction is inductive once four facts are added: nothing  *)
(* is queued or written that send was not given, nothing is timed before   *)
(* the first socket, after close there was one, and (for the delays) which *)
(* delay the attempt counter stands for while no socket is up.              *)
(***************************************************************************)
EXTENDS SignalingClient, SequenceTheorems, TLAPS

BeforeTheFirst ==
    /\ opened = 0 => ~timer
    /\ closedByCaller => opened # 0

DelayOfAttempt ==
    ~closedByCaller /\ ~Up
        => delay = IF attempt < Delays THEN attempt ELSE Delays

Healthy == OpenIsServed /\ OneAtATime /\ StaysClosed /\ BeforeTheFirst

Given == \A i \in DOMAIN Line : Line[i] <= sent

Once(line, n) ==
    /\ \A f \in 1..n : \E i \in DOMAIN line : line[i] = f
    /\ \A i, j \in DOMAIN line : line[i] = line[j] /\ i # j => line[i] = Ping
Ordered(line, T) ==
    \A i, j \in DOMAIN line : i < j /\ line[i] > line[j] => line[j] \in T

Good(line, n, T) ==
    Once(line, n) /\ Ordered(line, T) /\ \A i \in DOMAIN line : line[i] <= n

Lined == WrittenInOrder /\ Given

IInv == TypeOK /\ Lined /\ Healthy /\ DelayOfAttempt

(* What write leaves: its frames divided among the socket and the queue. *)
LEMMA WriteIs ==
    ASSUME TypeOK, NEW frames \in Seq(Frames), NEW rest \in Seq(Frames),
           Write(frames, rest)
    PROVE  \E kept \in 0..Len(frames),
              place \in [1..Len(frames) -> 1..Len(frames)],
              out \in Seq(Frames), back \in Seq(Frames) :
               /\ Sorts(place, kept, Len(frames))
               /\ Len(out) = kept /\ Len(back) = Len(frames) - kept
               /\ \A i \in 1..kept : out[i] = frames[place[i]]
               /\ \A i \in 1..(Len(frames) - kept) :
                      back[i] = frames[place[kept + i]]
               /\ written' = written \o out /\ queue' = rest \o back
               /\ threw' = threw \union Range(back)
               /\ throws' = throws + (Len(frames) - kept)
               /\ throws' <= MaxThrows
<1> DEFINE n == Len(frames)
<1>0. n \in Nat /\ \A i \in 1..n : frames[i] \in Frames
    BY LenProperties, ElementOfSeq
<1>1. PICK kept \in 0..n : \E place \in [1..n -> 1..n] :
        LET out  == [i \in 1..kept |-> frames[place[i]]]
            back == [i \in 1..(n - kept) |-> frames[place[kept + i]]]
        IN  /\ throws + (n - kept) <= MaxThrows
            /\ Sorts(place, kept, n)
            /\ written' = written \o out
            /\ queue' = rest \o back
            /\ threw' = threw \union {frames[place[kept + i]] : i \in 1..(n - kept)}
            /\ throws' = throws + (n - kept)
    BY DEF Write
<1>2. PICK place \in [1..n -> 1..n] :
        LET out  == [i \in 1..kept |-> frames[place[i]]]
            back == [i \in 1..(n - kept) |-> frames[place[kept + i]]]
        IN  /\ throws + (n - kept) <= MaxThrows
            /\ Sorts(place, kept, n)
            /\ written' = written \o out
            /\ queue' = rest \o back
            /\ threw' = threw \union {frames[place[kept + i]] : i \in 1..(n - kept)}
            /\ throws' = throws + (n - kept)
    BY <1>1
<1> DEFINE out  == [i \in 1..kept |-> frames[place[i]]]
           back == [i \in 1..(n - kept) |-> frames[place[kept + i]]]
<1> HIDE DEF n
<1>3. n - kept \in Nat /\ kept \in Nat
    BY <1>0
<1>4. out \in Seq(Frames) /\ Len(out) = kept
    <2>1. \A i \in 1..kept : frames[place[i]] \in Frames
        BY <1>0, <1>3
    <2> QED BY <1>3, <2>1
<1>5. back \in Seq(Frames) /\ Len(back) = n - kept
    <2>1. \A i \in 1..(n - kept) : frames[place[kept + i]] \in Frames
        BY <1>0, <1>3
    <2> QED BY <1>3, <2>1
<1>6. Range(back) = {frames[place[kept + i]] : i \in 1..(n - kept)}
    BY DEF Range
<1>7. /\ \A i \in 1..kept : out[i] = frames[place[i]]
      /\ \A i \in 1..(n - kept) : back[i] = frames[place[kept + i]]
    OBVIOUS
<1>8. /\ written' = written \o out /\ queue' = rest \o back
      /\ threw' = threw \union Range(back)
      /\ throws' = throws + (n - kept) /\ throws' <= MaxThrows
    BY <1>2, <1>6
<1> HIDE DEF out, back
<1> QED BY <1>2, <1>4, <1>5, <1>7, <1>8 DEF n

LEMMA WriteType ==
    ASSUME TypeOK, NEW frames \in Seq(Frames), NEW rest \in Seq(Frames),
           Write(frames, rest)
    PROVE  /\ written' \in Seq(Frames) /\ queue' \in Seq(Frames)
           /\ threw' \subseteq Frames /\ throws' \in 0..MaxThrows
<1>1. PICK kept \in 0..Len(frames), out \in Seq(Frames), back \in Seq(Frames) :
         /\ written' = written \o out /\ queue' = rest \o back
         /\ threw' = threw \union Range(back)
         /\ throws' = throws + (Len(frames) - kept)
         /\ throws' <= MaxThrows
    BY WriteIs
<1>2. Range(back) \subseteq Frames
    <2>1. \A i \in DOMAIN back : back[i] \in Frames
        BY ElementOfSeq, LenProperties
    <2> QED BY <2>1 DEF Range
<1>3. throws' \in 0..MaxThrows
    <2>1. Len(frames) \in Nat /\ throws \in Nat /\ MaxThrows \in Nat
        BY LenProperties, ClientAssumption DEF TypeOK
    <2> QED BY <1>1, <2>1
<1> QED BY <1>1, <1>2, <1>3, ConcatProperties DEF TypeOK

(* One frame is written, or put back. *)
LEMMA WriteOne ==
    ASSUME TypeOK, NEW f \in Frames, NEW rest \in Seq(Frames), Write(<<f>>, rest)
    PROVE  \E out \in Seq(Frames), back \in Seq(Frames) :
               /\ written' = written \o out /\ queue' = rest \o back
               /\ threw' = threw \union Range(back)
               /\ (out = <<f>> /\ back = <<>>) \/ (out = <<>> /\ back = <<f>>)
<1> DEFINE frames == <<f>>
<1>1. frames \in Seq(Frames) /\ Len(frames) = 1 /\ \A i \in 1..1 : frames[i] = f
    OBVIOUS
<1> HIDE DEF frames
<1>2. Write(frames, rest)
    BY DEF frames
<1>3. PICK kept \in 0..Len(frames), place \in [1..Len(frames) -> 1..Len(frames)],
           out \in Seq(Frames), back \in Seq(Frames) :
         /\ Sorts(place, kept, Len(frames))
         /\ Len(out) = kept /\ Len(back) = Len(frames) - kept
         /\ \A i \in 1..kept : out[i] = frames[place[i]]
         /\ \A i \in 1..(Len(frames) - kept) : back[i] = frames[place[kept + i]]
         /\ written' = written \o out /\ queue' = rest \o back
         /\ threw' = threw \union Range(back)
         /\ throws' = throws + (Len(frames) - kept)
         /\ throws' <= MaxThrows
    BY ONLY TypeOK, <1>1, <1>2, WriteIs
<1>4. place[1] \in 1..1 /\ kept \in 0..1 /\ frames[place[1]] = f
    BY <1>1, <1>3
<1>5. CASE kept = 0
    <2>1. out = <<>>
        BY <1>3, <1>5, EmptySeq
    <2>2. Len(back) = 1 /\ back[1] = f
        BY <1>1, <1>3, <1>4, <1>5
    <2>3. back = <<f>>
        BY <1>1, <2>2, SeqEqual DEF frames
    <2> QED BY <1>3, <2>1, <2>3
<1>6. CASE kept = 1
    <2>1. back = <<>>
        BY <1>1, <1>3, <1>6, EmptySeq
    <2>2. Len(out) = 1 /\ out[1] = f
        BY <1>3, <1>4, <1>6
    <2>3. out = <<f>>
        BY <1>1, <2>2, SeqEqual DEF frames
    <2> QED BY <1>3, <2>1, <2>3
<1>7. kept = 0 \/ kept = 1
    BY <1>4
<1> QED BY <1>5, <1>6, <1>7

(* Types are kept by every step. *)
LEMMA TypeStep ==
    ASSUME TypeOK, [Next]_vars
    PROVE  TypeOK'
<1> USE ClientAssumption
<1>1. CASE Connect
    BY <1>1 DEF TypeOK, Connect, OpenSocket, Sockets, outbox, room
<1>2. CASE Send
    <2>1. sent + 1 \in Frames /\ sent' \in 0..MaxFrames
        BY <1>2 DEF TypeOK, Send, Frames
    <2>2. CASE IsOpen /\ Write(<<sent + 1>>, queue)
        <3>1. <<sent + 1>> \in Seq(Frames)
            BY <2>1
        <3>2. queue \in Seq(Frames)
            BY DEF TypeOK
        <3> QED BY <1>2, <2>1, <2>2, <3>1, <3>2, WriteType
                DEF TypeOK, Send, client, sockets, room
    <2>3. CASE queue' = Append(queue, sent + 1) /\ UNCHANGED <<written, threw, throws>>
        <3>1. queue' \in Seq(Frames)
            BY <2>1, <2>3 DEF TypeOK
        <3> QED BY <1>2, <2>1, <2>3, <3>1 DEF TypeOK, Send, client, sockets, room
    <2> QED BY <1>2, <2>2, <2>3 DEF Send
<1>3. CASE Heartbeat
    <2>1. Ping \in Frames
        BY DEF Frames
    <2>2. queue' \in Seq(Frames) /\ threw' \subseteq Frames
        BY <1>3, <2>1 DEF TypeOK, Heartbeat
    <2>3. throws' \in 0..MaxThrows
        BY <1>3 DEF TypeOK, Heartbeat
    <2> QED BY <1>3, <2>2, <2>3 DEF TypeOK, Heartbeat, client, sockets, room
<1>4. CASE Reconnect
    <2>1. timer' \in BOOLEAN
        BY <1>4 DEF Reconnect, ClearTimer
    <2> QED BY <1>4, <2>1 DEF TypeOK, Reconnect, OpenSocket, Sockets, outbox, room
<1>5. CASE Close
    <2>1. /\ closedByCaller' \in BOOLEAN /\ timer' \in BOOLEAN
          /\ heartbeat' \in BOOLEAN
        BY <1>5 DEF Close, ClearTimer, StopHeartbeat
    <2> QED BY <1>5, <2>1 DEF TypeOK, Close, Sockets, outbox, room
<1>6. CASE \E s \in Sockets : OnOpen(s)
    <2>1. PICK s \in Sockets : OnOpen(s)
        BY <1>6
    <2>2. queue \in Seq(Frames) /\ Emptied \in Seq(Frames) /\ Write(queue, Emptied)
        BY <2>1 DEF TypeOK, OnOpen, Emptied
    <2>3. /\ written' \in Seq(Frames) /\ queue' \in Seq(Frames)
          /\ threw' \subseteq Frames /\ throws' \in 0..MaxThrows
        BY <2>2, WriteType
    <2> QED BY <2>1, <2>3 DEF TypeOK, OnOpen, StartHeartbeat, Sockets, room
<1>7. CASE \E s \in Sockets : StartsClosing(s)
    BY <1>7 DEF TypeOK, StartsClosing, Sockets, client, outbox, room
<1>8. CASE \E s \in Sockets : OnClose(s)
    <2>1. timer' \in BOOLEAN /\ heartbeat' \in BOOLEAN
        BY <1>8 DEF TypeOK, OnClose, StopHeartbeat, ScheduleReconnect
    <2>2. status' \in {"connecting", "open", "reconnecting", "closed"}
        BY <1>8 DEF TypeOK, OnClose, ScheduleReconnect
    <2>3. attempt' \in Nat /\ delay' \in 0..Delays
        BY <1>8 DEF TypeOK, OnClose, ScheduleReconnect, CountAttempt
    <2>4. ws' \in [Sockets -> {"unmade", "connecting", "open", "closing", "closed"}]
        BY <1>8 DEF TypeOK, OnClose
    <2>5. UNCHANGED <<closedByCaller, outbox, opened, room>>
        BY <1>8 DEF OnClose
    <2> QED BY <2>1, <2>2, <2>3, <2>4, <2>5 DEF TypeOK, outbox, room
<1>9. CASE \E s \in Sockets : Accept(s)
    <2>1. PICK s \in Sockets : Accept(s)
        BY <1>9
    <2>2. server' \in [Sockets -> {"none", "serving", "refusing", "done"}]
        BY <2>1 DEF TypeOK, Accept
    <2>3. bound' = s \/ bound' = bound
        BY <2>1 DEF Accept
    <2>4. bound' \in 0..MaxSockets
        BY <2>3 DEF TypeOK, Sockets
    <2>5. UNCHANGED <<client, outbox, sockets, row>>
        BY <2>1 DEF Accept
    <2> QED BY <2>2, <2>4, <2>5 DEF TypeOK, client, outbox, sockets
<1>10. CASE \E s \in Sockets : Teardown(s)
    BY <1>10 DEF TypeOK, Teardown, Sockets, client, outbox, sockets
<1>11. CASE \E s \in Sockets : RefuseClose(s)
    BY <1>11 DEF TypeOK, RefuseClose, client, outbox, sockets
<1>12. CASE UNCHANGED vars
    BY <1>12 DEF TypeOK, vars, client, outbox, sockets, room
<1> QED BY <1>1, <1>2, <1>3, <1>4, <1>5, <1>6, <1>7, <1>8, <1>9, <1>10, <1>11,
           <1>12
        DEF Next

-----------------------------------------------------------------------------
(* What is written and what is queued, as one line. *)

(* A frame at the end, newer than all others. *)
LEMMA Newest ==
    ASSUME NEW line \in Seq(Frames), NEW n \in Nat, NEW T, n + 1 \in Frames,
           Once(line, n), Ordered(line, T), \A i \in DOMAIN line : line[i] <= n
    PROVE  LET longer == Append(line, n + 1) IN
           /\ Once(longer, n + 1) /\ Ordered(longer, T)
           /\ \A i \in DOMAIN longer : longer[i] <= n + 1
<1> DEFINE longer == Append(line, n + 1)
           N == Len(line)
<1>1. /\ N \in Nat /\ DOMAIN line = 1..N /\ DOMAIN longer = 1..(N + 1)
      /\ \A i \in 1..N : longer[i] = line[i] /\ line[i] \in Int /\ line[i] <= n
      /\ longer[N + 1] = n + 1
    <2>1. longer \in Seq(Frames) /\ Len(longer) = N + 1
        BY AppendProperties
    <2>2. \A i \in 1..N : line[i] \in Int
        BY ElementOfSeq, LenProperties DEF Frames, Ping
    <2> QED BY <2>1, <2>2, LenProperties, AppendProperties
<1> HIDE DEF longer, N
<1>2. Once(longer, n + 1)
    <2>1. ASSUME NEW f \in 1..(n + 1) PROVE \E i \in 1..(N + 1) : longer[i] = f
        <3>1. CASE f = n + 1
            BY <1>1, <3>1
        <3>2. CASE f \in 1..n
            <4>1. PICK i \in 1..N : line[i] = f
                BY <1>1, <3>2 DEF Once
            <4> QED BY <1>1, <4>1
        <3> QED BY <3>1, <3>2
    <2>2. ASSUME NEW i \in 1..(N + 1), NEW j \in 1..(N + 1),
                 longer[i] = longer[j], i # j
          PROVE  longer[i] = Ping
        <3>1. i \in 1..N /\ j \in 1..N
            <4>1. \A k \in 1..N : longer[k] # n + 1
                BY <1>1
            <4> QED BY <1>1, <2>2, <4>1
        <3> QED BY <1>1, <2>2, <3>1 DEF Once
    <2> QED BY <1>1, <2>1, <2>2 DEF Once
<1>3. Ordered(longer, T)
    <2> SUFFICES ASSUME NEW i \in 1..(N + 1), NEW j \in 1..(N + 1),
                        i < j, longer[i] > longer[j]
                 PROVE  longer[j] \in T
        BY <1>1 DEF Ordered
    <2>1. i \in 1..N /\ longer[i] <= n
        BY <1>1
    <2>2. j \in 1..N
        BY <1>1, <2>1
    <2> QED BY <1>1, <2>1, <2>2 DEF Ordered
<1>4. \A i \in 1..(N + 1) : longer[i] <= n + 1
    BY <1>1
<1> QED BY <1>1, <1>2, <1>3, <1>4 DEF longer

(* A frame that was thrown, at the end. *)
LEMMA PingBehind ==
    ASSUME NEW line \in Seq(Frames), NEW n \in Nat, NEW T,
           Once(line, n), Ordered(line, T), \A i \in DOMAIN line : line[i] <= n
    PROVE  LET longer == Append(line, Ping) IN
           /\ Once(longer, n) /\ Ordered(longer, T \union {Ping})
           /\ \A i \in DOMAIN longer : longer[i] <= n
<1> DEFINE longer == Append(line, Ping)
           N == Len(line)
<1>1. /\ N \in Nat /\ DOMAIN line = 1..N /\ DOMAIN longer = 1..(N + 1)
      /\ \A i \in 1..N : longer[i] = line[i] /\ line[i] <= n
      /\ longer[N + 1] = 0
    <2>1. longer \in Seq(Frames) /\ Len(longer) = N + 1
        BY AppendProperties DEF Frames
    <2> QED BY <2>1, LenProperties, AppendProperties DEF Frames, Ping
<1> HIDE DEF longer, N
<1>2. Once(longer, n)
    <2>1. ASSUME NEW f \in 1..n PROVE \E i \in 1..(N + 1) : longer[i] = f
        <3>1. PICK i \in 1..N : line[i] = f
            BY <1>1 DEF Once
        <3> QED BY <1>1, <3>1
    <2>2. ASSUME NEW i \in 1..(N + 1), NEW j \in 1..(N + 1),
                 longer[i] = longer[j], i # j, longer[i] # Ping
          PROVE  FALSE
        <3>1. i \in 1..N /\ j \in 1..N
            BY <1>1, <2>2 DEF Ping
        <3> QED BY <1>1, <2>2, <3>1 DEF Once
    <2> QED BY <1>1, <2>1, <2>2 DEF Once
<1>3. Ordered(longer, T \union {Ping})
    <2> SUFFICES ASSUME NEW i \in 1..(N + 1), NEW j \in 1..(N + 1),
                        i < j, longer[i] > longer[j], longer[j] # Ping
                 PROVE  longer[j] \in T
        BY <1>1 DEF Ordered
    <2>1. i \in 1..N /\ j \in 1..N
        BY <1>1 DEF Ping
    <2> QED BY <1>1, <2>1 DEF Ordered
<1>4. \A i \in 1..(N + 1) : longer[i] <= n
    BY <1>1
<1> QED BY <1>1, <1>2, <1>3, <1>4 DEF longer

(* Frames may change places as long as only thrown ones are overtaken. *)
Moved(old, line, T) ==
    \E L \in Nat : \E pos \in [1..L -> 1..L] :
        /\ DOMAIN old = 1..L /\ DOMAIN line = 1..L
        /\ \A i, j \in 1..L : pos[i] = pos[j] => i = j
        /\ \A k \in 1..L : \E i \in 1..L : pos[i] = k
        /\ \A i \in 1..L : line[i] = old[pos[i]]
        /\ \A i, j \in 1..L : i < j => pos[i] < pos[j] \/ line[j] \in T

LEMMA Rearranged ==
    ASSUME NEW old, NEW line, NEW n \in Nat, NEW T, Moved(old, line, T), Good(old, n, T)
    PROVE  Good(line, n, T)
<1>0. Once(old, n) /\ Ordered(old, T) /\ \A i \in DOMAIN old : old[i] <= n
    BY DEF Good
<1>L. PICK L \in Nat : \E pos \in [1..L -> 1..L] :
        /\ DOMAIN old = 1..L /\ DOMAIN line = 1..L
        /\ \A i, j \in 1..L : pos[i] = pos[j] => i = j
        /\ \A k \in 1..L : \E i \in 1..L : pos[i] = k
        /\ \A i \in 1..L : line[i] = old[pos[i]]
        /\ \A i, j \in 1..L : i < j => pos[i] < pos[j] \/ line[j] \in T
    BY DEF Moved
<1>P. PICK pos \in [1..L -> 1..L] :
        /\ DOMAIN old = 1..L /\ DOMAIN line = 1..L
        /\ \A i, j \in 1..L : pos[i] = pos[j] => i = j
        /\ \A k \in 1..L : \E i \in 1..L : pos[i] = k
        /\ \A i \in 1..L : line[i] = old[pos[i]]
        /\ \A i, j \in 1..L : i < j => pos[i] < pos[j] \/ line[j] \in T
    BY <1>L
<1>1. Once(line, n)
    <2>1. ASSUME NEW f \in 1..n PROVE \E i \in 1..L : line[i] = f
        <3>1. PICK k \in 1..L : old[k] = f
            BY <1>0, <1>P DEF Once
        <3>2. PICK i \in 1..L : pos[i] = k
            BY <1>P
        <3> QED BY <1>P, <3>1, <3>2
    <2>2. ASSUME NEW i \in 1..L, NEW j \in 1..L, line[i] = line[j], i # j
          PROVE  line[i] = Ping
        <3>1. pos[i] \in 1..L /\ pos[j] \in 1..L /\ pos[i] # pos[j]
            BY <1>P, <2>2
        <3>2. old[pos[i]] = old[pos[j]]
            BY <1>P, <2>2
        <3>3. old[pos[i]] = Ping
            BY <1>0, <1>P, <3>1, <3>2 DEF Once
        <3> QED BY <1>P, <3>3
    <2> QED BY <1>P, <2>1, <2>2 DEF Once
<1>2. Ordered(line, T)
    <2> SUFFICES ASSUME NEW i \in 1..L, NEW j \in 1..L,
                        i < j, line[i] > line[j], line[j] \notin T
                 PROVE  FALSE
        BY <1>P DEF Ordered
    <2>1. pos[i] \in 1..L /\ pos[j] \in 1..L /\ pos[i] < pos[j]
        BY <1>P
    <2>2. old[pos[i]] = line[i] /\ old[pos[j]] = line[j]
        BY <1>P
    <2>3. old[pos[j]] \in T
        BY <1>0, <1>P, <2>1, <2>2 DEF Ordered
    <2> QED BY <2>2, <2>3
<1>3. \A i \in DOMAIN line : line[i] <= n
    BY <1>0, <1>P
<1> QED BY <1>1, <1>2, <1>3 DEF Good

(* The places of a concatenation. *)
LEMMA Joined ==
    ASSUME NEW s \in Seq(Frames), NEW t \in Seq(Frames)
    PROVE  /\ s \o t \in Seq(Frames)
           /\ Len(s) \in Nat /\ Len(t) \in Nat
           /\ DOMAIN (s \o t) = 1..(Len(s) + Len(t))
           /\ \A i \in 1..Len(s) : (s \o t)[i] = s[i]
           /\ \A i \in 1..Len(t) : (s \o t)[Len(s) + i] = t[i]
<1>1. s \o t \in Seq(Frames) /\ Len(s \o t) = Len(s) + Len(t)
    BY ConcatProperties
<1>2. Len(s) \in Nat /\ Len(t) \in Nat
    BY LenProperties
<1>3. \A i \in 1..(Len(s) + Len(t)) :
          (s \o t)[i] = IF i <= Len(s) THEN s[i] ELSE t[i - Len(s)]
    BY ConcatProperties
<1>4. \A i \in 1..Len(s) : (s \o t)[i] = s[i]
    BY <1>2, <1>3
<1>5. ASSUME NEW i \in 1..Len(t)
      PROVE  (s \o t)[Len(s) + i] = t[i]
    <2>1. /\ Len(s) + i \in 1..(Len(s) + Len(t)) /\ ~(Len(s) + i <= Len(s))
          /\ (Len(s) + i) - Len(s) = i
        BY <1>2
    <2> QED BY <1>3, <2>1
<1>6. DOMAIN (s \o t) = 1..(Len(s) + Len(t))
    BY <1>1, LenProperties
<1> QED BY <1>1, <1>2, <1>4, <1>5, <1>6

(* A frame is written while others wait, all of which were thrown. *)
LEMMA Inserted ==
    ASSUME NEW w \in Seq(Frames), NEW q \in Seq(Frames), NEW f \in Frames,
           NEW n \in Nat, NEW T, Range(q) \subseteq T,
           Good((w \o q) \o <<f>>, n, T)
    PROVE  Good((w \o <<f>>) \o q, n, T)
<1> DEFINE W == Len(w)
           Q == Len(q)
           L == (W + Q) + 1
           old == (w \o q) \o <<f>>
           line == (w \o <<f>>) \o q
<1>1. <<f>> \in Seq(Frames) /\ Len(<<f>>) = 1 /\ <<f>>[1] = f
    OBVIOUS
<1>2. /\ w \o q \in Seq(Frames) /\ w \o <<f>> \in Seq(Frames)
      /\ W \in Nat /\ Q \in Nat
      /\ Len(w \o q) = W + Q /\ Len(w \o <<f>>) = W + 1
      /\ \A i \in 1..W : (w \o q)[i] = w[i] /\ (w \o <<f>>)[i] = w[i]
      /\ \A i \in 1..Q : (w \o q)[W + i] = q[i]
      /\ (w \o <<f>>)[W + 1] = f
    <2>1. Len(w \o q) = W + Q /\ Len(w \o <<f>>) = W + 1
        BY <1>1, ConcatProperties
    <2>2. (w \o <<f>>)[W + 1] = f
        BY <1>1, Joined
    <2> QED BY <1>1, <2>1, <2>2, Joined
<1>3. /\ DOMAIN old = 1..L /\ old[L] = f
      /\ \A i \in 1..(W + Q) : old[i] = (w \o q)[i]
    <2>1. DOMAIN old = 1..(Len(w \o q) + 1) /\ old[Len(w \o q) + 1] = f
        BY <1>1, <1>2, Joined
    <2>2. \A i \in 1..Len(w \o q) : old[i] = (w \o q)[i]
        BY <1>1, <1>2, Joined
    <2> QED BY <1>2, <2>1, <2>2
<1>4. /\ DOMAIN line = 1..L
      /\ \A i \in 1..(W + 1) : line[i] = (w \o <<f>>)[i]
      /\ \A i \in 1..Q : line[(W + 1) + i] = q[i]
    <2>1. DOMAIN line = 1..((W + 1) + Q)
        BY <1>2, Joined
    <2>2. /\ \A i \in 1..(W + 1) : line[i] = (w \o <<f>>)[i]
          /\ \A i \in 1..Q : line[(W + 1) + i] = q[i]
        BY <1>2, Joined
    <2>3. (W + 1) + Q = L
        BY <1>2
    <2> QED BY <2>1, <2>2, <2>3
<1> DEFINE pos == [i \in 1..L |-> IF i <= W THEN i ELSE IF i = W + 1 THEN L ELSE i - 1]
<1>5. Q = Len(q) /\ DOMAIN q = 1..Q
    BY LenProperties
<1> HIDE DEF W, Q, old, line
<1>N. W \in Nat /\ Q \in Nat
    BY <1>2
<1>6. pos \in [1..L -> 1..L] /\ L \in Nat
    BY <1>2
<1>7. \A i, j \in 1..L : pos[i] = pos[j] => i = j
    BY <1>2
<1>8. ASSUME NEW k \in 1..L PROVE \E i \in 1..L : pos[i] = k
    <2>1. CASE k <= W
        BY <1>2, <2>1
    <2>2. CASE k = L
        <3>1. W + 1 \in 1..L /\ pos[W + 1] = k
            BY <1>2, <2>2
        <3> QED BY <3>1
    <2>3. CASE W < k /\ k < L
        <3>1. k + 1 \in 1..L /\ pos[k + 1] = k
            BY <1>2, <2>3
        <3> QED BY <3>1
    <2> QED BY <1>2, <2>1, <2>2, <2>3
<1>9. ASSUME NEW i \in 1..L, i > W + 1
      PROVE  /\ i - (W + 1) \in 1..Q /\ line[i] = q[i - (W + 1)]
             /\ old[pos[i]] = q[i - (W + 1)]
    <2> DEFINE k == i - (W + 1)
    <2>1. k \in 1..Q /\ (W + 1) + k = i /\ W + k = i - 1 /\ W + k \in 1..(W + Q)
        BY <1>N, <1>9
    <2>2. pos[i] = W + k
        BY <1>N, <1>9, <2>1
    <2> HIDE DEF k, pos
    <2>3. line[i] = q[k]
        BY <1>4, <2>1
    <2>4. old[W + k] = q[k]
        BY <1>2, <1>3, <2>1
    <2> QED BY <2>1, <2>2, <2>3, <2>4 DEF k
<1>10. ASSUME NEW i \in 1..L PROVE line[i] = old[pos[i]]
    <2>1. CASE i <= W
        <3>1. i \in 1..W /\ i \in 1..(W + 1) /\ i \in 1..(W + Q) /\ pos[i] = i
            BY <1>2, <2>1
        <3> QED BY <1>2, <1>3, <1>4, <3>1
    <2>2. CASE i = W + 1
        <3>1. pos[i] = L /\ i \in 1..(W + 1)
            BY <1>2, <2>2
        <3> QED BY <1>2, <1>3, <1>4, <2>2, <3>1
    <2>3. CASE i > W + 1
        BY <1>9, <2>3
    <2> QED BY <1>2, <2>1, <2>2, <2>3
<1>11. ASSUME NEW i \in 1..L, NEW j \in 1..L, i < j, ~(pos[i] < pos[j])
       PROVE  line[j] \in T
    <2>1. j > W + 1
        BY <1>2, <1>11
    <2> QED BY <1>5, <1>9, <2>1 DEF Range
<1>12. DOMAIN old = 1..L /\ DOMAIN line = 1..L
    BY <1>3, <1>4
<1> HIDE DEF L, pos
<1>13. Moved(old, line, T)
    BY <1>6, <1>7, <1>8, <1>10, <1>11, <1>12 DEF Moved
<1> QED BY <1>13, Rearranged DEF old, line

(* The frames queued are divided among the socket and the queue. *)
LEMMA Flushed ==
    ASSUME NEW w \in Seq(Frames), NEW q \in Seq(Frames),
           NEW kept \in 0..Len(q), NEW place \in [1..Len(q) -> 1..Len(q)],
           NEW out \in Seq(Frames), NEW back \in Seq(Frames),
           Sorts(place, kept, Len(q)),
           Len(out) = kept, Len(back) = Len(q) - kept,
           \A i \in 1..kept : out[i] = q[place[i]],
           \A i \in 1..(Len(q) - kept) : back[i] = q[place[kept + i]],
           NEW n \in Nat, NEW T, Good(w \o q, n, T)
    PROVE  Good((w \o out) \o back, n, T \union Range(back))
<1> DEFINE W == Len(w)
           Q == Len(q)
           L == W + Q
           old == w \o q
           line == (w \o out) \o back
           U == T \union Range(back)
<1>1. /\ W \in Nat /\ Q \in Nat /\ DOMAIN old = 1..L
      /\ \A i \in 1..W : old[i] = w[i]
      /\ \A i \in 1..Q : old[W + i] = q[i]
    BY Joined
<1>2. /\ w \o out \in Seq(Frames) /\ Len(w \o out) = W + kept
      /\ \A i \in 1..W : (w \o out)[i] = w[i]
      /\ \A i \in 1..kept : (w \o out)[W + i] = out[i]
    <2>1. Len(w \o out) = W + kept
        BY ConcatProperties
    <2> QED BY <2>1, Joined
<1>3. /\ DOMAIN line = 1..L
      /\ \A i \in 1..(W + kept) : line[i] = (w \o out)[i]
      /\ \A i \in 1..(Q - kept) : line[(W + kept) + i] = back[i]
    <2>1. /\ DOMAIN line = 1..((W + kept) + (Q - kept))
          /\ \A i \in 1..(W + kept) : line[i] = (w \o out)[i]
          /\ \A i \in 1..(Q - kept) : line[(W + kept) + i] = back[i]
        <3>1. /\ DOMAIN line = 1..(Len(w \o out) + Len(back))
              /\ \A i \in 1..Len(w \o out) : line[i] = (w \o out)[i]
              /\ \A i \in 1..Len(back) : line[Len(w \o out) + i] = back[i]
            BY ONLY <1>2, back \in Seq(Frames), Joined
        <3>2. Len(w \o out) = W + kept /\ Len(back) = Q - kept
            BY <1>2
        <3> QED BY ONLY <3>1, <3>2
    <2>2. (W + kept) + (Q - kept) = L
        BY <1>1
    <2> QED BY <2>1, <2>2
<1>4. /\ \A i, j \in 1..Q : place[i] = place[j] => i = j
      /\ \A k \in 1..Q : \E i \in 1..Q : place[i] = k
      /\ \A i, j \in 1..Q : i < j /\ (j <= kept \/ kept < i) => place[i] < place[j]
      /\ place \in [1..Q -> 1..Q] /\ kept \in 0..Q
    BY DEF Sorts, Bijection, Injection, Surjection, IsInjective
<1>5. /\ \A i \in 1..kept : out[i] = q[place[i]]
      /\ \A i \in 1..(Q - kept) : back[i] = q[place[kept + i]]
      /\ DOMAIN back = 1..(Q - kept)
    BY LenProperties
<1> HIDE DEF W, Q, old, line, U
<1>N. W \in Nat /\ Q \in Nat /\ kept \in 0..Q
    BY <1>1, <1>4
<1> DEFINE pos == [i \in 1..L |-> IF i <= W THEN i ELSE W + place[i - W]]
<1>6. ASSUME NEW i \in 1..L, i > W
      PROVE  i - W \in 1..Q /\ place[i - W] \in 1..Q /\ pos[i] = W + place[i - W]
    <2>1. i - W \in 1..Q
        BY <1>1, <1>6
    <2> QED BY <1>1, <1>4, <1>6, <2>1
<1>7. ASSUME NEW i \in 1..L, i <= W
      PROVE  pos[i] = i
    BY <1>7
<1>8. pos \in [1..L -> 1..L] /\ L \in Nat
    <2>1. ASSUME NEW i \in 1..L
          PROVE  (IF i <= W THEN i ELSE W + place[i - W]) \in 1..L
        <3>1. CASE i <= W
            BY <1>1, <3>1
        <3>2. CASE i > W
            <4>1. place[i - W] \in 1..Q
                BY <1>6, <3>2
            <4>2. PICK k \in 1..Q : k = place[i - W]
                BY <4>1
            <4>3. W + k \in 1..L
                <5>1. W \in Nat /\ Q \in Nat /\ L = W + Q
                    BY <1>1
                <5> QED BY ONLY <5>1, k \in 1..Q
            <4>4. W + place[i - W] \in 1..L
                BY <4>2, <4>3
            <4> QED BY <1>1, <3>2, <4>4
        <3> QED BY <1>1, <3>1, <3>2
    <2> QED BY <1>1, <2>1
<1> HIDE DEF pos
<1>H. ASSUME NEW i \in 1..L, i > W
      PROVE  \E k \in 1..Q : k = place[i - W] /\ i - W \in 1..Q /\ pos[i] = W + k
    BY <1>6, <1>H
<1>9. ASSUME NEW i \in 1..L, NEW j \in 1..L, pos[i] = pos[j]
      PROVE  i = j
    <2>1. CASE i > W /\ j > W
        <3>1. PICK k \in 1..Q : k = place[i - W] /\ i - W \in 1..Q /\ pos[i] = W + k
            BY <1>H, <2>1
        <3>2. PICK l \in 1..Q : l = place[j - W] /\ j - W \in 1..Q /\ pos[j] = W + l
            BY <1>H, <2>1
        <3>a. W + k = W + l
            BY ONLY <1>9, <3>1, <3>2
        <3>b. k \in Int /\ l \in Int /\ W \in Int
            BY <1>N
        <3>3. k = l
            BY ONLY <3>a, <3>b
        <3>4. i - W = j - W
            BY <1>4, <3>1, <3>2, <3>3
        <3> QED BY <1>N, <3>4
    <2>2. CASE i > W /\ j <= W
        <3>1. PICK k \in 1..Q : pos[i] = W + k
            BY <1>H, <2>2
        <3>2. pos[j] = j
            BY <1>7, <2>2
        <3>3. W + k <= W
            BY ONLY <1>9, <2>2, <3>1, <3>2
        <3>4. k \in Int /\ k >= 1 /\ W \in Int
            BY <1>N
        <3> QED BY ONLY <3>3, <3>4
    <2>3. CASE i <= W /\ j > W
        <3>1. PICK k \in 1..Q : pos[j] = W + k
            BY <1>H, <2>3
        <3>2. pos[i] = i
            BY <1>7, <2>3
        <3>3. W + k <= W
            BY ONLY <1>9, <2>3, <3>1, <3>2
        <3>4. k \in Int /\ k >= 1 /\ W \in Int
            BY <1>N
        <3> QED BY ONLY <3>3, <3>4
    <2>4. CASE i <= W /\ j <= W
        BY <1>7, <1>9, <2>4
    <2> QED BY <1>N, <2>1, <2>2, <2>3, <2>4
<1>10. ASSUME NEW k \in 1..L PROVE \E i \in 1..L : pos[i] = k
    <2>1. CASE k <= W
        BY <1>N, <1>7, <2>1
    <2>2. CASE k > W
        <3>1. k - W \in 1..Q
            BY <1>1, <2>2
        <3>2. PICK i \in 1..Q : place[i] = k - W
            BY <1>4, <3>1
        <3>3. W + i \in 1..L /\ W + i > W /\ (W + i) - W = i
            BY <1>1
        <3>4. pos[W + i] = W + (k - W)
            BY <1>6, <3>2, <3>3
        <3>5. W + (k - W) = k
            BY <1>1
        <3> QED BY <3>3, <3>4, <3>5
    <2>3. k <= W \/ k > W
        BY <1>N
    <2> QED BY <2>1, <2>2, <2>3
<1>11. ASSUME NEW i \in 1..L, i > W + kept
       PROVE  i - (W + kept) \in 1..(Q - kept) /\ line[i] = back[i - (W + kept)]
    <2>1. i - (W + kept) \in 1..(Q - kept) /\ (W + kept) + (i - (W + kept)) = i
        BY <1>1, <1>11
    <2> QED BY <1>3, <2>1
<1>12. ASSUME NEW i \in 1..L PROVE line[i] = old[pos[i]]
    <2>1. CASE i <= W
        <3>1. i \in 1..W /\ i \in 1..(W + kept)
            BY <1>1, <1>4, <2>1
        <3> QED BY <1>1, <1>2, <1>3, <1>7, <2>1, <3>1
    <2>2. CASE i > W
        <3>1. i - W \in 1..Q /\ place[i - W] \in 1..Q /\ pos[i] = W + place[i - W]
            BY <1>6, <2>2
        <3>2. old[pos[i]] = q[place[i - W]]
            BY <1>1, <3>1
        <3>3. CASE i <= W + kept
            <4>1. i - W \in 1..kept /\ W + (i - W) = i /\ i \in 1..(W + kept)
                BY <1>1, <1>4, <2>2, <3>3
            <4>2. line[i] = out[i - W]
                BY ONLY <1>2, <1>3, <4>1
            <4> QED BY <1>5, <3>2, <4>1, <4>2
        <3>4. CASE i > W + kept
            <4>1. kept + (i - (W + kept)) = i - W
                BY <1>1, <1>4
            <4> QED BY <1>5, <1>11, <3>2, <3>4, <4>1
        <3> QED BY <1>1, <1>4, <3>3, <3>4
    <2> QED BY <1>1, <2>1, <2>2
<1>13. ASSUME NEW i \in 1..L, NEW j \in 1..L, i < j, ~(pos[i] < pos[j])
       PROVE  line[j] \in U
    <2>1. j > W
        BY <1>N, <1>7, <1>13
    <2>2. i > W
        <3> SUFFICES ASSUME i <= W PROVE FALSE
            BY <1>N
        <3>1. PICK k \in 1..Q : pos[j] = W + k
            BY <1>H, <2>1
        <3>2. pos[i] = i
            BY <1>7
        <3> QED BY <1>N, <1>13, <3>1, <3>2
    <2>3. ~(place[i - W] < place[j - W]) /\ i - W < j - W
        BY <1>N, <1>6, <1>13, <2>1, <2>2
    <2>4. ~(j - W <= kept)
        BY <1>4, <1>6, <2>1, <2>2, <2>3
    <2>5. j > W + kept
        BY <1>N, <2>4
    <2> QED BY <1>5, <1>11, <2>5 DEF Range, U
<1>14. DOMAIN old = 1..L /\ DOMAIN line = 1..L
    BY <1>1, <1>3
<1> HIDE DEF L
<1>15. Moved(old, line, U)
    BY <1>8, <1>9, <1>10, <1>12, <1>13, <1>14 DEF Moved
<1>16. Good(old, n, U)
    BY DEF Good, old, Ordered, U
<1> QED BY <1>15, <1>16, Rearranged DEF old, line, U

(* Sends, flushes, writes that throw and everything else keep the line. *)
LEMMA LineStep ==
    ASSUME TypeOK, Lined, OpenIsServed, [Next]_vars
    PROVE  Lined'
<1>1. /\ sent \in Nat /\ written \in Seq(Frames) /\ queue \in Seq(Frames)
      /\ Line = written \o queue /\ Line' = written' \o queue'
      /\ Line \in Seq(Frames)
    BY Joined DEF TypeOK, Line
<1>2. Lined <=> Good(Line, sent, threw)
    BY DEF Lined, WrittenInOrder, Given, Good, Once, Ordered, Range
<1>3. Lined' <=> Good(Line', sent', threw')
    BY DEF Lined, WrittenInOrder, Given, Good, Once, Ordered, Range
<1>4. CASE Send
    <2>1. sent + 1 \in Frames /\ sent + 1 \in Nat /\ sent' = sent + 1
        BY <1>4, ClientAssumption DEF TypeOK, Send, Frames
    <2> DEFINE f == sent + 1
    <2>2. <<f>> \in Seq(Frames) /\ Append(Line, f) = Line \o <<f>>
        BY <1>1, <2>1, AppendIsConcat
    <2>3. Good((written \o queue) \o <<f>>, f, threw)
        BY <1>1, <1>2, <2>1, <2>2, Newest DEF Good
    <2>4. CASE IsOpen /\ Write(<<f>>, queue)
        <3>1. PICK out \in Seq(Frames), back \in Seq(Frames) :
                 /\ written' = written \o out /\ queue' = queue \o back
                 /\ threw' = threw \union Range(back)
                 /\ (out = <<f>> /\ back = <<>>) \/ (out = <<>> /\ back = <<f>>)
            BY <1>1, <2>1, <2>4, WriteOne
        <3>2. Range(queue) \subseteq threw
            BY <2>4 DEF OpenIsServed
        <3>3. CASE out = <<f>> /\ back = <<>>
            <4>1. written' = written \o <<f>> /\ queue' = queue
                BY <1>1, <3>1, <3>3, ConcatEmptySeq
            <4>2. threw' = threw
                BY <3>1, <3>3 DEF Range
            <4>3. Good((written \o <<f>>) \o queue, f, threw)
                BY <1>1, <2>1, <2>3, <3>2, Inserted
            <4> QED BY <1>1, <1>3, <2>1, <4>1, <4>2, <4>3
        <3>4. CASE out = <<>> /\ back = <<f>>
            <4>1. written' = written /\ queue' = queue \o <<f>>
                BY <1>1, <3>1, <3>4, ConcatEmptySeq
            <4>2. Line' = (written \o queue) \o <<f>>
                BY <1>1, <2>2, <4>1, ConcatAssociative
            <4>3. threw \subseteq threw'
                BY <3>1
            <4>4. Good(Line', f, threw')
                BY <2>3, <4>2, <4>3 DEF Good, Ordered
            <4> QED BY <1>3, <2>1, <4>4
        <3> QED BY <3>1, <3>3, <3>4
    <2>5. CASE queue' = Append(queue, f) /\ UNCHANGED <<written, threw, throws>>
        <3>1. queue' = queue \o <<f>>
            BY <1>1, <2>1, <2>5, AppendIsConcat
        <3>2. Line' = (written \o queue) \o <<f>>
            BY <1>1, <2>2, <2>5, <3>1, ConcatAssociative
        <3> QED BY <1>3, <2>1, <2>3, <2>5, <3>2
    <2> QED BY <1>4, <2>4, <2>5 DEF Send
<1>5. CASE Heartbeat
    <2>1. /\ queue' = queue \o <<Ping>> /\ <<Ping>> \in Seq(Frames)
          /\ Append(Line, Ping) = Line \o <<Ping>>
        BY <1>1, <1>5, AppendIsConcat DEF Heartbeat, Frames
    <2>2. Line' = Append(Line, Ping)
        BY <1>1, <1>5, <2>1, ConcatAssociative DEF Heartbeat
    <2>3. sent' = sent /\ threw' = threw \union {Ping}
        BY <1>5 DEF Heartbeat
    <2> QED BY <1>1, <1>2, <1>3, <2>2, <2>3, PingBehind DEF Good
<1>6. CASE \E s \in Sockets : OnOpen(s)
    <2>1. Write(queue, Emptied) /\ sent' = sent /\ Emptied \in Seq(Frames)
        BY <1>6 DEF OnOpen, Emptied
    <2>2. PICK kept \in 0..Len(queue), place \in [1..Len(queue) -> 1..Len(queue)],
               out \in Seq(Frames), back \in Seq(Frames) :
             /\ Sorts(place, kept, Len(queue))
             /\ Len(out) = kept /\ Len(back) = Len(queue) - kept
             /\ \A i \in 1..kept : out[i] = queue[place[i]]
             /\ \A i \in 1..(Len(queue) - kept) : back[i] = queue[place[kept + i]]
             /\ written' = written \o out /\ queue' = Emptied \o back
             /\ threw' = threw \union Range(back)
             /\ throws' = throws + (Len(queue) - kept)
             /\ throws' <= MaxThrows
        BY ONLY TypeOK, <1>1, <2>1, WriteIs
    <2>3. queue' = back
        BY <2>2, ConcatEmptySeq DEF Emptied
    <2>4. Good((written \o out) \o back, sent, threw \union Range(back))
        BY ONLY <1>1, <1>2, <2>2, Lined, Flushed
    <2> QED BY <1>1, <1>3, <2>1, <2>2, <2>3, <2>4
<1>7. CASE UNCHANGED <<written, queue, sent, threw>>
    BY <1>1, <1>2, <1>3, <1>7
<1> QED BY <1>4, <1>5, <1>6, <1>7
        DEF Next, vars, outbox, Connect, Reconnect, Close, StartsClosing, OnClose,
            Accept, Teardown, RefuseClose

(* While the socket is open, only what was thrown back is queued. *)
Waiting == IsOpen => Range(queue) \subseteq threw

LEMMA WaitingStep ==
    ASSUME TypeOK, Waiting, [Next]_vars
    PROVE  Waiting'
<1> USE DEF Waiting
<1>1. ASSUME NEW frames \in Seq(Frames), NEW rest \in Seq(Frames), Write(frames, rest),
             Range(rest) \subseteq threw
      PROVE  Range(queue') \subseteq threw'
    <2>1. PICK back \in Seq(Frames) :
             queue' = rest \o back /\ threw' = threw \union Range(back)
        BY <1>1, WriteIs
    <2>2. Range(queue') = Range(rest) \union Range(back)
        BY <2>1, RangeConcatenation
    <2> QED BY <1>1, <2>1, <2>2
<1>2. CASE Send
    <2>1. CASE IsOpen /\ Write(<<sent + 1>>, queue)
        <3>1. sent + 1 \in Frames
            BY <1>2, ClientAssumption DEF TypeOK, Send, Frames
        <3>2. <<sent + 1>> \in Seq(Frames) /\ queue \in Seq(Frames)
            BY <3>1 DEF TypeOK
        <3> QED BY <1>1, <2>1, <3>2
    <2>2. CASE ~IsOpen
        BY <1>2, <2>2 DEF Send, IsOpen, sockets
    <2> QED BY <1>2, <2>1, <2>2 DEF Send
<1>3. CASE Heartbeat
    <2>1. queue \in Seq(Frames) /\ <<Ping>> \in Seq(Frames) /\ Ping \in Frames
        BY DEF TypeOK, Frames
    <2>2. queue' = queue \o <<Ping>>
        BY <1>3, <2>1, AppendIsConcat DEF Heartbeat
    <2>3. Range(<<Ping>>) = {Ping}
        BY DEF Range
    <2>4. Range(queue') = Range(queue) \union {Ping}
        <3>1. Range(queue \o <<Ping>>) = Range(queue) \union Range(<<Ping>>)
            BY <2>1, RangeConcatenation
        <3> QED BY <2>2, <2>3, <3>1
    <2> QED BY <1>3, <2>4 DEF Heartbeat
<1>4. CASE \E s \in Sockets : OnOpen(s)
    <2>1. Write(queue, Emptied)
        BY <1>4 DEF OnOpen
    <2>2. queue \in Seq(Frames) /\ Emptied \in Seq(Frames)
        BY DEF TypeOK, Emptied
    <2>3. Range(Emptied) \subseteq threw
        BY DEF Range, Emptied
    <2> QED BY <1>1, <2>1, <2>2, <2>3
<1>5. ASSUME IsOpen', UNCHANGED <<queue, threw>>, IsOpen
      PROVE  Waiting'
    BY <1>5
<1>6. ASSUME IsOpen', \/ Connect \/ Reconnect \/ Close
                      \/ \E s \in Sockets : StartsClosing(s) \/ OnClose(s)
      PROVE  FALSE
    BY <1>6, ClientAssumption
       DEF TypeOK, IsOpen, Sockets, Connect, Reconnect, OpenSocket, Close, StartsClosing, OnClose
<1>7. CASE UNCHANGED <<queue, threw, sockets>>
    BY <1>7 DEF IsOpen, sockets
<1> QED BY <1>2, <1>3, <1>4, <1>6, <1>7
        DEF Next, vars, outbox, Accept, Teardown, RefuseClose

(* One socket or one timer, what a socket that is up implies, and what close *)
(* leaves.                                                                    *)
LEMMA HealthStep ==
    ASSUME TypeOK, Healthy, [Next]_vars
    PROVE  Healthy'
<1>0. Waiting'
    BY WaitingStep DEF Healthy, OpenIsServed, Waiting
<1> DEFINE Rest == /\ Up <=> heartbeat
                   /\ Up <=> status = "open"
                   /\ OneAtATime /\ StaysClosed /\ BeforeTheFirst
<1>R. Rest'
    <2> USE ClientAssumption
        DEF TypeOK, Healthy, OpenIsServed, OneAtATime, StaysClosed, BeforeTheFirst,
            Up, Sockets
    <2>1. CASE Connect
        BY <2>1 DEF Connect, OpenSocket
    <2>2. CASE Reconnect
        BY <2>2 DEF Reconnect, OpenSocket, ClearTimer
    <2>3. CASE Close
        BY <2>3 DEF Close, ClearTimer, StopHeartbeat
    <2>4. CASE \E s \in Sockets : OnOpen(s)
        BY <2>4 DEF OnOpen, StartHeartbeat
    <2>5. CASE \E s \in Sockets : StartsClosing(s)
        BY <2>5 DEF StartsClosing, client
    <2>6. CASE \E s \in Sockets : OnClose(s)
        BY <2>6 DEF OnClose, StopHeartbeat, ScheduleReconnect
    <2>7. CASE UNCHANGED <<client, sockets>>
        BY <2>7 DEF client, sockets
    <2> QED BY <2>1, <2>2, <2>3, <2>4, <2>5, <2>6, <2>7
            DEF Next, vars, Send, Heartbeat, Accept, Teardown, RefuseClose
<1> QED BY <1>0, <1>R DEF Healthy, OpenIsServed, Waiting

(* The delay last used is the one the attempt counter stands for. *)
LEMMA DelayStep ==
    ASSUME TypeOK, Healthy, DelayOfAttempt, [Next]_vars
    PROVE  DelayOfAttempt'
<1> USE ClientAssumption DEF TypeOK, DelayOfAttempt, Up, Sockets
<1>1. CASE Connect
    BY <1>1 DEF Connect, OpenSocket
<1>2. CASE Reconnect
    BY <1>2 DEF Reconnect, OpenSocket, ClearTimer, Healthy, OneAtATime
<1>3. CASE Close
    BY <1>3 DEF Close
<1>4. CASE \E s \in Sockets : OnOpen(s)
    BY <1>4 DEF OnOpen
<1>5. CASE \E s \in Sockets : StartsClosing(s)
    BY <1>5 DEF StartsClosing, client
<1>6. CASE \E s \in Sockets : OnClose(s)
    BY <1>6 DEF OnClose, ScheduleReconnect, CountAttempt, Healthy, OneAtATime
<1>7. CASE UNCHANGED <<client, sockets>>
    BY <1>7 DEF client, sockets
<1> QED BY <1>1, <1>2, <1>3, <1>4, <1>5, <1>6, <1>7
        DEF Next, vars, Send, Heartbeat, Accept, Teardown, RefuseClose

THEOREM Invariance == Spec => []IInv
<1>1. Init => IInv
    <2> SUFFICES ASSUME Init PROVE IInv
        OBVIOUS
    <2>1. TypeOK
        <3>1. <<>> \in Seq(Frames)
            OBVIOUS
        <3>2. closedByCaller \in BOOLEAN /\ timer \in BOOLEAN /\ heartbeat \in BOOLEAN
            BY DEF Init
        <3> QED BY ClientAssumption, <3>1, <3>2 DEF Init, TypeOK
    <2>2. Lined
        <3>1. written \o queue = <<>> /\ sent = 0
            BY ConcatEmptySeq DEF Init, TypeOK
        <3> QED BY <3>1 DEF Lined, WrittenInOrder, Given, Line
    <2>3. Healthy
        BY DEF Init, Healthy, OpenIsServed, OneAtATime, StaysClosed,
               BeforeTheFirst, IsOpen, Up
    <2>4. DelayOfAttempt
        BY ClientAssumption DEF Init, DelayOfAttempt
    <2> QED BY <2>1, <2>2, <2>3, <2>4 DEF IInv
<1>2. IInv /\ [Next]_vars => IInv'
    BY TypeStep, LineStep, HealthStep, DelayStep DEF IInv, Healthy
<1> QED BY <1>1, <1>2, PTL DEF Spec

(* Every value the client and the server keep is one of its kind; the       *)
(* pauses in particular never run past the list of the delays               *)
(* (SignalingClient.ts, scheduleReconnect).                                  *)
THEOREM TypeCorrect == Spec => []TypeOK
<1>1. IInv => TypeOK
    BY DEF IInv
<1> QED BY <1>1, Invariance, PTL

(* No reconnect repeats or forgets what was given to send, and none but     *)
(* frames whose write threw are overtaken, however many writes throw and    *)
(* whenever they do (send, flush, write).                                    *)
THEOREM Order == Spec => []WrittenInOrder
<1>1. IInv => WrittenInOrder
    BY DEF IInv, Lined
<1> QED BY <1>1, Invariance, PTL

(* Behind an open socket only frames thrown back are queued, and the         *)
(* heartbeat and the status "open" last from onopen until onclose or close,  *)
(* also while the socket is closing (write, onopen, onclose, close).         *)
THEOREM Served == Spec => []OpenIsServed
<1>1. IInv => OpenIsServed
    BY DEF IInv, Healthy
<1> QED BY <1>1, Invariance, PTL

(* There is one socket, or a timer that will make one (open,                *)
(* scheduleReconnect).                                                       *)
THEOREM One == Spec => []OneAtATime
<1>1. IInv => OneAtATime
    BY DEF IInv, Healthy
<1> QED BY <1>1, Invariance, PTL

(* close is for good. *)
THEOREM Closed == Spec => []StaysClosed
<1>1. IInv => StaysClosed
    BY DEF IInv, Healthy
<1> QED BY <1>1, Invariance, PTL

(* The pauses between failed handshakes grow up to the last of the delays   *)
(* (scheduleReconnect).                                                      *)
THEOREM Backoff == Spec => BackoffGrows
<1> DEFINE Grows ==
        \A s \in Sockets :
            ws[s] = "connecting" /\ timer' /\ ~timer
                => delay' > delay \/ delay' = Delays
<1>1. ASSUME IInv, [Next]_vars
      PROVE  [Grows]_vars
    <2>1. TypeOK /\ Healthy /\ DelayOfAttempt
        BY <1>1 DEF IInv
    <2> SUFFICES ASSUME NEW s \in Sockets,
                        ws[s] = "connecting", timer', ~timer
                 PROVE  delay' > delay \/ delay' = Delays
        BY DEF BackoffGrows
    <2>2. s = opened /\ ~Up /\ ~closedByCaller
        BY <2>1 DEF Healthy, OneAtATime, StaysClosed, Up
    <2>3. PICK q \in Sockets : OnClose(q)
        BY <1>1 DEF Next, vars, client, Connect, Send, Heartbeat, Reconnect, Close,
                    OnOpen, StartsClosing, ClearTimer, Accept, Teardown, RefuseClose
    <2>4. /\ delay = IF attempt < Delays THEN attempt ELSE Delays
          /\ delay' = IF attempt < Delays THEN attempt + 1 ELSE Delays
        BY <2>1, <2>2, <2>3 DEF DelayOfAttempt, OnClose, ScheduleReconnect
    <2>5. attempt \in Nat /\ Delays \in Nat
        BY <2>1, ClientAssumption DEF TypeOK
    <2>6. CASE attempt < Delays
        BY <2>4, <2>5, <2>6
    <2>7. CASE ~(attempt < Delays)
        BY <2>4, <2>7
    <2> QED BY <2>6, <2>7
<1> QED BY <1>1, Invariance, PTL DEF Spec, BackoffGrows
=============================================================================
