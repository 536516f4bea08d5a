----------------------------- MODULE MediaProofs -----------------------------
(***************************************************************************)
(* The safety properties of Media, for any number of toggles, host mutes   *)
(* and drops.                                                               *)
(*                                                                         *)
(* Each property speaks of the moment when the frames are through; the     *)
(* invariant behind it says the same of the moments before.  What the row  *)
(* will be is what the last report in "up" says, or the row if there is    *)
(* none; what the tile will be is the last frame of toWatcher, or the tile. *)
(* As long as a room.state is on its way nothing is promised: its handler  *)
(* reports the flags anew.                                                  *)
(***************************************************************************)
EXTENDS Media, SequenceTheorems, TLAPS

(* What the row will say of the microphone and the camera once the reports  *)
(* are applied.                                                              *)
WillBeMuted ==
    \/ row.muted = TRUE /\ \A i \in 1..Len(up) : up[i].muted = None
    \/ \E i \in 1..Len(up) :
           up[i].muted = TRUE /\ \A j \in (i + 1)..Len(up) : up[j].muted = None

WillShow(video) ==
    \/ row.video = video /\ \A i \in 1..Len(up) : up[i].video = None
    \/ \E i \in 1..Len(up) :
           up[i].video = video /\ \A j \in (i + 1)..Len(up) : up[j].video = None

Expected(frame) == \E i \in 1..Len(down) : down[i] = frame

Settled == link = TRUE /\ ~Expected("room.state")

(* The reports in flight lead to the flag of the camera button. *)
VideoInv == Settled => WillShow(controls.video)

(* They lead to a muted row only if the microphone is, or is about to be.   *)
MutedInv ==
    Settled /\ (initial.muted = TRUE => drops = 0) /\ WillBeMuted
        => tracks.muted = TRUE \/ Expected("host.muted_you")

(* Without a drop there is one room.state, the first, and until it has come *)
(* a client that joined muted is muted.                                      *)
FirstInv ==
    drops = 0 =>
        /\ link = TRUE
        /\ ~live /\ initial.muted = TRUE => tracks.muted = TRUE
        /\ \A i \in 1..Len(down) : down[i] = "room.state" => i = 1 /\ ~live

(* The frames to the watcher lead to the row. *)
TileInv ==
    mutes = 0 =>
        /\ telling = None
        /\ toWatcher = <<>> => tile = row
        /\ toWatcher # <<>> => toWatcher[Len(toWatcher)] = row

IInv == TypeOK /\ FirstInv /\ VideoInv /\ MutedInv /\ TileInv

-----------------------------------------------------------------------------
(* Sequences of reports *)

(* A report says what the row will be, of the flags it carries. *)
LEMMA Reporting ==
    ASSUME TypeOK, NEW by \in {"join", "resync", "toggle"},
           NEW muted \in BOOLEAN \union {None}, NEW video \in BOOLEAN \union {None},
           Report(by, muted, video), UNCHANGED row
    PROVE  /\ up' \in Seq(Reports)
           /\ muted = None /\ WillBeMuted' => WillBeMuted
           /\ muted # None /\ WillBeMuted' => muted = TRUE
           /\ video # None => WillShow(video)'
           /\ \A v \in BOOLEAN : video = None /\ WillShow(v) => WillShow(v)'
<1> DEFINE e == [muted |-> muted, video |-> video, by |-> by]
           n == Len(up)
<1>1. e \in Reports /\ up \in Seq(Reports) /\ up' = Append(up, e)
    BY DEF TypeOK, Report, Reports
<1>2. e.muted = muted /\ e.video = video
    OBVIOUS
<1> HIDE DEF e
<1>3. /\ up' \in Seq(Reports) /\ Len(up') = n + 1 /\ n \in Nat
      /\ \A i \in 1..n : up'[i] = up[i]
      /\ up'[n + 1] = e
    BY <1>1, AppendProperties, LenProperties
<1> HIDE DEF n
<1>4. ASSUME muted = None, WillBeMuted'
      PROVE  WillBeMuted
    <2>1. CASE row.muted = TRUE /\ \A i \in 1..Len(up') : up'[i].muted = None
        BY <1>3, <2>1 DEF WillBeMuted, n
    <2>2. ASSUME NEW i \in 1..Len(up'), up'[i].muted = TRUE,
                 \A j \in (i + 1)..Len(up') : up'[j].muted = None
          PROVE  WillBeMuted
        <3>1. i # n + 1
            BY <1>2, <1>3, <1>4, <2>2, MediaAssumption
        <3>2. i \in 1..n /\ up[i].muted = TRUE
            BY <1>3, <2>2, <3>1
        <3>3. \A j \in (i + 1)..n : up[j].muted = None
            BY <1>3, <2>2, <3>2
        <3> QED BY <3>2, <3>3 DEF WillBeMuted, n
    <2> QED BY <1>4, <2>1, <2>2 DEF WillBeMuted
<1>5. ASSUME muted # None, WillBeMuted'
      PROVE  muted = TRUE
    BY <1>2, <1>3, <1>5 DEF WillBeMuted
<1>6. video # None => WillShow(video)'
    <2>1. /\ n + 1 \in 1..Len(up') /\ up'[n + 1].video = video
          /\ \A j \in (n + 1 + 1)..Len(up') : up'[j].video = None
        BY <1>2, <1>3
    <2> QED BY <2>1 DEF WillShow
<1>7. ASSUME NEW v \in BOOLEAN, video = None, WillShow(v)
      PROVE  WillShow(v)'
    <2>1. CASE row.video = v /\ \A i \in 1..Len(up) : up[i].video = None
        <3>1. \A i \in 1..Len(up') : up'[i].video = None
            BY <1>2, <1>3, <1>7, <2>1 DEF n
        <3> QED BY <2>1, <3>1 DEF WillShow
    <2>2. ASSUME NEW i \in 1..Len(up), up[i].video = v,
                 \A j \in (i + 1)..Len(up) : up[j].video = None
          PROVE  WillShow(v)'
        <3>1. i \in 1..Len(up') /\ up'[i].video = v
            BY <1>3, <2>2 DEF n
        <3>2. \A j \in (i + 1)..Len(up') : up'[j].video = None
            BY <1>2, <1>3, <1>7, <2>2 DEF n
        <3> QED BY <3>1, <3>2 DEF WillShow
    <2> QED BY <1>7, <2>1, <2>2 DEF WillShow
<1> QED BY <1>3, <1>4, <1>5, <1>6, <1>7

(* Applying the first report changes nothing of what will be. *)
LEMMA Applying ==
    ASSUME TypeOK, StateUpdate
    PROVE  /\ up' \in Seq(Reports) /\ row' \in Flags
           /\ WillBeMuted' => WillBeMuted
           /\ \A v \in BOOLEAN : WillShow(v) => WillShow(v)'
<1> DEFINE first == Head(up)
           n == Len(up)
<1>1. /\ up \in Seq(Reports) /\ up # <<>> /\ up' = Tail(up)
      /\ row' = [muted |-> IF first.muted = None THEN row.muted ELSE first.muted,
                 video |-> IF first.video = None THEN row.video ELSE first.video]
    BY DEF TypeOK, StateUpdate, Merge
<1>2. /\ first \in Reports /\ up' \in Seq(Reports)
      /\ n \in Nat \ {0} /\ Len(up') = n - 1 /\ first = up[1]
      /\ \A i \in 1..(n - 1) : up'[i] = up[i + 1]
    BY <1>1, HeadTailProperties, LenProperties, EmptySeq
<1> HIDE DEF first, n
<1>3. row' \in Flags
    BY <1>1, <1>2 DEF TypeOK, Flags, Reports
<1>4. /\ row'.muted = IF first.muted = None THEN row.muted ELSE first.muted
      /\ row'.video = IF first.video = None THEN row.video ELSE first.video
    BY <1>1
<1>5. \A j \in 2..n : j - 1 \in 1..(n - 1) /\ up[j] = up'[j - 1]
    BY <1>2
<1>6. ASSUME WillBeMuted'
      PROVE  WillBeMuted
    <2>1. CASE row'.muted = TRUE /\ \A i \in 1..Len(up') : up'[i].muted = None
        <3>1. \A j \in 2..n : up[j].muted = None
            BY <1>2, <1>5, <2>1
        <3>2. CASE first.muted = None
            <4>1. row.muted = TRUE /\ \A i \in 1..n : up[i].muted = None
                BY <1>2, <1>4, <2>1, <3>1, <3>2
            <4> QED BY <4>1 DEF WillBeMuted, n
        <3>3. CASE first.muted # None
            <4>1. 1 \in 1..n /\ up[1].muted = TRUE
                BY <1>2, <1>4, <2>1, <3>3
            <4> QED BY <3>1, <4>1 DEF WillBeMuted, n
        <3> QED BY <3>2, <3>3
    <2>2. ASSUME NEW i \in 1..Len(up'), up'[i].muted = TRUE,
                 \A j \in (i + 1)..Len(up') : up'[j].muted = None
          PROVE  WillBeMuted
        <3>1. i + 1 \in 1..n /\ up[i + 1].muted = TRUE
            BY <1>2, <2>2
        <3>2. \A j \in (i + 1 + 1)..n : up[j].muted = None
            <4> SUFFICES ASSUME NEW j \in (i + 1 + 1)..n PROVE up[j].muted = None
                OBVIOUS
            <4>1. j \in 2..n /\ j - 1 \in (i + 1)..Len(up')
                BY <1>2, <2>2
            <4> QED BY <1>5, <2>2, <4>1
        <3> QED BY <3>1, <3>2 DEF WillBeMuted, n
    <2> QED BY <1>6, <2>1, <2>2 DEF WillBeMuted
<1>7. ASSUME NEW v \in BOOLEAN, WillShow(v)
      PROVE  WillShow(v)'
    <2>1. CASE row.video = v /\ \A i \in 1..n : up[i].video = None
        <3>1. row'.video = v /\ \A i \in 1..Len(up') : up'[i].video = None
            BY <1>2, <1>4, <2>1
        <3> QED BY <3>1 DEF WillShow
    <2>2. ASSUME NEW i \in 1..n, up[i].video = v,
                 \A j \in (i + 1)..n : up[j].video = None
          PROVE  WillShow(v)'
        <3>1. CASE i = 1
            <4>1. row'.video = v
                BY <1>2, <1>4, <2>2, <3>1, MediaAssumption
            <4>2. \A j \in 1..Len(up') : up'[j].video = None
                BY <1>2, <2>2, <3>1
            <4> QED BY <4>1, <4>2 DEF WillShow
        <3>2. CASE i # 1
            <4>1. i - 1 \in 1..Len(up') /\ up'[i - 1].video = v
                BY <1>2, <2>2, <3>2
            <4>2. \A j \in (i - 1 + 1)..Len(up') : up'[j].video = None
                BY <1>2, <2>2, <3>2
            <4> QED BY <4>1, <4>2 DEF WillShow
        <3> QED BY <3>1, <3>2
    <2> QED BY <1>7, <2>1, <2>2 DEF WillShow, n
<1> QED BY <1>2, <1>3, <1>6, <1>7

-----------------------------------------------------------------------------
(* Types *)

LEMMA TypeStep ==
    ASSUME TypeOK, [Next]_vars
    PROVE  TypeOK'
<1> USE MediaAssumption
<1>1. CASE StateUpdate
    <2>1. up' \in Seq(Reports) /\ row' \in Flags
        BY <1>1, Applying
    <2>2. toWatcher' \in Seq(Flags)
        BY <1>1, <2>1, AppendProperties DEF TypeOK, StateUpdate, BroadcastUpdated
    <2>3. byHost' \in BOOLEAN
        BY <1>1 DEF StateUpdate
    <2> QED BY <1>1, <2>1, <2>2, <2>3 DEF TypeOK, StateUpdate, client, counts
<1>2. CASE HostMute
    <2>1. row' \in Flags
        BY <1>2 DEF TypeOK, HostMute, Flags
    <2>2. down' \in Seq({"room.state", "host.muted_you"})
        BY <1>2, AppendProperties DEF TypeOK, HostMute, SendToClient
    <2>3. byHost' \in BOOLEAN /\ mutes' \in 0..MaxMutes
        BY <1>2 DEF TypeOK, HostMute
    <2> QED BY <1>2, <2>1, <2>2, <2>3 DEF TypeOK, HostMute, client
<1>3. CASE HostMuteTell
    <2>1. telling \in Flags
        BY <1>3 DEF TypeOK, HostMuteTell
    <2>2. toWatcher' \in Seq(Flags)
        BY <1>3, <2>1, AppendProperties DEF TypeOK, HostMuteTell, BroadcastUpdated
    <2> QED BY <1>3, <2>2 DEF TypeOK, HostMuteTell, client, counts
<1>4. CASE Watch
    <2>1. tile' \in Flags /\ toWatcher' \in Seq(Flags)
        BY <1>4, HeadTailProperties DEF TypeOK, Watch
    <2> QED BY <1>4, <2>1 DEF TypeOK, Watch, server, client, counts
<1>5. CASE ToggleMute
    <2> DEFINE m == ~controls.muted
    <2>1. /\ Report("toggle", m, None) /\ UNCHANGED row
          /\ controls' = [controls EXCEPT !.muted = m]
          /\ tracks' = [tracks EXCEPT !.muted = m]
        BY <1>5 DEF ToggleMute, SetTrack, server
    <2>2. m \in BOOLEAN
        OBVIOUS
    <2> HIDE DEF m
    <2>3. up' \in Seq(Reports)
        BY <2>1, <2>2, Reporting
    <2>4. controls' \in Flags /\ tracks' \in Flags
        BY <2>1, <2>2 DEF TypeOK, Flags
    <2>5. toggles' \in 0..MaxToggles
        BY <1>5 DEF TypeOK, ToggleMute
    <2>6. UNCHANGED <<server, tile, initial, live, link, down, toWatcher, mutes,
                      drops>>
        BY <1>5 DEF ToggleMute
    <2> QED BY <2>3, <2>4, <2>5, <2>6 DEF TypeOK, server
<1>6. CASE ToggleVideo
    <2> DEFINE v == ~controls.video
    <2>1. /\ Report("toggle", None, v) /\ UNCHANGED row
          /\ controls' = [controls EXCEPT !.video = v]
          /\ tracks' = [tracks EXCEPT !.video = v]
        BY <1>6 DEF ToggleVideo, server
    <2>2. v \in BOOLEAN
        OBVIOUS
    <2> HIDE DEF v
    <2>3. up' \in Seq(Reports)
        BY <2>1, <2>2, Reporting
    <2>4. controls' \in Flags /\ tracks' \in Flags
        BY <2>1, <2>2 DEF TypeOK, Flags
    <2>5. toggles' \in 0..MaxToggles
        BY <1>6 DEF TypeOK, ToggleVideo
    <2>6. UNCHANGED <<server, tile, initial, live, link, down, toWatcher, mutes,
                      drops>>
        BY <1>6 DEF ToggleVideo
    <2> QED BY <2>3, <2>4, <2>5, <2>6 DEF TypeOK, server
<1>7. CASE OnMutedYou
    <2>1. down' \in Seq({"room.state", "host.muted_you"})
        BY <1>7, HeadTailProperties DEF TypeOK, OnMutedYou
    <2>2. controls' \in Flags /\ tracks' \in Flags
        BY <1>7 DEF TypeOK, OnMutedYou, SetTrack, Flags
    <2> QED BY <1>7, <2>1, <2>2 DEF TypeOK, OnMutedYou, server, counts
<1>8. CASE OnRoomState
    <2>1. down' \in Seq({"room.state", "host.muted_you"})
        BY <1>8, HeadTailProperties DEF TypeOK, OnRoomState
    <2>2. PICK by \in {"join", "resync", "toggle"} :
              Report(by, initial.muted, initial.video)
        BY <1>8 DEF OnRoomState
    <2>3. up' \in Seq(Reports)
        BY <1>8, <2>2, Reporting DEF TypeOK, OnRoomState, server, Flags
    <2> QED BY <1>8, <2>1, <2>3 DEF TypeOK, OnRoomState, server, counts
<1>9. CASE Drop
    <2>1. link' \in BOOLEAN
        BY <1>9 DEF Drop
    <2>2. drops' \in 0..MaxDrops
        BY <1>9 DEF TypeOK, Drop
    <2>3. up' = <<>> /\ down' = <<>>
        BY <1>9 DEF Drop
    <2>4. UNCHANGED <<server, tile, client, toWatcher, toggles, mutes>>
        BY <1>9 DEF Drop
    <2> QED BY <2>1, <2>2, <2>3, <2>4 DEF TypeOK, server, client
<1>10. CASE Reopen
    BY <1>10 DEF TypeOK, Reopen, server, client, counts
<1>11. CASE UNCHANGED vars
    BY <1>11 DEF TypeOK, vars, server, client, counts
<1> QED BY <1>1, <1>2, <1>3, <1>4, <1>5, <1>6, <1>7, <1>8, <1>9, <1>10, <1>11
        DEF Next

-----------------------------------------------------------------------------
(* Frames to the client *)

LEMMA Telling ==
    ASSUME TypeOK, NEW frame \in {"room.state", "host.muted_you"},
           SendToClient(frame)
    PROVE  /\ link => Expected(frame)'
           /\ \A f : Expected(f)' => f = frame \/ Expected(f)
           /\ \A f : Expected(f) => Expected(f)'
<1>1. CASE ~link
    BY <1>1 DEF SendToClient, Expected
<1>2. CASE link
    <2> DEFINE n == Len(down)
    <2>1. down' = Append(down, frame)
        BY <1>2 DEF SendToClient
    <2>2. /\ Len(down') = n + 1 /\ n \in Nat
          /\ \A i \in 1..n : down'[i] = down[i]
          /\ down'[n + 1] = frame
        BY <2>1, AppendProperties, LenProperties DEF TypeOK
    <2> QED BY <1>2, <2>2 DEF Expected
<1> QED BY <1>1, <1>2

LEMMA Hearing ==
    ASSUME TypeOK, down # <<>>, down' = Tail(down)
    PROVE  /\ \A f : Expected(f)' => Expected(f)
           /\ \A f : Expected(f) => f = Head(down) \/ Expected(f)'
           /\ Len(down) \in Nat \ {0} /\ Head(down) = down[1]
           /\ \A i \in 1..Len(down') : i + 1 \in 1..Len(down) /\ down'[i] = down[i + 1]
<1> DEFINE n == Len(down)
<1>1. /\ n \in Nat \ {0} /\ Len(down') = n - 1 /\ Head(down) = down[1]
      /\ \A i \in 1..(n - 1) : down'[i] = down[i + 1]
    BY HeadTailProperties, LenProperties, EmptySeq DEF TypeOK
<1>2. ASSUME NEW f, Expected(f)
      PROVE  f = Head(down) \/ Expected(f)'
    <2>1. PICK i \in 1..n : down[i] = f
        BY <1>2 DEF Expected
    <2>2. CASE i = 1
        BY <1>1, <2>1, <2>2
    <2>3. CASE i # 1
        <3>1. i - 1 \in 1..Len(down') /\ down'[i - 1] = f
            BY <1>1, <2>1, <2>3
        <3> QED BY <3>1 DEF Expected
    <2> QED BY <2>2, <2>3
<1> QED BY <1>1, <1>2 DEF Expected

-----------------------------------------------------------------------------
(* The invariants *)

LEMMA FirstStep ==
    ASSUME TypeOK, FirstInv, [Next]_vars
    PROVE  FirstInv'
<1>1. CASE HostMute
    <2>1. SendToClient("host.muted_you") /\ UNCHANGED <<client, link, drops>>
        BY <1>1 DEF HostMute
    <2>2. \A i \in 1..Len(down') :
              down'[i] = "room.state" => i \in 1..Len(down) /\ down[i] = "room.state"
        <3>1. CASE ~link
            BY <2>1, <3>1 DEF SendToClient
        <3>2. CASE link
            <4>1. down' = Append(down, "host.muted_you")
                BY <2>1, <3>2 DEF SendToClient
            <4>2. /\ Len(down') = Len(down) + 1 /\ Len(down) \in Nat
                  /\ \A i \in 1..Len(down) : down'[i] = down[i]
                  /\ down'[Len(down) + 1] = "host.muted_you"
                BY <4>1, AppendProperties, LenProperties DEF TypeOK
            <4> QED BY <4>2
        <3> QED BY <3>1, <3>2
    <2> QED BY <2>1, <2>2 DEF FirstInv, client
<1>2. CASE ToggleMute
    BY <1>2 DEF ToggleMute, FirstInv
<1>3. CASE ToggleVideo
    BY <1>3 DEF ToggleVideo, FirstInv
<1>4. CASE OnMutedYou
    <2>1. /\ down # <<>> /\ down' = Tail(down)
          /\ tracks' = [tracks EXCEPT !.muted = TRUE]
          /\ UNCHANGED <<initial, live, link, drops>>
        BY <1>4 DEF OnMutedYou, SetTrack, counts
    <2>2. tracks'.muted = TRUE
        BY <2>1 DEF TypeOK, Flags
    <2>3. /\ Len(down) \in Nat
          /\ \A i \in 1..Len(down') :
                 i + 1 \in 1..Len(down) /\ down'[i] = down[i + 1]
        BY <2>1, Hearing
    <2>4. ASSUME drops = 0, NEW i \in 1..Len(down'), down'[i] = "room.state"
          PROVE  FALSE
        BY <2>3, <2>4 DEF FirstInv
    <2> QED BY <2>1, <2>2, <2>4 DEF FirstInv
<1>5. CASE OnRoomState
    <2>1. /\ down # <<>> /\ down' = Tail(down) /\ live' = TRUE
          /\ UNCHANGED <<drops, link>>
        BY <1>5 DEF OnRoomState, counts
    <2>2. /\ Len(down) \in Nat
          /\ \A i \in 1..Len(down') :
                 i + 1 \in 1..Len(down) /\ down'[i] = down[i + 1]
        BY <2>1, Hearing
    <2>3. ASSUME drops = 0, NEW i \in 1..Len(down'), down'[i] = "room.state"
          PROVE  FALSE
        BY <2>2, <2>3 DEF FirstInv
    <2> QED BY <2>1, <2>3 DEF FirstInv
<1>6. CASE Drop
    <2>1. drops' # 0
        BY <1>6 DEF Drop, TypeOK
    <2> QED BY <2>1 DEF FirstInv
<1>7. CASE Reopen
    BY <1>7 DEF Reopen, FirstInv, counts
<1>8. CASE UNCHANGED <<client, link, down, counts>>
    BY <1>8 DEF FirstInv, client, counts
<1> QED BY <1>1, <1>2, <1>3, <1>4, <1>5, <1>6, <1>7, <1>8
        DEF Next, vars, StateUpdate, HostMuteTell, Watch

LEMMA VideoStep ==
    ASSUME TypeOK, VideoInv, [Next]_vars
    PROVE  VideoInv'
<1> SUFFICES ASSUME link' = TRUE, ~Expected("room.state")'
             PROVE  WillShow(controls.video)'
    BY DEF VideoInv, Settled
<1>a. PICK was \in BOOLEAN : controls.video = was
    BY DEF TypeOK, Flags
<1>1. CASE StateUpdate
    <2>1. WillShow(was) /\ controls' = controls
        BY <1>1, <1>a DEF StateUpdate, VideoInv, Settled, Expected, client
    <2> QED BY <1>1, <1>a, <2>1, Applying
<1>2. CASE HostMute
    <2>1. /\ SendToClient("host.muted_you")
          /\ UNCHANGED <<controls, link, up>>
          /\ row' = [row EXCEPT !.muted = TRUE]
        BY <1>2 DEF HostMute, client
    <2>2. WillShow(was)
        BY <1>a, <2>1, Telling DEF VideoInv, Settled
    <2>3. row'.video = row.video
        BY <2>1 DEF TypeOK, Flags
    <2> QED BY <1>a, <2>1, <2>2, <2>3 DEF WillShow
<1>3. CASE ToggleMute
    <2> DEFINE m == ~controls.muted
    <2>1. /\ Report("toggle", m, None) /\ m \in BOOLEAN
          /\ controls' = [controls EXCEPT !.muted = m]
          /\ UNCHANGED <<row, link, down>>
        BY <1>3 DEF ToggleMute, server
    <2> HIDE DEF m
    <2>2. WillShow(was)
        BY <1>a, <2>1 DEF VideoInv, Settled, Expected
    <2>3. WillShow(was)'
        BY <1>a, <2>1, <2>2, Reporting
    <2>4. controls'.video = was
        BY <1>a, <2>1 DEF TypeOK, Flags
    <2> QED BY <2>3, <2>4 DEF WillShow
<1>4. CASE ToggleVideo
    <2>1. PICK v \in BOOLEAN : /\ Report("toggle", None, v)
                               /\ controls' = [controls EXCEPT !.video = v]
        <3> DEFINE v == ~controls.video
        <3>1. v \in BOOLEAN
            OBVIOUS
        <3>2. Report("toggle", None, v) /\ controls' = [controls EXCEPT !.video = v]
            BY <1>4 DEF ToggleVideo
        <3> HIDE DEF v
        <3> QED BY <3>1, <3>2
    <2>2. UNCHANGED row
        BY <1>4 DEF ToggleVideo, server
    <2>3. WillShow(v)'
        BY <2>1, <2>2, Reporting, MediaAssumption
    <2>4. controls'.video = v
        BY <2>1 DEF TypeOK, Flags
    <2> QED BY <2>3, <2>4 DEF WillShow
<1>5. CASE OnMutedYou
    <2>1. /\ down # <<>> /\ down' = Tail(down) /\ Head(down) = "host.muted_you"
          /\ controls' = [controls EXCEPT !.muted = TRUE]
          /\ UNCHANGED <<row, link, up>>
        BY <1>5 DEF OnMutedYou, server
    <2>2. ~Expected("room.state")
        BY <2>1, Hearing
    <2>3. WillShow(was)
        BY <1>a, <2>1, <2>2 DEF VideoInv, Settled
    <2>4. controls'.video = was
        BY <1>a, <2>1 DEF TypeOK, Flags
    <2> QED BY <2>1, <2>3, <2>4 DEF WillShow
<1>6. CASE OnRoomState
    <2>1. PICK by \in {"join", "resync", "toggle"} :
              Report(by, initial.muted, initial.video)
        BY <1>6 DEF OnRoomState
    <2>2. controls' = initial /\ UNCHANGED row
        BY <1>6 DEF OnRoomState, server
    <2>3. PICK v \in BOOLEAN : initial.video = v
        BY DEF TypeOK, Flags
    <2>4. initial.muted \in BOOLEAN
        BY DEF TypeOK, Flags
    <2>5. WillShow(v)'
        BY <2>1, <2>2, <2>3, <2>4, Reporting, MediaAssumption
    <2> QED BY <2>2, <2>3, <2>5 DEF WillShow
<1>7. CASE Drop
    BY <1>7 DEF Drop
<1>8. CASE Reopen
    <2>1. down' = <<"room.state">>
        BY <1>8 DEF Reopen
    <2>2. 1 \in 1..Len(down') /\ down'[1] = "room.state"
        BY <2>1
    <2> QED BY <2>2 DEF Expected
<1>9. CASE UNCHANGED <<row, controls, link, up, down>>
    BY <1>9 DEF VideoInv, Settled, Expected, WillShow
<1> QED BY <1>1, <1>2, <1>3, <1>4, <1>5, <1>6, <1>7, <1>8, <1>9
        DEF Next, vars, server, client, HostMuteTell, Watch

LEMMA MutedStep ==
    ASSUME TypeOK, FirstInv, MutedInv, [Next]_vars
    PROVE  MutedInv'
<1> SUFFICES ASSUME link' = TRUE, ~Expected("room.state")',
                    (initial.muted = TRUE => drops = 0)', WillBeMuted'
             PROVE  tracks'.muted = TRUE \/ Expected("host.muted_you")'
    BY DEF MutedInv, Settled
<1>1. CASE StateUpdate
    <2>1. UNCHANGED <<initial, tracks, link, down, drops>>
        BY <1>1 DEF StateUpdate, client, counts
    <2>2. WillBeMuted
        BY <1>1, Applying
    <2> QED BY <2>1, <2>2 DEF MutedInv, Settled, Expected
<1>2. CASE HostMute
    BY <1>2, Telling DEF HostMute
<1>3. CASE ToggleMute
    <2> DEFINE m == ~controls.muted
    <2>1. /\ Report("toggle", m, None) /\ m \in BOOLEAN
          /\ tracks' = [tracks EXCEPT !.muted = m]
          /\ UNCHANGED row
        BY <1>3 DEF ToggleMute, SetTrack, server
    <2> HIDE DEF m
    <2>2. m = TRUE
        BY <2>1, Reporting, MediaAssumption
    <2> QED BY <2>1, <2>2 DEF TypeOK, Flags
<1>4. CASE ToggleVideo
    <2> DEFINE v == ~controls.video
    <2>1. /\ Report("toggle", None, v) /\ v \in BOOLEAN
          /\ tracks' = [tracks EXCEPT !.video = v]
          /\ UNCHANGED <<row, initial, link, down, drops>>
        BY <1>4 DEF ToggleVideo, server
    <2> HIDE DEF v
    <2>2. WillBeMuted
        BY <2>1, Reporting
    <2>3. tracks'.muted = tracks.muted
        BY <2>1 DEF TypeOK, Flags
    <2> QED BY <2>1, <2>2, <2>3 DEF MutedInv, Settled, Expected
<1>5. CASE OnMutedYou
    BY <1>5 DEF OnMutedYou, SetTrack, TypeOK, Flags
<1>6. CASE OnRoomState
    <2>1. /\ down # <<>> /\ down' = Tail(down) /\ Head(down) = "room.state"
          /\ UNCHANGED <<row, initial, tracks, drops>>
        BY <1>6 DEF OnRoomState, server, counts
    <2>2. initial.muted \in BOOLEAN /\ initial.video \in BOOLEAN
        BY DEF TypeOK, Flags
    <2>3. initial.muted = TRUE
        <3>1. PICK by \in {"join", "resync", "toggle"} :
                  Report(by, initial.muted, initial.video)
            BY <1>6 DEF OnRoomState
        <3> QED BY <2>1, <2>2, <3>1, Reporting, MediaAssumption
    <2>4. drops = 0
        BY <2>1, <2>3
    <2>5. 1 \in 1..Len(down) /\ down[1] = "room.state"
        BY <2>1, Hearing
    <2> QED BY <2>1, <2>3, <2>4, <2>5 DEF FirstInv
<1>7. CASE Drop
    BY <1>7 DEF Drop
<1>8. CASE Reopen
    <2>1. down' = <<"room.state">>
        BY <1>8 DEF Reopen
    <2>2. 1 \in 1..Len(down') /\ down'[1] = "room.state"
        BY <2>1
    <2> QED BY <2>2 DEF Expected
<1>9. CASE UNCHANGED <<row, initial, tracks, link, up, down, drops>>
    BY <1>9 DEF MutedInv, Settled, Expected, WillBeMuted
<1> QED BY <1>1, <1>2, <1>3, <1>4, <1>5, <1>6, <1>7, <1>8, <1>9
        DEF Next, vars, server, client, counts, HostMuteTell, Watch

LEMMA TileStep ==
    ASSUME TypeOK, TileInv, [Next]_vars
    PROVE  TileInv' /\ (mutes' = 0 => mutes = 0)
<1>1. CASE StateUpdate
    <2>1. toWatcher' = Append(toWatcher, row') /\ UNCHANGED <<telling, counts>>
        BY <1>1 DEF StateUpdate, BroadcastUpdated
    <2>2. row' \in Flags
        BY <1>1, Applying
    <2>3. toWatcher' # <<>> /\ toWatcher'[Len(toWatcher')] = row'
        BY <2>1, <2>2, AppendProperties DEF TypeOK
    <2> QED BY <2>1, <2>3 DEF TileInv, counts
<1>2. CASE HostMute
    <2>1. mutes' # 0
        BY <1>2 DEF HostMute, TypeOK
    <2> QED BY <2>1 DEF TileInv
<1>3. CASE HostMuteTell
    <2>1. mutes # 0 /\ mutes' = mutes
        BY <1>3 DEF HostMuteTell, TileInv, counts
    <2> QED BY <2>1 DEF TileInv
<1>4. CASE Watch
    <2> DEFINE n == Len(toWatcher)
    <2>1. /\ toWatcher # <<>> /\ toWatcher' = Tail(toWatcher)
          /\ tile' = Head(toWatcher)
          /\ UNCHANGED <<row, telling, mutes>>
        BY <1>4 DEF Watch, server, counts
    <2>2. /\ n \in Nat \ {0} /\ Len(toWatcher') = n - 1
          /\ toWatcher' \in Seq(Flags)
          /\ \A i \in 1..(n - 1) : toWatcher'[i] = toWatcher[i + 1]
          /\ Head(toWatcher) = toWatcher[1]
        BY <2>1, HeadTailProperties, LenProperties, EmptySeq DEF TypeOK
    <2>3. CASE toWatcher' = <<>>
        <3>1. n = 1
            BY <2>2, <2>3
        <3> QED BY <2>1, <2>2, <2>3, <3>1 DEF TileInv
    <2>4. CASE toWatcher' # <<>>
        <3>1. n - 1 \in 1..(n - 1) /\ toWatcher'[n - 1] = toWatcher[n]
            BY <2>2, <2>4, EmptySeq
        <3> QED BY <2>1, <2>2, <2>4, <3>1 DEF TileInv
    <2> QED BY <2>1, <2>3, <2>4
<1>5. CASE UNCHANGED <<row, telling, tile, toWatcher, mutes>>
    BY <1>5 DEF TileInv
<1> QED BY <1>1, <1>2, <1>3, <1>4, <1>5
        DEF Next, vars, server, client, counts, ToggleMute, ToggleVideo,
            OnMutedYou, OnRoomState, Drop, Reopen

-----------------------------------------------------------------------------

THEOREM Invariance == Spec => []IInv
<1>1. Init => IInv
    <2> SUFFICES ASSUME Init PROVE IInv
        OBVIOUS
    <2>1. TypeOK
        <3>1. down \in Seq({"room.state", "host.muted_you"})
            BY DEF Init
        <3>2. byHost \in BOOLEAN /\ live \in BOOLEAN /\ link \in BOOLEAN
            BY DEF Init
        <3> QED BY <3>1, <3>2, MediaAssumption DEF Init, TypeOK
    <2>2. /\ Len(down) = 1 /\ down[1] = "room.state"
        BY DEF Init
    <2>3. FirstInv
        BY <2>2 DEF Init, FirstInv
    <2>4. Expected("room.state")
        BY <2>2 DEF Expected
    <2>5. VideoInv /\ MutedInv
        BY <2>4 DEF VideoInv, MutedInv, Settled
    <2>6. TileInv
        BY DEF Init, TileInv
    <2> QED BY <2>1, <2>3, <2>5, <2>6 DEF IInv
<1>2. IInv /\ [Next]_vars => IInv'
    BY TypeStep, FirstStep, VideoStep, MutedStep, TileStep DEF IInv
<1> QED BY <1>1, <1>2, PTL DEF Spec

(* Flags are flags and frames are frames: merging a partial report into the *)
(* row never leaves a hole in it (apply_state_update).                       *)
THEOREM TypeCorrect == Spec => []TypeOK
<1>1. IInv => TypeOK
    BY DEF IInv
<1> QED BY <1>1, Invariance, PTL

(* However toggles and host mutes cross, whom the server has as muted is    *)
(* not heard once the frames are through (host.mute, state.update).          *)
THEOREM MutedIsMuted == Spec => []RowMutedMeansMuted
<1>1. IInv => RowMutedMeansMuted
    <2> SUFFICES ASSUME IInv, Reported, row.muted, initial.muted => drops = 0
                 PROVE  tracks.muted
        BY DEF RowMutedMeansMuted
    <2>1. TypeOK /\ MutedInv
        BY DEF IInv
    <2>2. row.muted = TRUE
        BY <2>1 DEF TypeOK, Flags
    <2>3. WillBeMuted
        BY <2>2 DEF Reported, WillBeMuted
    <2>4. link = TRUE
        BY <2>1 DEF Reported, TypeOK
    <2>5. \A f : ~Expected(f)
        BY DEF Reported, Expected
    <2>6. tracks.muted = TRUE
        BY <2>1, <2>3, <2>4, <2>5 DEF MutedInv, Settled
    <2> QED BY <2>6
<1> QED BY <1>1, Invariance, PTL

(* The camera button and the row agree once the frames are through, also    *)
(* after reconnects (state.update, room.state).                              *)
THEOREM VideoAgrees == Spec => []VideoReported
<1>1. IInv => VideoReported
    <2> SUFFICES ASSUME IInv, Reported
                 PROVE  row.video = controls.video
        BY DEF VideoReported
    <2>1. TypeOK /\ VideoInv
        BY DEF IInv
    <2>2. link = TRUE
        BY <2>1 DEF Reported, TypeOK
    <2>3. ~Expected("room.state")
        BY DEF Reported, Expected
    <2>4. WillShow(controls.video) /\ Len(up) = 0
        BY <2>1, <2>2, <2>3 DEF VideoInv, Settled, Reported
    <2> QED BY <2>4 DEF WillShow
<1> QED BY <1>1, Invariance, PTL

(* Without host mutes the tile of the watcher is the row once the frames to *)
(* it are through (_broadcast_peer_updated, peer.updated).                   *)
THEOREM TileAgrees == Spec => []TileFollowsRow
<1>1. IInv => TileFollowsRow
    BY DEF IInv, TileInv, TileFollowsRow
<1> QED BY <1>1, Invariance, PTL
=============================================================================
