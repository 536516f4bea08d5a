-------------------------------- MODULE Media --------------------------------
(***************************************************************************)
(* Whether one participant is muted and shows video, as five places have   *)
(* it: the microphone and camera of its client, the buttons of that client *)
(* (isMuted and isVideoOn of the store), the participants row, the frames  *)
(* on their way, and the tile the others see.  The client reports its      *)
(* toggles with state.update; a host mutes it with host.mute, which writes *)
(* the row, tells the target and only then the room; after a reconnect the *)
(* handler of room.state reports what the client joined with.              *)
(*                                                                         *)
(* Frames travel in order.  One watcher stands for everybody else: they    *)
(* are all sent the same frames.  The raised hand is a flag like video.    *)
(***************************************************************************)
EXTENDS Integers, Sequences

CONSTANTS
    None,       \* a key a state.update does not carry
    MaxToggles, \* bounds: toggles, host mutes, drops
    MaxMutes,
    MaxDrops

ASSUME MediaAssumption ==
    /\ None \notin BOOLEAN
    /\ MaxToggles \in Nat /\ MaxMutes \in Nat /\ MaxDrops \in Nat

VARIABLES
    row,        \* is_muted, is_video_on of the participants row
    byHost,     \* the mute in the row is the host's, no report came since
    telling,    \* the row a host.mute in progress is still to broadcast
    tile,       \* what the watcher shows
    initial,    \* initialMediaRef: what the client joined with
    controls,   \* isMuted, isVideoOn of the client's store
    tracks,     \* the audio track is disabled, the video track enabled
    live,       \* the first room.state came: the buttons are there
    link,       \* the client's socket is up
    up,         \* state.update frames sent, or queued while the link is down
    down,       \* frames to the client
    toWatcher,  \* peer.updated frames to the watcher
    toggles, mutes, drops

server == <<row, byHost, telling>>
client == <<initial, controls, tracks, live>>
counts == <<toggles, mutes, drops>>
vars   == <<server, tile, client, link, up, down, toWatcher, counts>>

Flags   == [muted : BOOLEAN, video : BOOLEAN]
Reports == [muted : BOOLEAN \union {None}, video : BOOLEAN \union {None},
            by : {"join", "resync", "toggle"}]

TypeOK ==
    /\ row \in Flags /\ tile \in Flags
    /\ initial \in Flags /\ controls \in Flags /\ tracks \in Flags
    /\ byHost \in BOOLEAN /\ live \in BOOLEAN /\ link \in BOOLEAN
    /\ telling \in Flags \union {None}
    /\ up \in Seq(Reports)
    /\ down \in Seq({"room.state", "host.muted_you"})
    /\ toWatcher \in Seq(Flags)
    /\ toggles \in 0..MaxToggles /\ mutes \in 0..MaxMutes /\ drops \in 0..MaxDrops

(* The client has joined and its socket was admitted: the row has the       *)
(* preferences of the user, the client what the pre-join gate left it with. *)
Init ==
    /\ row \in Flags /\ tile = row
    /\ initial \in Flags /\ controls = initial /\ tracks = initial
    /\ byHost = FALSE /\ telling = None
    /\ live = FALSE /\ link = TRUE
    /\ up = <<>> /\ down = <<"room.state">> /\ toWatcher = <<>>
    /\ toggles = 0 /\ mutes = 0 /\ drops = 0

-----------------------------------------------------------------------------
(* The server *)

(* Faulty variants, for trying out what the runs can tell apart. *)
VideoOffByDefault(flags, report) ==
    [muted |-> IF report.muted = None THEN flags.muted ELSE report.muted,
     video |-> report.video = TRUE]
TellNobody(frame) == UNCHANGED down
TellOld(flags) == toWatcher' = Append(toWatcher, row)

(* apply_state_update: only the keys that are there. *)
Merge(flags, report) ==
    [muted |-> IF report.muted = None THEN flags.muted ELSE report.muted,
     video |-> IF report.video = None THEN flags.video ELSE report.video]

BroadcastUpdated(flags) == toWatcher' = Append(toWatcher, flags)

(* A frame to the client is lost when its socket is gone. *)
SendToClient(frame) == down' = IF link THEN Append(down, frame) ELSE down

StateUpdate ==
    /\ link
    /\ up # <<>>
    /\ row' = Merge(row, Head(up))
    /\ byHost' = (byHost /\ Head(up).muted = None)
    /\ up' = Tail(up)
    /\ BroadcastUpdated(row')
    /\ UNCHANGED <<telling, tile, client, link, down, counts>>

(* host.mute, up to the await of the frame to the target. *)
HostMute ==
    /\ mutes < MaxMutes
    /\ telling = None
    /\ row' = [row EXCEPT !.muted = TRUE]
    /\ byHost' = TRUE
    /\ telling' = row'
    /\ SendToClient("host.muted_you")
    /\ mutes' = mutes + 1
    /\ UNCHANGED <<tile, client, link, up, toWatcher, toggles, drops>>

(* Then the room is told what the row was like when it was written. *)
HostMuteTell ==
    /\ telling # None
    /\ BroadcastUpdated(telling)
    /\ telling' = None
    /\ UNCHANGED <<row, byHost, tile, client, link, up, down, counts>>

Watch ==
    /\ toWatcher # <<>>
    /\ tile' = Head(toWatcher)
    /\ toWatcher' = Tail(toWatcher)
    /\ UNCHANGED <<server, client, link, up, down, counts>>

-----------------------------------------------------------------------------
(* The client *)

Report(by, muted, video) ==
    up' = Append(up, [muted |-> muted, video |-> video, by |-> by])

SetTrack(muted) == tracks' = [tracks EXCEPT !.muted = muted]

ToggleMute ==
    /\ live /\ toggles < MaxToggles
    /\ controls' = [controls EXCEPT !.muted = ~@]
    /\ SetTrack(~controls.muted)
    /\ Report("toggle", ~controls.muted, None)
    /\ toggles' = toggles + 1
    /\ UNCHANGED <<server, tile, initial, live, link, down, toWatcher, mutes,
                   drops>>

ToggleVideo ==
    /\ live /\ toggles < MaxToggles
    /\ controls' = [controls EXCEPT !.video = ~@]
    /\ tracks' = [tracks EXCEPT !.video = ~controls.video]
    /\ Report("toggle", None, ~controls.video)
    /\ toggles' = toggles + 1
    /\ UNCHANGED <<server, tile, initial, live, link, down, toWatcher, mutes,
                   drops>>

(* The track is disabled, but nothing is reported. *)
OnMutedYou ==
    /\ link /\ down # <<>> /\ Head(down) = "host.muted_you"
    /\ down' = Tail(down)
    /\ SetTrack(TRUE)
    /\ controls' = [controls EXCEPT !.muted = TRUE]
    /\ UNCHANGED <<server, tile, initial, live, link, up, toWatcher, counts>>

(* The buttons take the server's flags (setRoomState) and at once those the *)
(* client joined with, which are reported; the tracks stay as they are.     *)
OnRoomState ==
    /\ link /\ down # <<>> /\ Head(down) = "room.state"
    /\ down' = Tail(down)
    /\ live' = TRUE
    /\ controls' = initial
    /\ Report(IF live THEN "resync" ELSE "join", initial.muted, initial.video)
    /\ UNCHANGED <<server, tile, initial, tracks, link, toWatcher, counts>>

(* The socket fails and what is in flight with it ... *)
Drop ==
    /\ link
    /\ drops < MaxDrops
    /\ link' = FALSE
    /\ up' = <<>> /\ down' = <<>>
    /\ drops' = drops + 1
    /\ UNCHANGED <<server, tile, client, toWatcher, toggles, mutes>>

(* ... and a new one is admitted before the server has noticed. *)
Reopen ==
    /\ ~link
    /\ link' = TRUE
    /\ down' = <<"room.state">>
    /\ UNCHANGED <<server, tile, client, up, toWatcher, counts>>

Next == \/ StateUpdate \/ HostMute \/ HostMuteTell \/ Watch
        \/ ToggleMute \/ ToggleVideo \/ OnMutedYou \/ OnRoomState
        \/ Drop \/ Reopen

Spec == Init /\ [][Next]_vars

-----------------------------------------------------------------------------
(* Properties *)

(* The client is connected and every report of its own has been applied. *)
Reported == link /\ up = <<>> /\ down = <<>>

(* Nobody is heard whom the server has as muted: once the frames between    *)
(* the two are through, a muted row means a disabled microphone, in every   *)
(* order of toggles and host mutes (state.update, host.muted_you).  With     *)
(* reconnects it is so for who joined unmuted; see the README for the rest. *)
RowMutedMeansMuted ==
    Reported /\ row.muted /\ (initial.muted => drops = 0) => tracks.muted

(* The camera button and the row agree when the frames between the client   *)
(* and the server are through, across drops and reconnects.                 *)
VideoReported == Reported => row.video = controls.video

(* Without a host mute nobody's roster drifts from the row: once the frames *)
(* to the watcher are through, the tile is the row.                          *)
TileFollowsRow ==
    mutes = 0 /\ toWatcher = <<>> => tile = row

(* setRoomState, "the server row is authoritative on reconnect": what a     *)
(* client reports because it reconnected does not undo a mute of the host.  *)
(* The code does not keep this: see the run that finds it violated.          *)
HostMuteSurvivesReconnect ==
    [][byHost /\ row.muted /\ ~row'.muted => Head(up).by # "resync"]_vars
=============================================================================
