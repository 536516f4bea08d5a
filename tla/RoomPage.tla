------------------------------ MODULE RoomPage ------------------------------
(***************************************************************************)
(* The meeting page of one browser tab (MeetingRoom.tsx, its pre-join gate *)
(* and its drawers) through several visits, each to another meeting.       *)
(*                                                                         *)
(* A visit is one mounted MeetingRoom with refs of its own; promises it    *)
(* has started (getUserMedia, joinMeeting, listMessages) outlive it and    *)
(* write to its refs and to the store, which all visits share.  A join is  *)
(* one call of join, and names the participants row, the socket and the    *)
(* PeerManager it leads to.  The socket itself is SignalingClient, the     *)
(* peer connections are Mesh, the mute flags on the server are Media.      *)
(***************************************************************************)
EXTENDS MeetingStore, FiniteSets, Functions

CONSTANTS
    Visits,         \* bound: visits of the tab
    MaxJoins,       \* bound: calls of join
    MaxStreams,     \* bound: calls of getUserMedia
    MaxMessages,    \* bound: chat messages
    MayEnd,         \* bound: the meetings that may end
    Them            \* the row of somebody else, there throughout

Joins   == 1..MaxJoins
Streams == 1..MaxStreams

Rows    == Joins \union {Them}

ASSUME RoomPageAssumption ==
    /\ Visits \in Nat /\ MaxJoins \in Nat /\ MaxStreams \in Nat
    /\ MaxMessages \in Nat
    /\ Them \notin Joins \union {NoOne}

VARIABLES
    visit,          \* the newest visit, 0 before the first
    mounted,        \* its page is on screen
    phase,
    identity,       \* a token is stored
    stream,         \* of each getUserMedia: its state
    asker,          \*   and the visit it was called from
    joined,         \* of each join: its state
    by,             \*   the visit it belongs to
    history,        \*   its listMessages: how much of the chat it read
    heard,          \*   how far in the chat its connection is, 0 without one
    signalingRef,   \* of each visit: the join its refs hold, 0 if none
    localStreamRef, \*   and the stream
    log,            \* chat messages of each meeting on the server
    ended,          \* meetings that have ended
    served,         \*   and what their end has made of the joins' connections
    store,
    selected        \* cached result of selectOrderedParticipants

tab     == <<visit, mounted, phase>>
media   == <<stream, asker>>
joins   == <<joined, by, history, heard>>
refs    == <<signalingRef, localStreamRef>>
meeting == <<log, ended, served>>
shared  == <<store, selected>>
vars    == <<tab, identity, media, joins, refs, meeting, shared>>

Unread == -1                        \* the request is under way
Done   == -2                        \* it is over, or was never made
Stale  == [self |-> -1, list |-> <<{}, {}>>]  \* the cached Map is not the store's

Meetings == 1..Visits
Messages == Meetings \X (Nat \ {0})

TypeOK ==
    /\ visit \in 0..Visits /\ mounted \in BOOLEAN
    /\ phase \in {"prejoin", "joining", "live", "left", "error"}
    /\ identity \in BOOLEAN
    /\ stream \in [Streams -> {"none", "asked", "live", "stopped", "denied"}]
    /\ asker \in [Streams -> 0..Visits]
    /\ joined \in [Joins -> {"none", "asked", "open", "greeted", "down", "closed"}]
    /\ by \in [Joins -> 0..Visits]
    /\ history \in [Joins -> {Unread, Done} \union Nat]
    /\ heard \in [Joins -> Nat]
    /\ signalingRef \in [Meetings -> 0..MaxJoins]
    /\ localStreamRef \in [Meetings -> 0..MaxStreams]
    /\ log \in [Meetings -> Nat]
    /\ ended \subseteq Meetings
    /\ served \in [Joins -> {"no", "late", "told"}]
    /\ store \in [self : 0..MaxJoins, participants : SUBSET Rows,
                  messages : Seq(Messages), localStream : 0..MaxStreams]
    /\ selected \in [self : -1..MaxJoins, list : (SUBSET Rows) \X (SUBSET Rows)]

Init ==
    /\ visit = 0 /\ mounted = FALSE /\ phase = "prejoin"
    /\ identity \in BOOLEAN
    /\ stream = [s \in Streams |-> "none"] /\ asker = [s \in Streams |-> 0]
    /\ joined = [j \in Joins |-> "none"] /\ by = [j \in Joins |-> 0]
    /\ history = [j \in Joins |-> Done] /\ heard = [j \in Joins |-> 0]
    /\ signalingRef = [v \in Meetings |-> 0]
    /\ localStreamRef = [v \in Meetings |-> 0]
    /\ log = [v \in Meetings |-> 0] /\ ended = {}
    /\ served = [j \in Joins |-> "no"]
    /\ store = initialState
    /\ selected = Stale

-----------------------------------------------------------------------------
(* The page *)

OnScreen(v) == mounted /\ visit = v
Showing(p) == mounted /\ phase = p

AsksForName == Showing("prejoin") /\ ~identity
OffersMedia == Showing("prejoin") /\ identity
InRoom      == Showing("live")

(* setPhase; it does nothing in a component that is gone. *)
setPhase(v, p) == phase' = IF OnScreen(v) THEN p ELSE phase

(* useMeetingStore(selectOrderedParticipants) runs when a page is mounted and  *)
(* after every operation on the store while it is.  It computes the list anew  *)
(* if the Map is not the one it has cached the list of, or self is another.    *)
Selection(s) == [self |-> s.self, list |-> ordered(s)]

Cached(s) == IF selected.self # s.self THEN Selection(s) ELSE selected

(* An operation that leaves the Map in place. *)
Keeps(s) ==
    /\ store' = s
    /\ selected' = IF mounted THEN Cached(s) ELSE selected

(* Faulty variants, here and below, for trying out what the runs can tell    *)
(* apart.                                                                     *)
InPlace(s) == Keeps(s)

(* An operation that puts another Map in place. *)
Replaces(s) ==
    /\ store' = s
    /\ selected' = IF mounted THEN Selection(s) ELSE Stale

Reset == Replaces(initialState)

stopStream(s) ==
    stream' = [t \in Streams |-> IF t = s THEN "stopped" ELSE stream[t]]

Releases(v) ==
    /\ joined' = [j \in Joins |-> IF j = signalingRef[v] THEN "closed" ELSE joined[j]]
    /\ heard' = [j \in Joins |-> IF j = signalingRef[v] THEN 0 ELSE heard[j]]
    /\ signalingRef' = [signalingRef EXCEPT ![v] = 0]
    /\ stopStream(localStreamRef[v])
    /\ localStreamRef' = [localStreamRef EXCEPT ![v] = 0]

teardown(v) == Releases(v) /\ Reset

StaysInRoom(v) == teardown(v) /\ UNCHANGED phase

(* leave, from its button or through leaveRef from a frame: the push is the  *)
(* tab's, whichever visit's socket has brought the frame.                    *)
leave(v) ==
    /\ teardown(v)
    /\ setPhase(v, "left")

Arrive ==
    /\ ~mounted /\ visit < Visits
    /\ visit' = visit + 1
    /\ mounted' = TRUE /\ phase' = "prejoin"
    /\ selected' = Cached(store)
    /\ UNCHANGED <<identity, media, joins, refs, meeting, store>>

(* The page is left, by a link of the shell around it or by the push.  Its     *)
(* subscriptions to the store are gone by the time the teardown resets it.     *)
Unmount ==
    /\ mounted
    /\ mounted' = FALSE
    /\ Releases(visit)
    /\ store' = initialState /\ selected' = Stale
    /\ UNCHANGED <<visit, phase, identity, asker, by, history, meeting>>

LeaveMeeting ==
    /\ InRoom
    /\ leave(visit)
    /\ UNCHANGED <<visit, mounted, identity, asker, by, history, meeting>>

(* What becomes of a connection when the meeting v ends and, if there is a      *)
(* broadcast, meeting.ended goes to the sockets in the registry.  One that is    *)
(* being made was not let in yet, and will not be; or it was and is late,        *)
(* registered only afterwards; or the frame follows its room.state.              *)
Fates(j, v, broadcast) ==
    LET told == IF broadcast THEN {"told"} ELSE {} IN
    CASE by[j] = v /\ joined[j] = "greeted" /\ broadcast -> told
      [] by[j] = v /\ joined[j] \in {"open", "down"} /\ v \notin ended
            -> {"no", "late"} \union told
      [] by[j] = v /\ joined[j] \in {"open", "down"} /\ served[j] # "no"
            -> {served[j]} \union told
      [] OTHER -> {served[j]}

Ends(v, broadcast) ==
    /\ v \in MayEnd
    /\ ended' = ended \union {v}
    /\ \E fate \in [Joins -> {"no", "late", "told"}] :
           /\ \A j \in Joins : fate[j] \in Fates(j, v, broadcast)
           /\ served' = fate

(* End Meeting for All. *)
EndForAll ==
    /\ InRoom /\ signalingRef[visit] # 0
    /\ joined[signalingRef[visit]] = "greeted"
    /\ Ends(by[signalingRef[visit]], TRUE)
    /\ UNCHANGED <<tab, identity, media, joins, refs, log, shared>>

Says(v) ==
    /\ FoldFunction(LAMBDA a, b : a + b, 0, log) < MaxMessages
    /\ log' = [log EXCEPT ![v] = @ + 1]

(* submit of the chat drawer; the server appends and broadcasts, whether the   *)
(* meeting has ended or not.                                                    *)
SendMessage ==
    /\ InRoom
    /\ signalingRef[visit] # 0
    /\ joined[signalingRef[visit]] = "greeted"
    /\ Says(visit)
    /\ UNCHANGED <<tab, identity, media, joins, refs, ended, served, shared>>

-----------------------------------------------------------------------------
(* The gate *)

(* Join as guest, once the server has answered. *)
ContinueAsGuest ==
    /\ AsksForName
    /\ identity' = TRUE
    /\ UNCHANGED <<tab, media, joins, refs, meeting, shared>>

Asking(v) == \E s \in Streams : asker[s] = v /\ stream[s] = "asked"
Unmade(s) == stream[s] = "none" /\ \A t \in Streams : t < s => stream[t] # "none"

(* Use microphone and camera, or Try again. *)
RequestMedia(s) ==
    /\ OffersMedia
    /\ ~Asking(visit) /\ Unmade(s)
    /\ stream' = [stream EXCEPT ![s] = "asked"]
    /\ asker' = [asker EXCEPT ![s] = visit]
    /\ UNCHANGED <<tab, identity, joins, refs, meeting, shared>>

Fresh(j) == joined[j] = "none" /\ \A k \in Joins : k < j => joined[k] # "none"

HoldsNothing(v, s) == UNCHANGED localStreamRef
Holds(v, s) == localStreamRef' = [localStreamRef EXCEPT ![v] = s]

(* join, up to its await.  It does not ask whether the page is still there. *)
Join(v, j, s) ==
    /\ Fresh(j)
    /\ setPhase(v, "joining")
    /\ Holds(v, s)
    /\ joined' = [joined EXCEPT ![j] = "asked"]
    /\ by' = [by EXCEPT ![j] = v]
    /\ Keeps(setLocalStream(store, s))

(* Continue without microphone and camera, also while a request for them is  *)
(* under way.                                                                 *)
JoinWithout(j) ==
    /\ OffersMedia
    /\ Join(visit, j, 0)
    /\ UNCHANGED <<visit, mounted, identity, media, history, heard,
                   signalingRef, meeting>>

Granted(s, j) ==
    /\ stream[s] = "asked"
    /\ stream' = [stream EXCEPT ![s] = "live"]
    /\ Join(asker[s], j, s)
    /\ UNCHANGED <<visit, mounted, identity, asker, history, heard,
                   signalingRef, meeting>>

(* The gate shows why, and offers to try again. *)
Denied(s) ==
    /\ stream[s] = "asked"
    /\ stream' = [stream EXCEPT ![s] = "denied"]
    /\ UNCHANGED <<tab, identity, asker, joins, refs, meeting, shared>>

-----------------------------------------------------------------------------
(* What the join leads to *)

KeepsRef(v, j) == UNCHANGED signalingRef
SetsRef(v, j) == signalingRef' = [signalingRef EXCEPT ![v] = j]

(* joinMeeting has answered: the PeerManager, the socket and the history.    *)
JoinAnswered(j) ==
    /\ joined[j] = "asked"
    /\ joined' = [joined EXCEPT ![j] = "open"]
    /\ SetsRef(by[j], j)
    /\ history' = [history EXCEPT ![j] = Unread]
    /\ UNCHANGED <<tab, identity, media, by, heard, localStreamRef, meeting, shared>>

(* The catch: the stream stays where it is. *)
JoinFailed(j) ==
    /\ joined[j] = "asked"
    /\ joined' = [joined EXCEPT ![j] = "closed"]
    /\ setPhase(by[j], "error")
    /\ UNCHANGED <<visit, mounted, identity, media, by, history,
                   heard, refs, meeting, shared>>

(* The server reads the chat for listMessages. *)
ReadHistory(j) ==
    /\ history[j] = Unread
    /\ history' = [history EXCEPT ![j] = log[by[j]]]
    /\ UNCHANGED <<tab, identity, media, joined, by, heard, refs, meeting, shared>>

Chat(v, n) == [i \in 1..n |-> <<v, i>>]

TakesHistory(s, list) == setMessages(s, list)

HistoryAnswered(j) ==
    /\ history[j] \in Nat
    /\ Keeps(TakesHistory(store, Chat(by[j], history[j])))
    /\ history' = [history EXCEPT ![j] = Done]
    /\ UNCHANGED <<tab, identity, media, joined, by, heard, refs, meeting>>

HistoryFailed(j) ==
    /\ history[j] = Unread
    /\ history' = [history EXCEPT ![j] = Done]
    /\ UNCHANGED <<tab, identity, media, joined, by, heard, refs, meeting, shared>>

-----------------------------------------------------------------------------
(* Frames: handleFrame of the visit the join belongs to *)

(* Rows of the meeting other than that of the join.  That of a socket that is  *)
(* down is one as long as the server has not noticed.                           *)
OtherRows(j) ==
    {Them} \union {k \in Joins : /\ k # j /\ by[k] = by[j]
                                /\ joined[k] \in {"open", "greeted", "down"}}

(* The connection is lost, with the frames on it. *)
Drop(j) ==
    /\ joined[j] \in {"open", "greeted", "down"}
    /\ joined' = [joined EXCEPT ![j] = IF @ = "greeted" THEN "down" ELSE @]
    /\ served' = [served EXCEPT ![j] = "no"]
    /\ heard' = [heard EXCEPT ![j] = 0]
    /\ UNCHANGED <<tab, identity, media, by, history, refs, log, ended, shared>>

(* room.state, first on every connection, to one that was let in. *)
RoomState(j) ==
    /\ joined[j] \in {"open", "down"}
    /\ by[j] \notin ended \/ served[j] # "no"
    /\ joined' = [joined EXCEPT ![j] = "greeted"]
    /\ heard' = [heard EXCEPT ![j] = log[by[j]]]
    /\ setPhase(by[j], "live")
    /\ \E gone \in SUBSET {k \in OtherRows(j) \ {Them} : joined[k] = "down"} :
           Replaces(setRoomState(store, j, (OtherRows(j) \ gone) \union {j}))
    /\ UNCHANGED <<visit, mounted, identity, media, by, history, refs, meeting>>

PeerJoined(j) ==
    /\ joined[j] = "greeted"
    /\ \E r \in OtherRows(j) : Replaces(upsertParticipant(store, r))
    /\ UNCHANGED <<tab, identity, media, joins, refs, meeting>>

PeerLeft(j) ==
    /\ joined[j] = "greeted"
    /\ \E r \in Joins \ {j} : /\ joined[r] # "greeted"
                              /\ Replaces(removeParticipant(store, r))
    /\ UNCHANGED <<tab, identity, media, joins, refs, meeting>>

AppendMessage(s, m) == setMessages(s, Append(s.messages, m))
Receive(s, m) == addMessage(s, m)

ChatMessage(j) ==
    /\ joined[j] = "greeted" /\ heard[j] < log[by[j]]
    /\ heard' = [heard EXCEPT ![j] = @ + 1]
    /\ Keeps(Receive(store, <<by[j], heard[j] + 1>>))
    /\ UNCHANGED <<tab, identity, media, joined, by, history, refs, meeting>>

(* host.removed_you *)
Removed(j) ==
    /\ joined[j] = "greeted"
    /\ leave(by[j])
    /\ UNCHANGED <<visit, mounted, identity, asker, by, history, meeting>>

(* meeting.ended *)
Ended(j) ==
    /\ joined[j] = "greeted" /\ served[j] = "told"
    /\ leave(by[j])
    /\ served' = [served EXCEPT ![j] = "no"]
    /\ UNCHANGED <<visit, mounted, identity, asker, by, history, log, ended>>

-----------------------------------------------------------------------------
(* Others in the meeting *)

TheySend(v) ==
    /\ Says(v)
    /\ UNCHANGED <<tab, identity, media, joins, refs, ended, served, shared>>

TheyEnd ==
    /\ mounted
    /\ Ends(visit, TRUE)
    /\ UNCHANGED <<tab, identity, media, joins, refs, log, shared>>

(* The host ends the meeting over REST: no socket is told. *)
EndMeeting ==
    /\ mounted
    /\ Ends(visit, FALSE)
    /\ UNCHANGED <<tab, identity, media, joins, refs, log, shared>>

Next ==
    \/ Arrive \/ Unmount \/ LeaveMeeting \/ EndForAll \/ SendMessage
    \/ ContinueAsGuest
    \/ \E s \in Streams : RequestMedia(s) \/ Denied(s) \/ (\E j \in Joins : Granted(s, j))
    \/ \E j \in Joins : \/ JoinWithout(j) \/ JoinAnswered(j) \/ JoinFailed(j)
                        \/ ReadHistory(j) \/ HistoryAnswered(j) \/ HistoryFailed(j)
                        \/ Drop(j)
                        \/ RoomState(j) \/ PeerJoined(j) \/ PeerLeft(j)
                        \/ ChatMessage(j) \/ Removed(j) \/ Ended(j)
    \/ \E v \in 1..visit : TheySend(v)
    \/ TheyEnd \/ EndMeeting

Spec == Init /\ [][Next]_vars

(* A frame handed to a socket that stays up is delivered, and acted upon.  No  *)
(* socket has to stay up, and none has to come back.                            *)
FairSpec == Spec /\ \A j \in Joins : WF_vars(Ended(j))

-----------------------------------------------------------------------------
(* Properties *)

JoinedOnce(v) == \A j, k \in Joins : by[j] = v /\ by[k] = v => j = k

(* Going away, by the button, a frame or a link, stops every track the page  *)
(* has been granted so far, however often it asked and joined (teardown): no  *)
(* stream has slipped out of localStreamRef.                                   *)
LeavingStopsMedia ==
    [][(mounted /\ ~mounted') \/ (phase = "live" /\ phase' = "left")
          => \A s \in Streams : asker[s] = visit => stream'[s] # "live"]_vars

(* A page that is live after one join holds that join's socket, which has      *)
(* greeted it and which, if it is down, is still being retried: neither what    *)
(* earlier visits left under way nor a frame out of turn takes the connection   *)
(* from under it, or shows it live without one (join, teardown).                *)
LiveIsConnected ==
    InRoom /\ JoinedOnce(visit) =>
        /\ signalingRef[visit] # 0
        /\ joined[signalingRef[visit]] \in {"greeted", "down"}

(* The drawer never shows a message twice, nor, to a visit that joined once, a *)
(* message before an earlier one, in whatever order the history and the live    *)
(* messages come and whichever meetings they are of (addMessage, setMessages).   *)
DrawerInOrder ==
    \A a, b \in DOMAIN store.messages :
        a < b => LET m == store.messages[a]
                     n == store.messages[b]
                 IN  m # n /\ (m[1] = n[1] /\ JoinedOnce(m[1]) => m[2] < n[2])

(* The list on screen is the one the store holds now: the identity of the Map *)
(* is a sound key for the cache of selectOrderedParticipants.                   *)
OrderFresh == mounted => selected = Selection(store)

(* A live page whose socket has been handed meeting.ended leaves the room, or   *)
(* loses that socket before the frame has come: whatever else is under way when  *)
(* it comes, a second join included, does not keep it there.  Pages that are not  *)
(* told, because their socket was down or late when the meeting ended or because  *)
(* it was ended over REST, stay.                                                   *)
EndedIsLeft ==
    \A j \in Joins :
        LET Here == OnScreen(by[j]) /\ phase = "live"
        IN  Here /\ joined[j] = "greeted" /\ served[j] = "told"
                ~> ~Here \/ joined[j] = "down"
=============================================================================
