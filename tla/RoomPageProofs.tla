--------------------------- MODULE RoomPageProofs ---------------------------
(***************************************************************************)
(* Proofs about RoomPage, for any number of visits, joins, streams and     *)
(* messages: its types, that the list on screen is the store's, that going *)
(* away stops what was granted, that a live page is connected, and that    *)
(* the chat drawer is in order.                                            *)
(***************************************************************************)
EXTENDS RoomPage, TLAPS

-----------------------------------------------------------------------------
(* The inductive invariant *)

(* What has begun belongs to a visit, and no visit is of the future.          *)
Belongs ==
    /\ mounted => visit \in Meetings
    /\ \A s \in Streams : asker[s] <= visit
                          /\ (stream[s] = "asked" => asker[s] \in Meetings)
    /\ \A j \in Joins : joined[j] # "none" \/ history[j] # Done => by[j] \in Meetings

(* The stream of the visit on screen is the one its refs hold, and it has none *)
(* as long as it shows the gate.                                                *)
StreamHeld ==
    /\ \A s, t \in Streams :
        /\ asker[s] = asker[t]
        /\ stream[s] \in {"asked", "live"} /\ stream[t] \in {"asked", "live"}
        => s = t
    /\ mounted => \A s \in Streams :
        asker[s] = visit /\ stream[s] = "live" =>
            localStreamRef[visit] = s /\ phase # "prejoin"

(* The refs of a visit hold one of its sockets, and the only one it opened.     *)
SocketHeld ==
    /\ \A v \in Meetings :
        signalingRef[v] # 0 =>
            /\ by[signalingRef[v]] = v
            /\ joined[signalingRef[v]] \in {"open", "greeted", "down", "closed"}
    /\ \A j \in Joins :
        joined[j] \in {"open", "greeted", "down"} /\ JoinedOnce(by[j]) => signalingRef[by[j]] = j
    /\ \A j \in Joins : joined[j] = "none" => by[j] \notin Meetings

(* The cached list is the store's if the own id it was made with is: one made    *)
(* of another Map has been forgotten.                                            *)
CacheSound == selected.self = store.self => selected = Selection(store)

Types == TypeOK /\ Belongs
Inv == Types /\ OrderFresh /\ CacheSound /\ StreamHeld /\ SocketHeld /\ LiveIsConnected

-----------------------------------------------------------------------------
(* The store *)

Stores == [self : 0..MaxJoins, participants : SUBSET Rows,
           messages : Seq(Messages), localStream : 0..MaxStreams]

Selections == [self : -1..MaxJoins, list : (SUBSET Rows) \X (SUBSET Rows)]

(* Every operation of the store yields a store. *)
LEMMA StoreOperations ==
    ASSUME NEW s \in Stores
    PROVE  /\ initialState \in Stores
           /\ \A self \in Joins, rows \in SUBSET Rows : setRoomState(s, self, rows) \in Stores
           /\ \A id \in Rows : /\ upsertParticipant(s, id) \in Stores
                               /\ removeParticipant(s, id) \in Stores
           /\ \A stream1 \in 0..MaxStreams : setLocalStream(s, stream1) \in Stores
           /\ \A m \in Messages : addMessage(s, m) \in Stores
           /\ \A list \in Seq(Messages) : setMessages(s, list) \in Stores
<1>1. initialState \in Stores
  BY RoomPageAssumption DEF initialState, Stores, NoOne
<1>2. ASSUME NEW self \in Joins, NEW rows \in SUBSET Rows
      PROVE  setRoomState(s, self, rows) \in Stores
  <2>1. self \in 0..MaxJoins
    BY RoomPageAssumption DEF Joins
  <2> QED BY <2>1 DEF setRoomState, Stores
<1>3. ASSUME NEW id \in Rows
      PROVE  upsertParticipant(s, id) \in Stores /\ removeParticipant(s, id) \in Stores
  BY DEF upsertParticipant, removeParticipant, Stores
<1>4. ASSUME NEW n \in 0..MaxStreams PROVE setLocalStream(s, n) \in Stores
  BY DEF setLocalStream, Stores
<1>5. ASSUME NEW m \in Messages PROVE addMessage(s, m) \in Stores
  <2>1. Append(s.messages, m) \in Seq(Messages)
    BY DEF Stores
  <2>2. [s EXCEPT !.messages = Append(s.messages, m)] \in Stores
    BY <2>1 DEF Stores
  <2>3. addMessage(s, m) \in {s, [s EXCEPT !.messages = Append(s.messages, m)]}
    BY DEF addMessage
  <2> QED BY <2>2, <2>3
<1>6. ASSUME NEW list \in Seq(Messages) PROVE setMessages(s, list) \in Stores
  BY DEF setMessages, Stores
<1> QED BY <1>1, <1>2, <1>3, <1>4, <1>5, <1>6

(* The operations that are not about participants leave the list as it is.    *)
LEMMA SameSelection ==
    ASSUME NEW s \in Stores
    PROVE  /\ \A n \in 0..MaxStreams : Selection(setLocalStream(s, n)) = Selection(s)
           /\ \A m \in Messages : Selection(addMessage(s, m)) = Selection(s)
           /\ \A list \in Seq(Messages) : Selection(setMessages(s, list)) = Selection(s)
BY DEF Selection, ordered, setLocalStream, addMessage, setMessages, Stores

LEMMA SelectionType ==
    ASSUME NEW s \in Stores
    PROVE  Selection(s) \in Selections /\ Stale \in Selections
BY RoomPageAssumption DEF Selection, ordered, Stores, Selections, Stale, Rows, Joins

(* Nothing was cached under the id -1. *)
LEMMA StaleIs == ASSUME NEW s \in Stores PROVE s.self # Stale.self
BY RoomPageAssumption DEF Stale, Stores

(* Replacing the participants leaves the list fresh. *)
LEMMA ReplacesFresh ==
    ASSUME NEW s \in Stores, Replaces(s), mounted' => mounted
    PROVE  store' \in Stores /\ selected' \in Selections /\ OrderFresh' /\ CacheSound'
BY SelectionType, StaleIs DEF Replaces, OrderFresh, CacheSound, Selection

(* So does an operation that does not touch them. *)
LEMMA KeepsFresh ==
    ASSUME NEW s \in Stores, Keeps(s), OrderFresh, CacheSound, selected \in Selections,
           Selection(s) = Selection(store), mounted' = mounted
    PROVE  store' \in Stores /\ selected' \in Selections /\ OrderFresh' /\ CacheSound'
BY SelectionType DEF Keeps, Cached, OrderFresh, CacheSound, Selection

(* A history is a sequence of messages. *)
LEMMA ChatIs ==
    ASSUME NEW v \in Meetings, NEW n \in Nat
    PROVE  Chat(v, n) \in Seq(Messages)
<1>1. \A i \in 1..n : <<v, i>> \in Messages
  BY DEF Messages
<1> QED BY <1>1 DEF Chat

(* Every step keeps the list on screen fresh, and the store a store.          *)
LEMMA StoreStep ==
    ASSUME Types, OrderFresh, CacheSound, [Next]_vars
    PROVE  store' \in Stores /\ selected' \in Selections /\ OrderFresh' /\ CacheSound'
<1> DEFINE Goal == store' \in Stores /\ selected' \in Selections /\ OrderFresh' /\ CacheSound'
<1> USE DEF Types
<1>0. /\ store \in Stores /\ selected \in Selections
      /\ store.self \in 0..MaxJoins
  BY DEF TypeOK, Stores, Selections
<1>1. ASSUME UNCHANGED shared, mounted' = mounted PROVE Goal
  BY <1>0, <1>1 DEF shared, OrderFresh, CacheSound, Selection, ordered
<1>2. CASE UNCHANGED vars
  BY <1>1, <1>2 DEF vars, tab
<1>3. CASE Arrive
  BY <1>0, <1>3, SelectionType DEF Arrive, Cached, OrderFresh, CacheSound, Selection, ordered
<1>4. ASSUME NEW v \in 0..Visits, teardown(v), mounted' => mounted PROVE Goal
  BY <1>0, <1>4, StoreOperations, ReplacesFresh DEF teardown, Reset
<1>5. CASE Unmount
  BY <1>0, <1>5, StoreOperations, SelectionType, StaleIs DEF Unmount, OrderFresh, CacheSound
<1>6. CASE LeaveMeeting
  BY <1>4, <1>6 DEF LeaveMeeting, leave, TypeOK
<1>7. CASE EndForAll \/ SendMessage \/ ContinueAsGuest \/ TheyEnd \/ EndMeeting
  BY <1>1, <1>7 DEF EndForAll, SendMessage, ContinueAsGuest, TheyEnd, EndMeeting, tab
<1>8. ASSUME NEW s \in Streams, RequestMedia(s) \/ Denied(s) PROVE Goal
  BY <1>1, <1>8 DEF RequestMedia, Denied, tab
<1>9. ASSUME NEW v \in 0..Visits, NEW j \in Joins, NEW s \in 0..MaxStreams,
             Join(v, j, s), mounted' = mounted
      PROVE  Goal
  BY <1>0, <1>9, StoreOperations, SameSelection, KeepsFresh DEF Join
<1>10. ASSUME NEW s \in Streams, NEW j \in Joins, Granted(s, j) PROVE Goal
  BY <1>9, <1>10, RoomPageAssumption DEF Granted, Streams, TypeOK
<1>11. ASSUME NEW j \in Joins, JoinWithout(j) PROVE Goal
  <2>1. 0 \in 0..MaxStreams
    BY RoomPageAssumption
  <2> QED BY <1>9, <1>11, <2>1 DEF JoinWithout, TypeOK
<1>12. ASSUME NEW j \in Joins,
              JoinAnswered(j) \/ JoinFailed(j) \/ ReadHistory(j) \/ HistoryFailed(j)
       PROVE  Goal
  BY <1>1, <1>12 DEF JoinAnswered, JoinFailed, ReadHistory, HistoryFailed, tab
<1>13. ASSUME NEW j \in Joins, HistoryAnswered(j) PROVE Goal
  <2>1. by[j] \in Meetings /\ history[j] \in Nat
    BY <1>13 DEF HistoryAnswered, Belongs, Done
  <2>2. Chat(by[j], history[j]) \in Seq(Messages)
    BY <2>1, ChatIs
  <2>3. Keeps(setMessages(store, Chat(by[j], history[j]))) /\ mounted' = mounted
    BY <1>13 DEF HistoryAnswered, TakesHistory, tab
  <2> QED BY <1>0, <2>2, <2>3, StoreOperations, SameSelection, KeepsFresh
<1>14. ASSUME NEW j \in Joins, RoomState(j) PROVE Goal
  <2>2. PICK gone : /\ Replaces(setRoomState(store, j, (OtherRows(j) \ gone) \union {j}))
                    /\ mounted' = mounted
    BY <1>14 DEF RoomState
  <2>1. (OtherRows(j) \ gone) \union {j} \in SUBSET Rows
    BY DEF OtherRows, Rows
  <2> QED BY <1>0, <2>1, <2>2, StoreOperations, ReplacesFresh
<1>15. ASSUME NEW j \in Joins, PeerJoined(j) PROVE Goal
  <2>1. PICK r \in Rows : Replaces(upsertParticipant(store, r))
    BY <1>15 DEF PeerJoined, OtherRows, Rows
  <2> QED BY <1>0, <1>15, <2>1, StoreOperations, ReplacesFresh DEF PeerJoined, tab
<1>16. ASSUME NEW j \in Joins, PeerLeft(j) PROVE Goal
  <2>1. PICK r \in Rows : Replaces(removeParticipant(store, r))
    BY <1>16 DEF PeerLeft, Rows
  <2> QED BY <1>0, <1>16, <2>1, StoreOperations, ReplacesFresh DEF PeerLeft, tab
<1>17. ASSUME NEW j \in Joins, ChatMessage(j) PROVE Goal
  <2>1. by[j] \in Meetings /\ heard[j] \in Nat
    BY <1>17 DEF ChatMessage, Belongs, TypeOK
  <2>2. <<by[j], heard[j] + 1>> \in Messages
    BY <2>1 DEF Messages
  <2>3. Keeps(addMessage(store, <<by[j], heard[j] + 1>>)) /\ mounted' = mounted
    BY <1>17 DEF ChatMessage, Receive, tab
  <2> QED BY <1>0, <2>2, <2>3, StoreOperations, SameSelection, KeepsFresh
<1>18. ASSUME NEW j \in Joins, Removed(j) \/ Ended(j) PROVE Goal
  BY <1>4, <1>18 DEF Removed, Ended, leave, TypeOK
<1>19. ASSUME NEW v \in 1..visit, TheySend(v) PROVE Goal
  BY <1>1, <1>19 DEF TheySend, tab
<1>20. ASSUME NEW j \in Joins, Drop(j) PROVE Goal
  BY <1>1, <1>20 DEF Drop, tab
<1> QED BY <1>2, <1>3, <1>5, <1>6, <1>7, <1>8, <1>10, <1>11, <1>12, <1>13, <1>14, <1>15,
           <1>16, <1>17, <1>18, <1>19, <1>20 DEF Next

-----------------------------------------------------------------------------
(* Types *)

(* The state but for the store. *)
PageType ==
    /\ visit \in 0..Visits /\ mounted \in BOOLEAN
    /\ phase \in {"prejoin", "joining", "live", "left", "error"}
    /\ identity \in BOOLEAN
StreamType ==
    /\ stream \in [Streams -> {"none", "asked", "live", "stopped", "denied"}]
    /\ asker \in [Streams -> 0..Visits]
JoinType ==
    /\ joined \in [Joins -> {"none", "asked", "open", "greeted", "down", "closed"}]
    /\ by \in [Joins -> 0..Visits]
    /\ history \in [Joins -> {Unread, Done} \union Nat]
    /\ heard \in [Joins -> Nat]
RefType ==
    /\ signalingRef \in [Meetings -> 0..MaxJoins]
    /\ localStreamRef \in [Meetings -> 0..MaxStreams]
MeetingType ==
    /\ log \in [Meetings -> Nat] /\ ended \subseteq Meetings
    /\ served \in [Joins -> {"no", "late", "told"}]

RestType == PageType /\ StreamType /\ JoinType /\ RefType /\ MeetingType

LEMMA TypeParts ==
    TypeOK <=> RestType /\ store \in Stores /\ selected \in Selections
BY DEF TypeOK, RestType, PageType, StreamType, JoinType, RefType, MeetingType, Stores,
       Selections

(* Going away leaves what is there of the types given it. *)
LEMMA TeardownTypes ==
    ASSUME StreamType, JoinType, RefType, NEW v \in 0..Visits, Releases(v)
    PROVE  /\ stream' \in [Streams -> {"none", "asked", "live", "stopped", "denied"}]
           /\ joined' \in [Joins -> {"none", "asked", "open", "greeted", "down", "closed"}]
           /\ heard' \in [Joins -> Nat]
           /\ \A s \in Streams : stream'[s] = "asked" => stream[s] = "asked"
           /\ RefType'
<1>1. stream' \in [Streams -> {"none", "asked", "live", "stopped", "denied"}]
  BY DEF Releases, stopStream, StreamType
<1>2. /\ joined' \in [Joins -> {"none", "asked", "open", "greeted", "down", "closed"}]
      /\ heard' \in [Joins -> Nat]
  BY DEF Releases, JoinType
<1>3. \A s \in Streams : stream'[s] = "asked" => stream[s] = "asked"
  BY DEF Releases, stopStream
<1>4. RefType'
  <2>1. 0 \in 0..MaxJoins /\ 0 \in 0..MaxStreams
    BY RoomPageAssumption
  <2> QED BY <2>1 DEF Releases, RefType
<1> QED BY <1>1, <1>2, <1>3, <1>4

(* Every step keeps the types, and what it begins belongs to a visit. *)
LEMMA RestStep ==
    ASSUME Types, SocketHeld, [Next]_vars
    PROVE  RestType' /\ Belongs'
<1> DEFINE Goal == RestType' /\ Belongs'
<1> USE DEF Types
<1>0. RestType
  BY TypeParts
<1>a. /\ PageType /\ StreamType /\ JoinType /\ RefType /\ MeetingType
      /\ Visits \in Nat /\ visit \in Nat /\ Meetings = 1..Visits
  BY <1>0, RoomPageAssumption DEF RestType, PageType, Meetings
<1>1. CASE UNCHANGED vars
  BY <1>1, <1>a DEF vars, tab, media, joins, refs, meeting, RestType, PageType, StreamType,
     JoinType, RefType, MeetingType, Belongs
<1>2. CASE Arrive
  <2>1. PageType'
    BY <1>2, <1>a DEF Arrive, PageType
  <2>2. StreamType' /\ JoinType' /\ RefType' /\ MeetingType'
    BY <1>2, <1>a DEF Arrive, media, joins, refs, meeting, StreamType, JoinType, RefType,
       MeetingType
  <2>3. Belongs'
    BY <1>2, <1>a DEF Arrive, media, joins, PageType, StreamType, Belongs
  <2> QED BY <2>1, <2>2, <2>3 DEF RestType
<1>3. ASSUME NEW v \in Meetings, Releases(v), mounted' \in BOOLEAN,
             mounted' => mounted,
             phase' \in {"prejoin", "joining", "live", "left", "error"},
             UNCHANGED <<visit, identity, asker, by, history>>, MeetingType'
      PROVE  Goal
  <2>1. /\ stream' \in [Streams -> {"none", "asked", "live", "stopped", "denied"}]
        /\ joined' \in [Joins -> {"none", "asked", "open", "greeted", "down", "closed"}]
        /\ heard' \in [Joins -> Nat]
        /\ \A s \in Streams : stream'[s] = "asked" => stream[s] = "asked"
        /\ RefType'
    BY <1>3, <1>a, TeardownTypes
  <2>2. PageType' /\ StreamType' /\ JoinType' /\ MeetingType'
    BY <1>3, <1>a, <2>1 DEF PageType, StreamType, JoinType
  <2>3. \A j \in Joins : joined'[j] # "none" \/ history[j] # Done => by[j] \in Meetings
    <3>1. ASSUME NEW j \in Joins, j = signalingRef[v] PROVE by[j] \in Meetings
      BY <3>1, RoomPageAssumption DEF SocketHeld, Joins
    <3>2. \A j \in Joins : joined'[j] = IF j = signalingRef[v] THEN "closed" ELSE joined[j]
      BY <1>3 DEF Releases
    <3> QED BY <3>1, <3>2 DEF Belongs
  <2>4. Belongs'
    BY <1>3, <2>1, <2>3 DEF Belongs
  <2> QED BY <2>1, <2>2, <2>4 DEF RestType
<1>b. UNCHANGED meeting => MeetingType'
  BY <1>a DEF meeting, MeetingType
<1>4. CASE Unmount
  <2>1. visit \in Meetings
    BY <1>4 DEF Unmount, Belongs
  <2> QED BY <1>3, <1>4, <1>a, <1>b, <2>1 DEF Unmount, PageType
<1>5. CASE LeaveMeeting
  <2>1. visit \in Meetings
    BY <1>5 DEF LeaveMeeting, InRoom, Showing, Belongs
  <2> QED BY <1>3, <1>5, <1>a, <1>b, <2>1
          DEF LeaveMeeting, leave, teardown, setPhase, PageType
<1>c. ASSUME NEW v \in Meetings, NEW b \in BOOLEAN, Ends(v, b), UNCHANGED log
      PROVE  MeetingType'
  BY <1>a, <1>c DEF Ends, MeetingType
<1>6. CASE EndForAll \/ SendMessage \/ ContinueAsGuest \/ TheyEnd \/ EndMeeting
  <2>0. identity' \in BOOLEAN /\ UNCHANGED <<tab, media, joins, refs>>
    <3>1. CASE EndForAll
      BY <3>1, <1>a DEF EndForAll, PageType
    <3>2. CASE SendMessage
      BY <3>2, <1>a DEF SendMessage, PageType
    <3>3. CASE ContinueAsGuest
      BY <3>3 DEF ContinueAsGuest
    <3>4. CASE TheyEnd
      BY <3>4, <1>a DEF TheyEnd, PageType
    <3>5. CASE EndMeeting
      BY <3>5, <1>a DEF EndMeeting, PageType
    <3> QED BY <1>6, <3>1, <3>2, <3>3, <3>4, <3>5
  <2>1. PageType' /\ StreamType' /\ JoinType' /\ RefType' /\ Belongs'
    BY <2>0, <1>a DEF tab, media, joins, refs, PageType, StreamType, JoinType, RefType,
       Belongs
  <2>2. MeetingType'
    <3>1. CASE EndForAll
      <4>1. /\ joined[signalingRef[visit]] = "greeted"
            /\ signalingRef[visit] \in Joins
        BY <3>1, <1>a, RoomPageAssumption
           DEF EndForAll, InRoom, Showing, Belongs, RefType, Joins
      <4>2. by[signalingRef[visit]] \in Meetings
        BY <4>1 DEF Belongs
      <4> QED BY <3>1, <4>2, <1>c DEF EndForAll
    <3>2. CASE SendMessage
      <4>1. visit \in Meetings /\ log' = [log EXCEPT ![visit] = log[visit] + 1]
        BY <3>2 DEF SendMessage, Says, InRoom, Showing, Belongs
      <4> QED BY <3>2, <4>1, <1>a DEF SendMessage, MeetingType
    <3>3. CASE ContinueAsGuest
      BY <3>3, <1>a DEF ContinueAsGuest, meeting, MeetingType
    <3>4. CASE TheyEnd
      BY <3>4, <1>c DEF TheyEnd, Belongs
    <3>5. CASE EndMeeting
      BY <3>5, <1>c DEF EndMeeting, Belongs
    <3> QED BY <1>6, <3>1, <3>2, <3>3, <3>4, <3>5
  <2> QED BY <2>1, <2>2 DEF RestType
<1>7. ASSUME NEW s \in Streams, RequestMedia(s) PROVE Goal
  <2>1. visit \in Meetings
    BY <1>7 DEF RequestMedia, OffersMedia, Showing, Belongs
  <2>2. PageType' /\ JoinType' /\ RefType' /\ MeetingType'
    BY <1>7, <1>a DEF RequestMedia, tab, joins, refs, meeting, PageType, JoinType, RefType,
       MeetingType
  <2>3. StreamType'
    BY <1>7, <1>a DEF RequestMedia, StreamType, PageType
  <2>4. Belongs'
    BY <1>7, <1>a, <2>1 DEF RequestMedia, tab, joins, StreamType, Belongs
  <2> QED BY <2>2, <2>3, <2>4 DEF RestType
<1>8. ASSUME NEW s \in Streams, Denied(s) PROVE Goal
  <2>1. StreamType'
    BY <1>8, <1>a DEF Denied, StreamType
  <2>2. PageType' /\ JoinType' /\ RefType' /\ MeetingType'
    BY <1>8, <1>a DEF Denied, tab, joins, refs, meeting, PageType, JoinType, RefType,
       MeetingType
  <2>3. Belongs'
    BY <1>8, <1>a DEF Denied, tab, joins, StreamType, Belongs
  <2> QED BY <2>1, <2>2, <2>3 DEF RestType
<1>9. ASSUME NEW v \in Meetings, NEW j \in Joins, NEW s \in 0..MaxStreams, Join(v, j, s),
             StreamType', \A t \in Streams : stream'[t] = "asked" => stream[t] = "asked",
             UNCHANGED <<visit, mounted, identity, asker, history, heard,
                         signalingRef, meeting>>
      PROVE  Goal
  <2>1. /\ joined' = [joined EXCEPT ![j] = "asked"] /\ by' = [by EXCEPT ![j] = v]
        /\ localStreamRef' = [localStreamRef EXCEPT ![v] = s]
        /\ phase' \in {phase, "joining"}
    BY <1>9 DEF Join, Holds, setPhase
  <2>a. PageType' /\ RefType' /\ MeetingType'
    BY <1>9, <1>a, <2>1 DEF meeting, PageType, RefType, MeetingType
  <2>b. v \in 0..Visits
    BY <1>a
  <2>2. PageType' /\ JoinType' /\ RefType' /\ MeetingType'
    BY <1>9, <1>a, <2>1, <2>a, <2>b DEF JoinType
  <2>3. Belongs'
    BY <1>9, <1>a, <2>1 DEF JoinType, Belongs
  <2> QED BY <1>9, <2>2, <2>3 DEF RestType
<1>10. ASSUME NEW s \in Streams, NEW j \in Joins, Granted(s, j) PROVE Goal
  <2>1. asker[s] \in Meetings /\ s \in 0..MaxStreams
    BY <1>10, RoomPageAssumption DEF Granted, Belongs, Streams
  <2>2. StreamType' /\ \A t \in Streams : stream'[t] = "asked" => stream[t] = "asked"
    BY <1>10, <1>a DEF Granted, StreamType
  <2> QED BY <1>9, <1>10, <2>1, <2>2 DEF Granted
<1>11. ASSUME NEW j \in Joins, JoinWithout(j) PROVE Goal
  <2>1. visit \in Meetings /\ 0 \in 0..MaxStreams
    BY <1>11, RoomPageAssumption DEF JoinWithout, OffersMedia, Showing, Belongs
  <2>2. StreamType' /\ \A t \in Streams : stream'[t] = "asked" => stream[t] = "asked"
    BY <1>11, <1>a DEF JoinWithout, media, StreamType
  <2>3. /\ Join(visit, j, 0)
        /\ UNCHANGED <<visit, mounted, identity, asker, history, heard,
                       signalingRef, meeting>>
    BY <1>11 DEF JoinWithout, media
  <2> QED BY <1>9, <2>1, <2>2, <2>3
<1>12. ASSUME NEW j \in Joins, JoinAnswered(j) PROVE Goal
  <2>1. by[j] \in Meetings /\ j \in 0..MaxJoins
    BY <1>12, RoomPageAssumption DEF JoinAnswered, Belongs, Joins
  <2>2. PageType' /\ StreamType' /\ MeetingType'
    BY <1>12, <1>a DEF JoinAnswered, tab, media, meeting, PageType, StreamType, MeetingType
  <2>3. JoinType' /\ RefType'
    BY <1>12, <1>a, <2>1 DEF JoinAnswered, SetsRef, JoinType, RefType
  <2>4. Belongs'
    BY <1>12, <1>a, <2>1 DEF JoinAnswered, tab, media, JoinType, Belongs
  <2> QED BY <2>2, <2>3, <2>4 DEF RestType
<1>13. ASSUME NEW j \in Joins, JoinFailed(j) PROVE Goal
  <2>1. PageType' /\ StreamType' /\ RefType' /\ MeetingType'
    BY <1>13, <1>a DEF JoinFailed, setPhase, media, refs, meeting, PageType, StreamType,
       RefType, MeetingType
  <2>2. JoinType'
    BY <1>13, <1>a DEF JoinFailed, JoinType
  <2>3. Belongs'
    BY <1>13, <1>a DEF JoinFailed, media, JoinType, Belongs
  <2> QED BY <2>1, <2>2, <2>3 DEF RestType
<1>14. ASSUME NEW j \in Joins, ReadHistory(j) \/ HistoryFailed(j) \/ HistoryAnswered(j)
       PROVE  Goal
  <2>1. /\ by[j] \in Meetings /\ history[j] # Done
        /\ \E h \in {Unread, Done} \union Nat : history' = [history EXCEPT ![j] = h]
        /\ UNCHANGED <<tab, identity, media, joined, by, heard, refs, meeting>>
    <3>1. CASE ReadHistory(j)
      <4>1. history[j] = Unread /\ Unread # Done
        BY <3>1 DEF ReadHistory, Unread, Done
      <4>2. by[j] \in Meetings
        BY <4>1 DEF Belongs
      <4>3. log[by[j]] \in Nat
        BY <4>2, <1>a DEF MeetingType
      <4> QED BY <3>1, <4>1, <4>2, <4>3 DEF ReadHistory
    <3>2. CASE HistoryFailed(j)
      <4>1. history[j] # Done /\ history' = [history EXCEPT ![j] = Done]
        BY <3>2 DEF HistoryFailed, Unread, Done
      <4> QED BY <3>2, <4>1 DEF HistoryFailed, Belongs
    <3>3. CASE HistoryAnswered(j)
      <4>1. history[j] # Done /\ history' = [history EXCEPT ![j] = Done]
        BY <3>3 DEF HistoryAnswered, Done
      <4> QED BY <3>3, <4>1 DEF HistoryAnswered, Belongs
    <3> QED BY <1>14, <3>1, <3>2, <3>3
  <2>2. PageType' /\ StreamType' /\ RefType' /\ MeetingType'
    BY <2>1, <1>a DEF tab, media, refs, meeting, PageType, StreamType, RefType, MeetingType
  <2>3. JoinType' /\ Belongs'
    BY <2>1, <1>a DEF tab, media, JoinType, Belongs
  <2> QED BY <2>2, <2>3 DEF RestType
<1>15. ASSUME NEW j \in Joins, RoomState(j) PROVE Goal
  <2>1. by[j] \in Meetings
    BY <1>15 DEF RoomState, Belongs
  <2>2. PageType' /\ StreamType' /\ RefType' /\ MeetingType'
    BY <1>15, <1>a DEF RoomState, setPhase, media, refs, meeting, PageType, StreamType,
       RefType, MeetingType
  <2>3. JoinType'
    BY <1>15, <1>a, <2>1 DEF RoomState, JoinType, MeetingType
  <2>4. Belongs'
    BY <1>15, <1>a, <2>1 DEF RoomState, media, JoinType, Belongs
  <2> QED BY <2>2, <2>3, <2>4 DEF RestType
<1>16. ASSUME NEW j \in Joins, PeerJoined(j) \/ PeerLeft(j) PROVE Goal
  <2>1. UNCHANGED <<tab, identity, media, joins, refs, meeting>>
    BY <1>16 DEF PeerJoined, PeerLeft
  <2> QED BY <2>1, <1>a DEF tab, media, joins, refs, meeting, RestType, PageType,
             StreamType, JoinType, RefType, MeetingType, Belongs
<1>17. ASSUME NEW j \in Joins, ChatMessage(j) PROVE Goal
  <2>1. PageType' /\ StreamType' /\ RefType' /\ MeetingType' /\ Belongs'
    BY <1>17, <1>a DEF ChatMessage, tab, media, refs, meeting, PageType, StreamType,
       RefType, MeetingType, Belongs
  <2>2. JoinType'
    BY <1>17, <1>a DEF ChatMessage, JoinType
  <2> QED BY <2>1, <2>2 DEF RestType
<1>18. ASSUME NEW j \in Joins, Removed(j) \/ Ended(j) PROVE Goal
  <2>1. by[j] \in Meetings
    BY <1>18 DEF Removed, Ended, Belongs
  <2>2. MeetingType'
    <3>1. CASE Removed(j)
      BY <3>1, <1>b DEF Removed
    <3>2. CASE Ended(j)
      BY <3>2, <1>a DEF Ended, MeetingType
    <3> QED BY <1>18, <3>1, <3>2
  <2> QED BY <1>3, <1>18, <1>a, <2>1, <2>2
          DEF Removed, Ended, leave, teardown, setPhase, PageType
<1>19. ASSUME NEW v \in 1..visit, TheySend(v) PROVE Goal
  <2>1. v \in Meetings
    BY <1>a DEF PageType
  <2>a. log' = [log EXCEPT ![v] = log[v] + 1] /\ UNCHANGED <<ended, served>>
    BY <1>19 DEF TheySend, Says
  <2>2. MeetingType'
    BY <1>a, <2>1, <2>a DEF MeetingType
  <2>3. PageType' /\ StreamType' /\ JoinType' /\ RefType' /\ Belongs'
    BY <1>19, <1>a DEF TheySend, tab, media, joins, refs, PageType, StreamType, JoinType,
       RefType, Belongs
  <2> QED BY <2>2, <2>3 DEF RestType
<1>20. ASSUME NEW j \in Joins, Drop(j) PROVE Goal
  <2>1. PageType' /\ StreamType' /\ RefType'
    BY <1>20, <1>a DEF Drop, tab, media, refs, PageType, StreamType, RefType
  <2>2. JoinType' /\ MeetingType'
    BY <1>20, <1>a DEF Drop, JoinType, MeetingType
  <2>3. Belongs'
    BY <1>20, <1>a DEF Drop, tab, media, JoinType, Belongs
  <2> QED BY <2>1, <2>2, <2>3 DEF RestType
<1> QED BY <1>1, <1>2, <1>4, <1>5, <1>6, <1>7, <1>8, <1>10, <1>11, <1>12, <1>13, <1>14,
           <1>15, <1>16, <1>17, <1>18, <1>19, <1>20 DEF Next

-----------------------------------------------------------------------------
(* Streams *)

(* Every step keeps hold of the stream of the visit on screen. *)
LEMMA StreamStep ==
    ASSUME Types, StreamHeld, [Next]_vars
    PROVE  StreamHeld'
<1> USE DEF Types
<1>0. /\ StreamType /\ RefType /\ PageType
      /\ Visits \in Nat /\ visit \in Nat /\ Meetings = 1..Visits
  BY TypeParts, RoomPageAssumption DEF RestType, PageType, Meetings
<1>1. ASSUME UNCHANGED <<visit, mounted, media, localStreamRef>>,
             phase' = "prejoin" => phase = "prejoin"
      PROVE  StreamHeld'
  BY <1>1 DEF media, StreamHeld
<1>2. CASE UNCHANGED vars
  BY <1>1, <1>2 DEF vars, tab, refs
<1>3. CASE Arrive
  <2>1. \A s \in Streams : asker[s] # visit + 1
    BY <1>0 DEF Belongs, StreamType
  <2> QED BY <1>3, <2>1 DEF Arrive, media, StreamHeld
<1>4. ASSUME NEW v \in Meetings, Releases(v), UNCHANGED <<visit, asker>>,
             mounted' => mounted, phase' = "prejoin" => phase = "prejoin"
      PROVE  StreamHeld'
  <2>1. /\ \A s \in Streams : stream'[s] = IF s = localStreamRef[v] THEN "stopped" ELSE stream[s]
        /\ localStreamRef' = [localStreamRef EXCEPT ![v] = 0]
    BY <1>4 DEF Releases, stopStream
  <2>2. \A s \in Streams : stream'[s] \in {"asked", "live"} =>
            stream'[s] = stream[s] /\ s # localStreamRef[v]
    BY <2>1
  <2>3. \A w \in Meetings : w # v => localStreamRef'[w] = localStreamRef[w]
    BY <1>0, <2>1 DEF RefType
  <2>4. ASSUME NEW s \in Streams, mounted', asker'[s] = visit', stream'[s] = "live"
        PROVE  localStreamRef'[visit'] = s /\ phase' # "prejoin"
    <3>1. /\ visit \in Meetings /\ localStreamRef[visit] = s /\ phase # "prejoin"
          /\ s # localStreamRef[v]
      BY <1>4, <2>2, <2>4 DEF StreamHeld, Belongs
    <3> QED BY <1>4, <2>3, <3>1
  <2>5. ASSUME NEW s \in Streams, NEW t \in Streams, asker'[s] = asker'[t],
               stream'[s] \in {"asked", "live"}, stream'[t] \in {"asked", "live"}
        PROVE  s = t
    BY <1>4, <2>2, <2>5 DEF StreamHeld
  <2> QED BY <2>4, <2>5 DEF StreamHeld
<1>5. CASE Unmount
  BY <1>4, <1>5 DEF Unmount, Belongs
<1>6. CASE LeaveMeeting
  BY <1>4, <1>6 DEF LeaveMeeting, leave, teardown, setPhase, InRoom, Showing, Belongs
<1>7. CASE EndForAll \/ SendMessage \/ ContinueAsGuest \/ TheyEnd \/ EndMeeting
  <2>1. UNCHANGED <<tab, media, refs>>
    BY <1>7 DEF EndForAll, SendMessage, ContinueAsGuest, TheyEnd, EndMeeting
  <2> QED BY <1>1, <2>1 DEF tab, refs
<1>8. ASSUME NEW s \in Streams, RequestMedia(s) PROVE StreamHeld'
  <2>1. /\ mounted /\ phase = "prejoin" /\ ~Asking(visit) /\ UNCHANGED <<tab, refs>>
        /\ stream' = [stream EXCEPT ![s] = "asked"] /\ asker' = [asker EXCEPT ![s] = visit]
    BY <1>8 DEF RequestMedia, OffersMedia, Showing
  <2>2. \A t \in Streams : asker[t] = visit => stream[t] \notin {"asked", "live"}
    BY <2>1 DEF Asking, StreamHeld
  <2> QED BY <1>0, <2>1, <2>2 DEF tab, refs, StreamType, StreamHeld
<1>9. ASSUME NEW s \in Streams, Denied(s) PROVE StreamHeld'
  BY <1>0, <1>9 DEF Denied, tab, refs, StreamType, StreamHeld
<1>10. ASSUME NEW s \in Streams, NEW j \in Joins, Granted(s, j) PROVE StreamHeld'
  <2>1. /\ stream[s] = "asked" /\ asker[s] \in Meetings
        /\ stream' = [stream EXCEPT ![s] = "live"]
        /\ localStreamRef' = [localStreamRef EXCEPT ![asker[s]] = s]
        /\ UNCHANGED <<visit, mounted, asker>>
        /\ phase' = IF mounted /\ visit = asker[s] THEN "joining" ELSE phase
    BY <1>10 DEF Granted, Join, Holds, setPhase, OnScreen, Belongs
  <2>2. ASSUME NEW t \in Streams, NEW u \in Streams, asker'[t] = asker'[u],
               stream'[t] \in {"asked", "live"}, stream'[u] \in {"asked", "live"}
        PROVE  t = u
    BY <1>0, <2>1, <2>2 DEF StreamType, StreamHeld
  <2>3. ASSUME NEW t \in Streams, mounted', asker'[t] = visit', stream'[t] = "live"
        PROVE  localStreamRef'[visit'] = t /\ phase' # "prejoin"
    <3>1. CASE visit = asker[s]
      <4>1. t = s
        BY <1>0, <2>1, <2>3, <3>1 DEF StreamType, StreamHeld
      <4> QED BY <1>0, <2>1, <2>3, <3>1, <4>1 DEF RefType
    <3>2. CASE visit # asker[s]
      <4>1. t # s /\ stream[t] = "live" /\ visit \in Meetings
        BY <1>0, <2>1, <2>3, <3>2 DEF StreamType, Belongs
      <4> QED BY <1>0, <2>1, <2>3, <3>2, <4>1 DEF RefType, StreamHeld
    <3> QED BY <3>1, <3>2
  <2> QED BY <2>2, <2>3 DEF StreamHeld
<1>11. ASSUME NEW j \in Joins, JoinWithout(j) PROVE StreamHeld'
  <2>1. /\ mounted /\ phase = "prejoin"
        /\ UNCHANGED <<visit, mounted, media>>
    BY <1>11 DEF JoinWithout, OffersMedia, Showing
  <2> QED BY <2>1 DEF media, StreamHeld
<1>12. ASSUME NEW j \in Joins,
              JoinAnswered(j) \/ JoinFailed(j) \/ ReadHistory(j) \/ HistoryAnswered(j)
              \/ HistoryFailed(j) \/ Drop(j) \/ RoomState(j) \/ PeerJoined(j) \/ PeerLeft(j)
              \/ ChatMessage(j)
       PROVE  StreamHeld'
  <2>1. /\ UNCHANGED <<visit, mounted, media, localStreamRef>>
        /\ phase' \in {phase, "error", "live"}
    BY <1>12 DEF JoinAnswered, JoinFailed, ReadHistory, HistoryAnswered, HistoryFailed,
       Drop, RoomState, PeerJoined, PeerLeft, ChatMessage, setPhase, tab, refs
  <2> QED BY <1>1, <2>1
<1>13. ASSUME NEW j \in Joins, Removed(j) \/ Ended(j) PROVE StreamHeld'
  <2>1. by[j] \in Meetings
    BY <1>13 DEF Removed, Ended, Belongs
  <2> QED BY <1>4, <1>13, <2>1 DEF Removed, Ended, leave, teardown, setPhase
<1>14. ASSUME NEW v \in 1..visit, TheySend(v) PROVE StreamHeld'
  BY <1>1, <1>14 DEF TheySend, tab, refs
<1> QED BY <1>2, <1>3, <1>5, <1>6, <1>7, <1>8, <1>9, <1>10, <1>11, <1>12, <1>13, <1>14
        DEF Next

(* Going away stops every stream the visit on screen was granted. *)
LEMMA GoingAwayStops ==
    ASSUME Types, StreamHeld, Next,
           (mounted /\ ~mounted') \/ (phase = "live" /\ phase' = "left"),
           NEW s \in Streams, asker[s] = visit
    PROVE  stream'[s] # "live"
<1>0. StreamType
  BY TypeParts DEF Types, RestType
<1>1. ASSUME mounted, Releases(visit) PROVE stream'[s] # "live"
  BY <1>1 DEF Releases, stopStream, StreamHeld
<1>2. ASSUME NEW v, leave(v), mounted' = mounted PROVE mounted /\ Releases(visit)
  <2>1. phase # "left" /\ phase' = "left"
    BY <1>2
  <2> QED BY <1>2, <2>1 DEF leave, teardown, setPhase, OnScreen
<1>3. CASE Unmount
  BY <1>1, <1>3 DEF Unmount
<1>4. CASE LeaveMeeting
  BY <1>1, <1>2, <1>4 DEF LeaveMeeting
<1>5. ASSUME NEW j \in Joins, Removed(j) \/ Ended(j) PROVE stream'[s] # "live"
  BY <1>1, <1>2, <1>5 DEF Removed, Ended
<1>6. ASSUME mounted' = mounted,
             phase' \in {phase, "joining", "error", "live"} \/ UNCHANGED tab
      PROVE  FALSE
  BY <1>6 DEF tab
<1>7. CASE Arrive
  BY <1>7 DEF Arrive
<1>8. CASE EndForAll \/ SendMessage \/ ContinueAsGuest \/ TheyEnd \/ EndMeeting
  BY <1>6, <1>8 DEF EndForAll, SendMessage, ContinueAsGuest, TheyEnd, EndMeeting, tab
<1>9. ASSUME NEW t \in Streams, RequestMedia(t) \/ Denied(t) PROVE FALSE
  BY <1>6, <1>9 DEF RequestMedia, Denied, tab
<1>10. ASSUME NEW t \in Streams, NEW j \in Joins, Granted(t, j) PROVE FALSE
  BY <1>6, <1>10 DEF Granted, Join, setPhase
<1>11. ASSUME NEW j \in Joins, JoinWithout(j) PROVE FALSE
  BY <1>6, <1>11 DEF JoinWithout, Join, setPhase
<1>12. ASSUME NEW j \in Joins,
              JoinAnswered(j) \/ JoinFailed(j) \/ ReadHistory(j) \/ HistoryAnswered(j)
              \/ HistoryFailed(j) \/ Drop(j) \/ RoomState(j) \/ PeerJoined(j) \/ PeerLeft(j)
              \/ ChatMessage(j)
       PROVE  FALSE
  <2>1. mounted' = mounted /\ phase' \in {phase, "error", "live"}
    BY <1>12 DEF JoinAnswered, JoinFailed, ReadHistory, HistoryAnswered, HistoryFailed,
       Drop, RoomState, PeerJoined, PeerLeft, ChatMessage, setPhase, tab
  <2> QED BY <1>6, <2>1
<1>13. ASSUME NEW v \in 1..visit, TheySend(v) PROVE FALSE
  BY <1>6, <1>13 DEF TheySend, tab
<1> QED BY <1>3, <1>4, <1>5, <1>7, <1>8, <1>9, <1>10, <1>11, <1>12, <1>13 DEF Next

-----------------------------------------------------------------------------
(* Sockets *)

(* SocketHeld is about these variables only. *)
Sockets == <<joined, by, signalingRef>>

(* Every step keeps the refs on the socket of their visit, and a live page on *)
(* one that greeted it.                                                         *)
LEMMA SocketStep ==
    ASSUME Types, SocketHeld, LiveIsConnected, [Next]_vars
    PROVE  SocketHeld' /\ LiveIsConnected'
<1> DEFINE Goal == SocketHeld' /\ LiveIsConnected'
<1> USE DEF Types
<1>0. /\ JoinType /\ RefType /\ PageType
      /\ Visits \in Nat /\ MaxJoins \in Nat /\ Meetings = 1..Visits /\ Joins = 1..MaxJoins
      /\ mounted => visit \in Meetings
  BY TypeParts, RoomPageAssumption DEF RestType, Meetings, Joins, Belongs
<1>1. ASSUME UNCHANGED <<Sockets, visit, mounted>>, phase' = "live" => phase = "live"
      PROVE  Goal
  BY <1>1 DEF Sockets, SocketHeld, LiveIsConnected, JoinedOnce, InRoom, Showing
<1>2. CASE UNCHANGED vars
  BY <1>1, <1>2 DEF vars, tab, joins, refs, Sockets
<1>3. CASE Arrive
  BY <1>3 DEF Arrive, joins, refs, SocketHeld, LiveIsConnected, JoinedOnce, InRoom, Showing
<1>4. ASSUME NEW v \in Meetings, Releases(v), UNCHANGED <<visit, by>>,
             mounted' => mounted, phase' = "live" => phase = "live",
             mounted' /\ visit = v => phase' # "live"
      PROVE  Goal
  <2>1. /\ \A j \in Joins : joined'[j] = IF j = signalingRef[v] THEN "closed" ELSE joined[j]
        /\ signalingRef' = [signalingRef EXCEPT ![v] = 0]
    BY <1>4 DEF Releases
  <2>2. \A w \in Meetings : /\ w # v => signalingRef'[w] = signalingRef[w]
                            /\ signalingRef'[v] = 0
    BY <1>0, <2>1 DEF RefType
  <2>3. ASSUME NEW w \in Meetings, signalingRef'[w] # 0
        PROVE  /\ by[signalingRef'[w]] = w
               /\ joined'[signalingRef'[w]] \in {"open", "greeted", "down", "closed"}
               /\ joined'[signalingRef'[w]] = joined[signalingRef[w]]
    <3>1. /\ w # v /\ signalingRef'[w] = signalingRef[w] /\ signalingRef[w] \in Joins
          /\ by[signalingRef[w]] = w
          /\ joined[signalingRef[w]] \in {"open", "greeted", "down", "closed"}
      BY <1>0, <2>2, <2>3 DEF RefType, SocketHeld
    <3>2. signalingRef[w] # signalingRef[v]
      BY <1>0, <3>1 DEF SocketHeld
    <3> QED BY <2>1, <3>1, <3>2
  <2>4. ASSUME NEW j \in Joins, joined'[j] \in {"open", "greeted", "down"}, JoinedOnce(by[j])
        PROVE  signalingRef'[by[j]] = j
    <3>1. /\ j # signalingRef[v] /\ joined[j] \in {"open", "greeted", "down"} /\ by[j] \in Meetings
      BY <2>1, <2>4 DEF Belongs
    <3>2. signalingRef[by[j]] = j
      BY <2>4, <3>1 DEF SocketHeld
    <3> QED BY <2>2, <3>1, <3>2
  <2>a. \A j \in Joins : joined'[j] = "none" => by[j] \notin Meetings
    BY <2>1 DEF SocketHeld
  <2>5. SocketHeld'
    BY <1>4, <2>3, <2>4, <2>a DEF SocketHeld, JoinedOnce
  <2>6. ASSUME mounted', phase' = "live", JoinedOnce(visit)
        PROVE  signalingRef'[visit] # 0 /\ joined'[signalingRef'[visit]] \in {"greeted", "down"}
    <3>1. /\ visit # v /\ visit \in Meetings /\ signalingRef[visit] # 0
          /\ joined[signalingRef[visit]] \in {"greeted", "down"}
      BY <1>0, <1>4, <2>6 DEF LiveIsConnected, InRoom, Showing
    <3> QED BY <2>2, <2>3, <3>1
  <2>7. LiveIsConnected'
    BY <1>4, <2>6 DEF LiveIsConnected, InRoom, Showing, JoinedOnce
  <2> QED BY <2>5, <2>7
<1>5. CASE Unmount
  BY <1>0, <1>4, <1>5 DEF Unmount
<1>6. CASE LeaveMeeting
  BY <1>0, <1>4, <1>6 DEF LeaveMeeting, leave, teardown, setPhase, OnScreen, InRoom, Showing
<1>7. CASE EndForAll \/ SendMessage \/ ContinueAsGuest \/ TheyEnd \/ EndMeeting
  <2>1. UNCHANGED <<tab, joins, refs>>
    BY <1>7 DEF EndForAll, SendMessage, ContinueAsGuest, TheyEnd, EndMeeting
  <2> QED BY <1>1, <2>1 DEF tab, joins, refs, Sockets
<1>8. ASSUME NEW s \in Streams, RequestMedia(s) \/ Denied(s) PROVE Goal
  BY <1>1, <1>8 DEF RequestMedia, Denied, tab, joins, refs, Sockets
<1>9. ASSUME NEW v \in Meetings, NEW j \in Joins, NEW s \in 0..MaxStreams, Join(v, j, s),
             UNCHANGED <<visit, mounted, signalingRef>>
      PROVE  Goal
  <2>1. /\ joined[j] = "none"
        /\ joined' = [joined EXCEPT ![j] = "asked"] /\ by' = [by EXCEPT ![j] = v]
        /\ phase' = IF mounted /\ visit = v THEN "joining" ELSE phase
    BY <1>9 DEF Join, Fresh, setPhase, OnScreen
  <2>2. \A k \in Joins : k # j => joined'[k] = joined[k] /\ by'[k] = by[k]
    BY <1>0, <2>1 DEF JoinType
  <2>3. joined'[j] = "asked" /\ by'[j] = v
    BY <1>0, <2>1 DEF JoinType
  <2>4. ASSUME NEW w \in Meetings, signalingRef[w] # 0
        PROVE  /\ signalingRef[w] \in Joins /\ signalingRef[w] # j
               /\ by'[signalingRef[w]] = w
               /\ joined'[signalingRef[w]] = joined[signalingRef[w]]
               /\ joined[signalingRef[w]] \in {"open", "greeted", "down", "closed"}
    <3>1. signalingRef[w] \in Joins
      BY <1>0, <2>4 DEF RefType
    <3> QED BY <2>1, <2>2, <2>4, <3>1 DEF SocketHeld
  <2>5. by[j] \notin Meetings
    BY <2>1 DEF SocketHeld
  <2>6. ASSUME NEW w \in Meetings, w # v, JoinedOnce(w)' PROVE JoinedOnce(w)
    <3>1. \A k \in Joins : by[k] = w => by'[k] = w
      BY <2>2, <2>5, <2>6
    <3> QED BY <2>6, <3>1 DEF JoinedOnce
  <2>7. ASSUME NEW k \in Joins, joined'[k] \in {"open", "greeted", "down"}, JoinedOnce(by[k])'
        PROVE  signalingRef'[by'[k]] = k
    <3>1. /\ k # j /\ by'[k] = by[k] /\ by[k] \in Meetings
          /\ joined[k] \in {"open", "greeted", "down"}
      BY <2>2, <2>3, <2>7 DEF Belongs
    <3>2. by[k] # v
      BY <2>3, <2>7, <3>1 DEF JoinedOnce
    <3>3. JoinedOnce(by[k])
      BY <2>6, <2>7, <3>1, <3>2 DEF JoinedOnce
    <3> QED BY <1>9, <3>1, <3>3 DEF SocketHeld
  <2>8. SocketHeld'
    BY <1>9, <2>2, <2>3, <2>4, <2>7 DEF SocketHeld
  <2>9. ASSUME mounted', phase' = "live", JoinedOnce(visit)'
        PROVE  signalingRef'[visit'] # 0 /\ joined'[signalingRef'[visit']] \in {"greeted", "down"}
    <3>1. mounted /\ visit # v /\ phase = "live" /\ visit \in Meetings /\ visit' = visit
      BY <1>0, <1>9, <2>1, <2>9
    <3>2. JoinedOnce(visit)
      BY <2>6, <2>9, <3>1 DEF JoinedOnce
    <3>3. signalingRef[visit] # 0 /\ joined[signalingRef[visit]] \in {"greeted", "down"}
      BY <3>1, <3>2 DEF LiveIsConnected, InRoom, Showing
    <3> QED BY <1>9, <2>4, <3>1, <3>3
  <2> QED BY <2>8, <2>9 DEF LiveIsConnected, InRoom, Showing
<1>10. ASSUME NEW s \in Streams, NEW j \in Joins, Granted(s, j) PROVE Goal
  <2>1. asker[s] \in Meetings /\ s \in 0..MaxStreams
    BY <1>10, RoomPageAssumption DEF Granted, Belongs, Streams
  <2> QED BY <1>9, <1>10, <2>1 DEF Granted
<1>11. ASSUME NEW j \in Joins, JoinWithout(j) PROVE Goal
  <2>1. visit \in Meetings /\ 0 \in 0..MaxStreams
    BY <1>11, RoomPageAssumption DEF JoinWithout, OffersMedia, Showing, Belongs
  <2> QED BY <1>9, <1>11, <2>1 DEF JoinWithout
<1>12. ASSUME NEW j \in Joins, JoinAnswered(j) PROVE Goal
  <2>1. /\ joined[j] = "asked" /\ by[j] \in Meetings
        /\ joined' = [joined EXCEPT ![j] = "open"]
        /\ signalingRef' = [signalingRef EXCEPT ![by[j]] = j]
        /\ UNCHANGED <<visit, mounted, phase, by>>
    BY <1>12 DEF JoinAnswered, SetsRef, tab, Belongs
  <2>2. /\ \A k \in Joins : k # j => joined'[k] = joined[k]
        /\ joined'[j] = "open"
        /\ \A w \in Meetings : w # by[j] => signalingRef'[w] = signalingRef[w]
        /\ signalingRef'[by[j]] = j
    BY <1>0, <2>1 DEF JoinType, RefType
  <2>3. ASSUME NEW w \in Meetings, w # by[j], signalingRef[w] # 0
        PROVE  /\ signalingRef[w] \in Joins /\ signalingRef[w] # j
               /\ by[signalingRef[w]] = w
               /\ joined[signalingRef[w]] \in {"open", "greeted", "down", "closed"}
    BY <1>0, <2>3 DEF RefType, SocketHeld
  <2>4. ASSUME NEW k \in Joins, joined'[k] \in {"open", "greeted", "down"}, JoinedOnce(by[k])
        PROVE  signalingRef'[by[k]] = k
    <3>1. CASE k = j
      BY <2>2, <3>1
    <3>2. CASE k # j
      <4>1. joined[k] \in {"open", "greeted", "down"} /\ by[k] \in Meetings /\ by[k] # by[j]
        BY <2>2, <2>4, <3>2 DEF Belongs, JoinedOnce
      <4> QED BY <2>2, <2>4, <4>1 DEF SocketHeld
    <3> QED BY <3>1, <3>2
  <2>5. SocketHeld'
    <3>1. ASSUME NEW w \in Meetings, signalingRef'[w] # 0
          PROVE  /\ by[signalingRef'[w]] = w
                 /\ joined'[signalingRef'[w]] \in {"open", "greeted", "down", "closed"}
      BY <2>1, <2>2, <2>3, <3>1
    <3>2. \A k \in Joins : joined'[k] = "none" => by[k] \notin Meetings
      BY <2>2 DEF SocketHeld
    <3> QED BY <2>1, <2>4, <3>1, <3>2 DEF SocketHeld, JoinedOnce
  <2>6. ASSUME mounted, phase = "live", JoinedOnce(visit)
        PROVE  signalingRef'[visit] # 0 /\ joined'[signalingRef'[visit]] \in {"greeted", "down"}
    <3>1. /\ signalingRef[visit] # 0 /\ joined[signalingRef[visit]] \in {"greeted", "down"}
          /\ signalingRef[visit] \in Joins /\ by[signalingRef[visit]] = visit
      BY <1>0, <2>6 DEF LiveIsConnected, InRoom, Showing, RefType, SocketHeld
    <3>2. visit # by[j]
      BY <2>1, <2>6, <3>1 DEF JoinedOnce
    <3> QED BY <1>0, <2>2, <2>3, <2>6, <3>1, <3>2
  <2>7. LiveIsConnected'
    BY <2>1, <2>6 DEF LiveIsConnected, InRoom, Showing, JoinedOnce
  <2> QED BY <2>5, <2>7
<1>13. ASSUME NEW j \in Joins, JoinFailed(j) PROVE Goal
  <2>1. /\ joined[j] = "asked" /\ joined' = [joined EXCEPT ![j] = "closed"]
        /\ UNCHANGED <<visit, mounted, by, signalingRef>>
        /\ phase' = "live" => phase = "live"
    BY <1>13 DEF JoinFailed, setPhase, refs
  <2>2. /\ \A k \in Joins : k # j => joined'[k] = joined[k]
        /\ joined'[j] = "closed"
    BY <1>0, <2>1 DEF JoinType
  <2>3. \A w \in Meetings : signalingRef[w] # 0 => signalingRef[w] \in Joins \ {j}
    <3>1. \A w \in Meetings : signalingRef[w] # 0 => signalingRef[w] \in Joins
      BY <1>0 DEF RefType
    <3>2. \A w \in Meetings : signalingRef[w] # 0 => joined[signalingRef[w]] # "asked"
      BY DEF SocketHeld
    <3> QED BY <2>1, <3>1, <3>2
  <2>4. SocketHeld'
    BY <2>1, <2>2, <2>3 DEF SocketHeld, JoinedOnce
  <2>5. LiveIsConnected'
    BY <1>0, <2>1, <2>2, <2>3 DEF LiveIsConnected, InRoom, Showing, JoinedOnce
  <2> QED BY <2>4, <2>5
<1>14. ASSUME NEW j \in Joins,
              ReadHistory(j) \/ HistoryAnswered(j) \/ HistoryFailed(j)
              \/ PeerJoined(j) \/ PeerLeft(j) \/ ChatMessage(j)
       PROVE  Goal
  <2>1. UNCHANGED <<tab, joined, by, refs>>
    BY <1>14 DEF ReadHistory, HistoryAnswered, HistoryFailed, PeerJoined, PeerLeft,
       ChatMessage, joins
  <2> QED BY <1>1, <2>1 DEF tab, refs, Sockets
<1>15. ASSUME NEW j \in Joins, RoomState(j) PROVE Goal
  <2>1. /\ joined[j] \in {"open", "down"} /\ joined' = [joined EXCEPT ![j] = "greeted"]
        /\ UNCHANGED <<visit, mounted, by, signalingRef>>
        /\ phase' = IF mounted /\ visit = by[j] THEN "live" ELSE phase
    BY <1>15 DEF RoomState, setPhase, OnScreen, refs
  <2>2. /\ \A k \in Joins : k # j => joined'[k] = joined[k]
        /\ joined'[j] = "greeted"
    BY <1>0, <2>1 DEF JoinType
  <2>3. \A w \in Meetings : signalingRef[w] # 0 => signalingRef[w] \in Joins
    BY <1>0 DEF RefType
  <2>4. SocketHeld'
    BY <2>1, <2>2, <2>3 DEF SocketHeld, JoinedOnce
  <2>5. ASSUME mounted, phase' = "live", JoinedOnce(visit)
        PROVE  signalingRef[visit] # 0 /\ joined'[signalingRef[visit]] \in {"greeted", "down"}
    <3>1. CASE visit = by[j]
      <4>1. signalingRef[visit] = j
        BY <2>1, <2>5, <3>1 DEF SocketHeld
      <4> QED BY <1>0, <2>2, <4>1
    <3>2. CASE visit # by[j]
      BY <1>0, <2>1, <2>2, <2>3, <2>5, <3>2 DEF LiveIsConnected, InRoom, Showing
    <3> QED BY <3>1, <3>2
  <2>6. LiveIsConnected'
    BY <2>1, <2>5 DEF LiveIsConnected, InRoom, Showing, JoinedOnce
  <2> QED BY <2>4, <2>6
<1>16. ASSUME NEW j \in Joins, Removed(j) \/ Ended(j) PROVE Goal
  <2>1. /\ by[j] \in Meetings /\ leave(by[j]) /\ UNCHANGED <<visit, mounted, by>>
    BY <1>16 DEF Removed, Ended, Belongs
  <2> QED BY <1>4, <2>1 DEF leave, teardown, setPhase, OnScreen
<1>17. ASSUME NEW v \in 1..visit, TheySend(v) PROVE Goal
  BY <1>1, <1>17 DEF TheySend, tab, joins, refs, Sockets
<1>18. ASSUME NEW j \in Joins, Drop(j) PROVE Goal
  <2>1. /\ joined[j] \in {"open", "greeted", "down"}
        /\ joined' = [joined EXCEPT ![j] = IF joined[j] = "greeted" THEN "down" ELSE joined[j]]
        /\ UNCHANGED <<visit, mounted, phase, by, signalingRef>>
    BY <1>18 DEF Drop, tab, refs
  <2>2. \A k \in Joins :
            /\ joined[k] \in {"open", "down"} \/ k # j => joined'[k] = joined[k]
            /\ k = j => joined'[k] \in {"open", "down"}
            /\ k = j /\ joined[k] = "greeted" => joined'[k] = "down"
    BY <1>0, <2>1 DEF JoinType
  <2>3. \A w \in Meetings : signalingRef[w] # 0 => signalingRef[w] \in Joins
    BY <1>0 DEF RefType
  <2>4. SocketHeld'
    BY <2>1, <2>2, <2>3 DEF SocketHeld, JoinedOnce
  <2>5. LiveIsConnected'
    BY <1>0, <2>1, <2>2, <2>3 DEF LiveIsConnected, InRoom, Showing, JoinedOnce
  <2> QED BY <2>4, <2>5
<1> QED BY <1>2, <1>3, <1>5, <1>6, <1>7, <1>8, <1>10, <1>11, <1>12, <1>13, <1>14, <1>15,
           <1>16, <1>17, <1>18 DEF Next

-----------------------------------------------------------------------------
(* The theorems *)

(* The invariant holds at the start. *)
LEMMA InvInit == Init => Inv
<1> SUFFICES ASSUME Init PROVE Inv
  OBVIOUS
<1>1. TypeOK
  <2>a. 0 \in 0..Visits /\ 0 \in 0..MaxJoins /\ 0 \in 0..MaxStreams
    BY RoomPageAssumption
  <2>b. PageType /\ StreamType /\ RefType /\ MeetingType
    BY <2>a DEF Init, PageType, StreamType, RefType, MeetingType
  <2>c. JoinType
    BY <2>a DEF Init, JoinType
  <2>1. RestType
    BY <2>b, <2>c DEF RestType
  <2>2. store \in Stores /\ selected \in Selections
    <3>1. initialState \in Stores
      BY RoomPageAssumption DEF initialState, Stores, NoOne
    <3> QED BY <3>1, SelectionType DEF Init
  <2> QED BY <2>1, <2>2, TypeParts
<1>2. Belongs /\ OrderFresh /\ StreamHeld /\ LiveIsConnected
  BY DEF Init, Belongs, OrderFresh, StreamHeld, LiveIsConnected, InRoom, Showing
<1>4. CacheSound
  BY DEF Init, CacheSound, Stale, initialState, NoOne
<1>3. SocketHeld
  BY DEF Init, SocketHeld, Meetings
<1> QED BY <1>1, <1>2, <1>3, <1>4 DEF Inv, Types

(* Every step keeps it. *)
LEMMA InvStep == Inv /\ [Next]_vars => Inv'
<1> SUFFICES ASSUME Inv, [Next]_vars PROVE Inv'
  OBVIOUS
<1>1. Types'
  BY StoreStep, RestStep, TypeParts DEF Inv, Types, TypeOK, RestType, PageType, StreamType,
     JoinType, RefType, MeetingType, Stores, Selections
<1>2. OrderFresh' /\ CacheSound' /\ StreamHeld' /\ SocketHeld' /\ LiveIsConnected'
  BY StoreStep, StreamStep, SocketStep DEF Inv
<1> QED BY <1>1, <1>2 DEF Inv

(* The invariant holds in every reachable state. *)
THEOREM InvHolds == Spec => []Inv
BY InvInit, InvStep, PTL DEF Spec

(* The types of the page's state (MeetingRoom.tsx, meetingStore.ts). *)
THEOREM TypesHold == Spec => []TypeOK
<1>1. Inv => TypeOK
  BY DEF Inv, Types
<1> QED BY <1>1, InvHolds, PTL

(* The list on screen is that of the store: the Map is a sound cache key.     *)
THEOREM OrderFreshHolds == Spec => []OrderFresh
<1>1. Inv => OrderFresh
  BY DEF Inv
<1> QED BY <1>1, InvHolds, PTL

(* A page that is live after one join holds that join's greeted socket. *)
THEOREM LiveIsConnectedHolds == Spec => []LiveIsConnected
<1>1. Inv => LiveIsConnected
  BY DEF Inv
<1> QED BY <1>1, InvHolds, PTL

(* Going away stops every track the page was granted. *)
THEOREM LeavingStopsMediaHolds == Spec => LeavingStopsMedia
<1> DEFINE Step ==
        (mounted /\ ~mounted') \/ (phase = "live" /\ phase' = "left")
          => \A s \in Streams : asker[s] = visit => stream'[s] # "live"
<1>1. Inv /\ [Next]_vars => [Step]_vars
  BY GoingAwayStops DEF Inv
<1> QED BY <1>1, InvHolds, PTL DEF Spec, LeavingStopsMedia

-----------------------------------------------------------------------------
(* The drawer *)

NoTwice(q) == \A a, b \in DOMAIN q : a < b => q[a] # q[b]

Rising(q, v) ==
    \A a, b \in DOMAIN q : a < b /\ q[a][1] = v /\ q[b][1] = v => q[a][2] < q[b][2]

(* After the h-th message of v, it has every one up to any that it has.       *)
NoGap(q, v, h) ==
    \A a \in DOMAIN q :
        q[a][1] = v => \A i \in (h + 1)..q[a][2] : \E c \in DOMAIN q : q[c] = <<v, i>>

(* The drawer and the histories have messages that were sent, and the drawer    *)
(* those of meetings that were joined; and those a connection has still to       *)
(* deliver, which the history may have brought, are there without a gap, so that *)
(* the next one is either there or comes after all.                               *)
Sent ==
    /\ \A a \in DOMAIN store.messages :
          store.messages[a][2] <= log[store.messages[a][1]]
    /\ \A j \in Joins : history[j] \in Nat => history[j] <= log[by[j]]

DrawerInv ==
    /\ NoTwice(store.messages)
    /\ \A a \in DOMAIN store.messages : \E j \in Joins : by[j] = store.messages[a][1]
    /\ \A j \in Joins : by[j] \in Meetings /\ JoinedOnce(by[j]) =>
          /\ Rising(store.messages, by[j])
          /\ joined[j] = "greeted" => NoGap(store.messages, by[j], heard[j])

(* What the history is. *)
LEMMA HistoryIs ==
    ASSUME NEW v \in Meetings, NEW n \in Nat, NEW q, q = Chat(v, n)
    PROVE  /\ NoTwice(q)
           /\ \A a \in DOMAIN q : q[a][1] = v
           /\ \A w : Rising(q, w)
           /\ \A h \in Nat : NoGap(q, v, h)
<1>1. DOMAIN q = 1..n /\ \A a \in 1..n : q[a] = <<v, a>> /\ q[a][1] = v /\ q[a][2] = a
    BY DEF Chat
<1>2. NoTwice(q)
    <2> SUFFICES ASSUME NEW a \in 1..n, NEW b \in 1..n, a < b PROVE q[a] # q[b]
        BY <1>1 DEF NoTwice
    <2> QED BY <1>1
<1>3. \A w : Rising(q, w)
    BY <1>1 DEF Rising
<1>4. ASSUME NEW h \in Nat PROVE NoGap(q, v, h)
    <2> SUFFICES ASSUME NEW a \in 1..n, NEW i \in (h + 1)..q[a][2]
                 PROVE  \E c \in DOMAIN q : q[c] = <<v, i>>
        BY <1>1 DEF NoGap
    <2>1. i \in 1..n
        BY <1>1
    <2> QED BY <1>1, <2>1
<1> QED BY <1>1, <1>2, <1>3, <1>4

(* Append adds one place at the end and changes no other. *)
LEMMA Appended ==
    ASSUME NEW S, NEW q \in Seq(S), NEW e \in S
    PROVE  /\ Len(q) \in Nat /\ DOMAIN q = 1..Len(q)
           /\ DOMAIN Append(q, e) = 1..(Len(q) + 1)
           /\ Append(q, e)[Len(q) + 1] = e
           /\ \A a \in 1..Len(q) : Append(q, e)[a] = q[a]
<1>1. Len(q) \in Nat /\ DOMAIN q = 1..Len(q)
    OBVIOUS
<1>2. Append(q, e) \in Seq(S) /\ Len(Append(q, e)) = Len(q) + 1
    OBVIOUS
<1>3. DOMAIN Append(q, e) = 1..(Len(q) + 1)
    BY <1>2
<1>4. Append(q, e)[Len(q) + 1] = e
    OBVIOUS
<1>5. \A a \in 1..Len(q) : Append(q, e)[a] = q[a]
    OBVIOUS
<1> QED BY <1>1, <1>3, <1>4, <1>5

(* From q to r, when the message h + 1 of the meeting v comes: nothing is  *)
(* doubled or made up, what was in order and without a gap up to h is so   *)
(* up to h + 1, and the messages of the other meetings are as they were.   *)
OneLater(q, r, v, h) ==
    /\ NoTwice(q) => NoTwice(r)
    /\ \A a \in DOMAIN r : r[a] = <<v, h + 1>> \/ \E b \in DOMAIN q : r[a] = q[b]
    /\ Rising(q, v) /\ NoGap(q, v, h) => Rising(r, v) /\ NoGap(r, v, h + 1)
    /\ \A w : \A k : w # v =>
          /\ Rising(q, w) => Rising(r, w)
          /\ NoGap(q, w, k) => NoGap(r, w, k)

(* What a live message makes of the list. *)
LEMMA LiveMessageIs ==
    ASSUME NEW s \in Stores, NEW v \in Meetings, NEW h \in Nat,
           NEW q, q = s.messages,
           NEW r, r = addMessage(s, <<v, h + 1>>).messages
    PROVE  OneLater(q, r, v, h)
<1> USE DEF OneLater
<1> DEFINE m == <<v, h + 1>>
<1>0. /\ q \in Seq(Messages) /\ m[1] = v /\ m[2] = h + 1
      /\ \A a \in DOMAIN q : q[a] = <<q[a][1], q[a][2]>> /\ q[a][2] \in Nat
    <2>1. q \in Seq(Messages)
        BY DEF Stores
    <2>2. \A a \in DOMAIN q : q[a] \in Messages
        BY <2>1
    <2>3. \A x \in Messages : x = <<x[1], x[2]>> /\ x[2] \in Nat
        BY DEF Messages
    <2> QED BY <2>1, <2>2, <2>3
<1>1. CASE \E i \in DOMAIN q : q[i] = m
    <2>1. r = q
        BY <1>1 DEF addMessage
    <2>2. NoGap(q, v, h) => NoGap(q, v, h + 1)
        <3> SUFFICES ASSUME NoGap(q, v, h), NEW a \in DOMAIN q, q[a][1] = v,
                            NEW i \in (h + 2)..q[a][2]
                     PROVE  \E c \in DOMAIN q : q[c] = <<v, i>>
            BY DEF NoGap
        <3>1. i \in (h + 1)..q[a][2]
            BY <1>0
        <3> QED BY <3>1 DEF NoGap
    <2> QED BY <2>1, <2>2
<1>2. CASE ~ \E i \in DOMAIN q : q[i] = m
    <2>1. r = Append(q, m)
        <3>1. addMessage(s, m) = [s EXCEPT !.messages = Append(q, m)]
            BY <1>2 DEF addMessage
        <3> QED BY <3>1 DEF Stores
    <2> HIDE DEF m
    <2>2. /\ Len(q) \in Nat /\ DOMAIN q = 1..Len(q) /\ DOMAIN r = 1..(Len(q) + 1)
          /\ r[Len(q) + 1] = m /\ \A a \in 1..Len(q) : r[a] = q[a]
        <3>1. q \in Seq(Messages)
            BY <1>0
        <3>2. m \in Messages
            BY DEF m, Messages
        <3>3. /\ Len(q) \in Nat /\ DOMAIN q = 1..Len(q)
              /\ DOMAIN Append(q, m) = 1..(Len(q) + 1)
              /\ Append(q, m)[Len(q) + 1] = m
              /\ \A a \in 1..Len(q) : Append(q, m)[a] = q[a]
            BY <3>1, <3>2, Appended
        <3> QED BY <2>1, <3>3, Zenon
    <2>3. /\ \A a \in DOMAIN r : a \in DOMAIN q \/ a = Len(q) + 1
          /\ \A a \in DOMAIN q : a \in DOMAIN r /\ a # Len(q) + 1 /\ r[a] = q[a]
          /\ \A a \in DOMAIN r, b \in DOMAIN r : a < b => a \in DOMAIN q
        BY <2>2
    <2>4. NoTwice(q) => NoTwice(r)
        <3> SUFFICES ASSUME NoTwice(q), NEW a \in DOMAIN r, NEW b \in DOMAIN r, a < b
                     PROVE  r[a] # r[b]
            BY DEF NoTwice
        <3>1. a \in DOMAIN q /\ r[a] = q[a]
            BY <2>3
        <3>2. CASE b \in DOMAIN q
            BY <2>3, <3>1, <3>2 DEF NoTwice
        <3>3. CASE b = Len(q) + 1
            BY <1>2, <2>2, <3>1, <3>3
        <3> QED BY <2>3, <3>2, <3>3
    <2>5. \A a \in DOMAIN r : r[a] = m \/ \E b \in DOMAIN q : r[a] = q[b]
        BY <2>2, <2>3
    <2>6. ASSUME NoGap(q, v, h), NEW a \in DOMAIN q, q[a][1] = v
          PROVE  q[a][2] <= h
        <3> SUFFICES ASSUME q[a][2] > h PROVE FALSE
            BY <1>0
        <3>1. h + 1 \in (h + 1)..q[a][2]
            BY <1>0
        <3> QED BY <1>2, <2>6, <3>1 DEF NoGap, m
    <2>7. Rising(q, v) /\ NoGap(q, v, h) => Rising(r, v)
        <3> SUFFICES ASSUME Rising(q, v), NoGap(q, v, h),
                            NEW a \in DOMAIN r, NEW b \in DOMAIN r, a < b,
                            r[a][1] = v, r[b][1] = v
                     PROVE  r[a][2] < r[b][2]
            BY DEF Rising
        <3>1. a \in DOMAIN q /\ r[a] = q[a]
            BY <2>3
        <3>2. CASE b \in DOMAIN q
            BY <2>3, <3>1, <3>2 DEF Rising
        <3>3. CASE b = Len(q) + 1
            BY <1>0, <2>2, <2>6, <3>1, <3>3
        <3> QED BY <2>3, <3>2, <3>3
    <2>8. NoGap(q, v, h) => NoGap(r, v, h + 1)
        <3> SUFFICES ASSUME NoGap(q, v, h), NEW a \in DOMAIN r, r[a][1] = v
                     PROVE  r[a][2] <= h + 1 /\ r[a][2] \in Nat
            BY DEF NoGap
        <3>1. CASE a \in DOMAIN q
            <4>1. r[a] = q[a] /\ q[a][2] \in Nat
                BY <1>0, <2>3, <3>1
            <4>2. q[a][2] <= h
                BY <2>6, <3>1, <4>1
            <4> QED BY <4>1, <4>2
        <3>2. CASE a = Len(q) + 1
            <4>1. r[a] = m /\ m[2] = h + 1 /\ h + 1 \in Nat
                BY <1>0, <2>2, <3>2
            <4> QED BY <4>1
        <3> QED BY <2>3, <3>1, <3>2
    <2>9. ASSUME NEW w, NEW k, w # v
          PROVE  /\ Rising(q, w) => Rising(r, w)
                 /\ NoGap(q, w, k) => NoGap(r, w, k)
        <3>1. \A a \in DOMAIN r : r[a][1] = w => a \in DOMAIN q /\ r[a] = q[a]
            BY <1>0, <2>2, <2>3, <2>9
        <3>2. Rising(q, w) => Rising(r, w)
            BY <3>1 DEF Rising
        <3>3. ASSUME NoGap(q, w, k), NEW a \in DOMAIN r, r[a][1] = w,
                     NEW i \in (k + 1)..r[a][2]
              PROVE  \E c \in DOMAIN r : r[c] = <<w, i>>
            <4>1. a \in DOMAIN q /\ r[a] = q[a]
                BY <3>1, <3>3
            <4>2. PICK c \in DOMAIN q : q[c] = <<w, i>>
                BY <3>3, <4>1 DEF NoGap
            <4>3. c \in DOMAIN r /\ r[c] = q[c]
                BY <2>3
            <4> QED BY <4>2, <4>3
        <3> QED BY <3>2, <3>3 DEF NoGap
    <2> QED BY <2>4, <2>5, <2>7, <2>8, <2>9 DEF m
<1> QED BY <1>1, <1>2

(* Every step keeps to what was sent. *)
LEMMA SentStep ==
    ASSUME Types, SocketHeld, Sent, [Next]_vars
    PROVE  Sent'
<1> USE DEF Types
<1>0. /\ JoinType /\ MeetingType /\ store \in Stores
      /\ \A j \in Joins : joined[j] = "none" => by[j] \notin Meetings
      /\ \A j \in Joins : history[j] \in Nat => by[j] \in Meetings
      /\ \A j \in Joins : joined[j] # "none" => by[j] \in Meetings
      /\ Unread \notin Nat /\ Done \notin Nat
    <2>1. JoinType /\ MeetingType /\ store \in Stores
        BY TypeParts DEF RestType
    <2>2. Unread \notin Nat /\ Done \notin Nat
        BY DEF Unread, Done
    <2> QED BY <2>1, <2>2 DEF SocketHeld, Belongs
<1>a. \A a \in DOMAIN store.messages :
          store.messages[a][1] \in Meetings /\ store.messages[a][2] \in Nat
    <2>1. \A a \in DOMAIN store.messages : store.messages[a] \in Messages
        BY <1>0 DEF Stores
    <2>2. \A x \in Messages : x[1] \in Meetings /\ x[2] \in Nat
        BY DEF Messages
    <2> QED BY <2>1, <2>2
(* Nothing new is in a drawer or a history. *)
<1>1. ASSUME DOMAIN store'.messages = {} \/ store'.messages = store.messages,
             \A j \in Joins : history'[j] \in Nat => history'[j] = history[j] /\ by'[j] = by[j],
             \A v \in Meetings : log[v] <= log'[v] /\ log'[v] \in Nat
      PROVE  Sent'
    <2>1. ASSUME NEW a \in DOMAIN store'.messages
          PROVE  store'.messages[a][2] <= log'[store'.messages[a][1]]
        <3>1. a \in DOMAIN store.messages /\ store'.messages[a] = store.messages[a]
            BY <1>1, <2>1
        <3>2. /\ store.messages[a][2] <= log[store.messages[a][1]]
              /\ log[store.messages[a][1]] <= log'[store.messages[a][1]]
              /\ store.messages[a][2] \in Nat /\ log[store.messages[a][1]] \in Nat
              /\ log'[store.messages[a][1]] \in Nat
            BY <1>0, <1>1, <1>a, <3>1 DEF Sent, MeetingType
        <3> QED BY <3>1, <3>2
    <2>2. ASSUME NEW j \in Joins, history'[j] \in Nat
          PROVE  history'[j] <= log'[by'[j]]
        <3>1. /\ history[j] \in Nat /\ history'[j] = history[j] /\ by'[j] = by[j]
              /\ by[j] \in Meetings
            BY <1>0, <1>1, <2>2
        <3>2. /\ history[j] <= log[by[j]] /\ log[by[j]] <= log'[by[j]]
              /\ log[by[j]] \in Nat /\ log'[by[j]] \in Nat
            BY <1>0, <1>1, <3>1 DEF Sent, MeetingType
        <3> QED BY <3>1, <3>2
    <2> QED BY <2>1, <2>2 DEF Sent
<1>2. log' = log => \A v \in Meetings : log[v] <= log'[v] /\ log'[v] \in Nat
    BY <1>0 DEF MeetingType
<1>3. store' = initialState => DOMAIN store'.messages = {}
    BY DEF initialState
<1>4. CASE UNCHANGED vars
    BY <1>1, <1>2, <1>4 DEF vars, joins, meeting, shared
<1>5. CASE Arrive \/ EndForAll \/ ContinueAsGuest \/ TheyEnd \/ EndMeeting
    BY <1>1, <1>2, <1>5
       DEF Arrive, EndForAll, ContinueAsGuest, TheyEnd, EndMeeting, joins, meeting, shared
<1>6. CASE Unmount \/ LeaveMeeting
    BY <1>1, <1>2, <1>3, <1>6
       DEF Unmount, LeaveMeeting, leave, teardown, Reset, Replaces, meeting
<1>7. ASSUME NEW s \in Streams, RequestMedia(s) \/ Denied(s) PROVE Sent'
    BY <1>1, <1>2, <1>7 DEF RequestMedia, Denied, joins, meeting, shared
<1>8. ASSUME NEW v \in Meetings, Says(v), UNCHANGED <<by, history, store>> PROVE Sent'
    <2>1. log' = [log EXCEPT ![v] = log[v] + 1]
        BY <1>8 DEF Says
    <2>2. \A w \in Meetings : log[w] <= log'[w] /\ log'[w] \in Nat
        BY <1>0, <2>1 DEF MeetingType
    <2> QED BY <1>1, <1>8, <2>2
<1>9. ASSUME NEW v \in Meetings, NEW j \in Joins, NEW s, Join(v, j, s),
             UNCHANGED <<history, log>>
      PROVE  Sent'
    <2>1. /\ joined[j] = "none" /\ by' = [by EXCEPT ![j] = v]
          /\ store'.messages = store.messages
        BY <1>0, <1>9 DEF Join, Fresh, Keeps, setLocalStream, Stores
    <2>2. history[j] \notin Nat /\ \A k \in Joins : k # j => by'[k] = by[k]
        BY <1>0, <2>1 DEF JoinType
    <2> QED BY <1>1, <1>2, <1>9, <2>1, <2>2
<1>10. ASSUME NEW s \in Streams, NEW j \in Joins, Granted(s, j) PROVE Sent'
    BY <1>9, <1>10 DEF Granted, meeting, Belongs
<1>11. ASSUME NEW j \in Joins, JoinWithout(j) PROVE Sent'
    BY <1>9, <1>11 DEF JoinWithout, meeting, OffersMedia, Showing, Belongs
<1>12. ASSUME NEW j \in Joins, JoinAnswered(j) \/ HistoryFailed(j) PROVE Sent'
    <2>1. \E x \in {Unread, Done} : history' = [history EXCEPT ![j] = x]
        BY <1>12 DEF JoinAnswered, HistoryFailed
    <2>2. UNCHANGED <<by, log, store>>
        BY <1>12 DEF JoinAnswered, HistoryFailed, meeting, shared
    <2>3. \A k \in Joins : history'[k] \in Nat => history'[k] = history[k]
        BY <1>0, <2>1 DEF JoinType
    <2> QED BY <1>1, <1>2, <2>2, <2>3
<1>13. ASSUME NEW j \in Joins, JoinFailed(j) \/ Drop(j) PROVE Sent'
    BY <1>1, <1>2, <1>13 DEF JoinFailed, Drop, meeting, shared
<1>14. ASSUME NEW j \in Joins, ReadHistory(j) PROVE Sent'
    <2>1. /\ history' = [history EXCEPT ![j] = log[by[j]]]
          /\ UNCHANGED <<by, log, store>>
        BY <1>14 DEF ReadHistory, meeting, shared
    <2>2. by[j] \in Meetings
        BY <1>14, <1>0 DEF ReadHistory, Belongs, Unread, Done
    <2>3. log[by[j]] \in Nat
        BY <1>0, <2>2 DEF MeetingType
    <2>4. \A k \in Joins : history'[k] \in Nat => history'[k] <= log[by[k]]
        BY <1>0, <2>1, <2>3 DEF JoinType, Sent
    <2> QED BY <2>1, <2>4 DEF Sent
<1>15. ASSUME NEW j \in Joins, HistoryAnswered(j) PROVE Sent'
    <2>1. /\ by[j] \in Meetings /\ history[j] \in Nat
          /\ UNCHANGED <<by, log>> /\ history' = [history EXCEPT ![j] = Done]
          /\ store' = setMessages(store, Chat(by[j], history[j]))
        BY <1>0, <1>15 DEF HistoryAnswered, Keeps, TakesHistory, meeting
    <2>2. store'.messages = Chat(by[j], history[j])
        BY <1>0, <2>1 DEF setMessages, Stores
    <2>3. history[j] <= log[by[j]] /\ log[by[j]] \in Nat
        BY <1>0, <2>1 DEF Sent, MeetingType
    <2>4. ASSUME NEW a \in DOMAIN store'.messages
          PROVE  store'.messages[a][2] <= log[store'.messages[a][1]]
        <3>1. /\ a \in 1..history[j]
              /\ store'.messages[a][1] = by[j] /\ store'.messages[a][2] = a
            BY <2>1, <2>2, <2>4 DEF Chat
        <3>2. a <= log[by[j]]
            BY <2>1, <2>3, <3>1
        <3> QED BY <3>1, <3>2
    <2>5. \A k \in Joins : history'[k] \in Nat => history'[k] = history[k]
        BY <1>0, <2>1 DEF JoinType
    <2> QED BY <2>1, <2>4, <2>5 DEF Sent
<1>16. ASSUME NEW j \in Joins, RoomState(j) \/ PeerJoined(j) \/ PeerLeft(j) PROVE Sent'
    <2>1. /\ UNCHANGED <<by, history, log>>
          /\ \E r, x : \/ Replaces(setRoomState(store, x, r))
                       \/ Replaces(upsertParticipant(store, r))
                       \/ Replaces(removeParticipant(store, r))
        BY <1>16 DEF RoomState, PeerJoined, PeerLeft, joins, meeting
    <2>2. store'.messages = store.messages
        BY <1>0, <2>1 DEF Replaces, setRoomState, upsertParticipant, removeParticipant, Stores
    <2> QED BY <1>1, <1>2, <2>1, <2>2
<1>17. ASSUME NEW j \in Joins, ChatMessage(j) PROVE Sent'
    <2>1. /\ by[j] \in Meetings /\ heard[j] \in Nat /\ heard[j] < log[by[j]]
          /\ UNCHANGED <<by, log, history>>
          /\ store' = addMessage(store, <<by[j], heard[j] + 1>>)
        BY <1>0, <1>17 DEF ChatMessage, Receive, Keeps, JoinType, meeting
    <2>2. log[by[j]] \in Nat
        BY <1>0, <2>1 DEF MeetingType
    <2> DEFINE q == store.messages
               m == <<by[j], heard[j] + 1>>
    <2>3. store'.messages = q \/ store'.messages = Append(q, m)
        BY <1>0, <2>1 DEF addMessage, Stores
    <2>4. m[1] = by[j] /\ m[2] <= log[by[j]] /\ m \in Messages
        BY <2>1, <2>2 DEF Messages
    <2>5. q \in Seq(Messages)
        BY <1>0 DEF Stores
    <2>6. \A a \in DOMAIN q : q[a][2] <= log[q[a][1]]
        BY DEF Sent
    <2> HIDE DEF q, m
    <2>7. \A a \in DOMAIN Append(q, m) : Append(q, m)[a] = m \/ \E b \in DOMAIN q : Append(q, m)[a] = q[b]
        <3>1. /\ Len(q) \in Nat /\ DOMAIN q = 1..Len(q)
              /\ DOMAIN Append(q, m) = 1..(Len(q) + 1)
              /\ Append(q, m)[Len(q) + 1] = m
              /\ \A a \in 1..Len(q) : Append(q, m)[a] = q[a]
            BY <2>4, <2>5, Appended
        <3>2. \A a \in 1..(Len(q) + 1) : a \in 1..Len(q) \/ a = Len(q) + 1
            BY <3>1
        <3> QED BY <3>1, <3>2, Zenon
    <2>8. \A a \in DOMAIN store'.messages :
              store'.messages[a][2] <= log[store'.messages[a][1]]
        <3>1. CASE store'.messages = q
            BY <2>6, <3>1
        <3>2. CASE store'.messages = Append(q, m)
            BY <2>4, <2>6, <2>7, <3>2
        <3> QED BY <2>3, <3>1, <3>2
    <2> QED BY <2>1, <2>8 DEF Sent
<1>18. ASSUME NEW j \in Joins, Removed(j) \/ Ended(j) PROVE Sent'
    BY <1>1, <1>2, <1>3, <1>18 DEF Removed, Ended, leave, teardown, Reset, Replaces, meeting
<1>19. CASE SendMessage
    BY <1>8, <1>19 DEF SendMessage, InRoom, Showing, Belongs, joins, shared
<1>20. ASSUME NEW v \in 1..visit, TheySend(v) PROVE Sent'
    <2>1. v \in Meetings
        BY <1>0, TypeParts, RoomPageAssumption DEF RestType, PageType, Meetings
    <2> QED BY <1>8, <1>20, <2>1 DEF TheySend, joins, shared
<1> QED BY <1>4, <1>5, <1>6, <1>7, <1>10, <1>11, <1>12, <1>13, <1>14, <1>15, <1>16,
           <1>17, <1>18, <1>19, <1>20 DEF Next

(* Every step keeps the drawer so. *)
LEMMA DrawerStep ==
    ASSUME Types, SocketHeld, Sent, DrawerInv, [Next]_vars
    PROVE  DrawerInv'
<1> USE DEF Types
<1>0. /\ JoinType /\ MeetingType /\ store \in Stores
      /\ Meetings = 1..Visits /\ Visits \in Nat
      /\ \A j \in Joins : joined[j] = "none" => by[j] \notin Meetings
      /\ \A a \in DOMAIN store.messages : store.messages[a][1] \in Meetings
    <2>1. JoinType /\ MeetingType /\ store \in Stores
        BY TypeParts DEF RestType
    <2>2. \A a \in DOMAIN store.messages : store.messages[a] \in Messages
        BY <2>1 DEF Stores
    <2>3. \A x \in Messages : x[1] \in Meetings
        BY DEF Messages
    <2> QED BY <2>1, <2>2, <2>3, RoomPageAssumption DEF SocketHeld, Meetings
(* The drawer stays as it is, and no connection gets anywhere. *)
<1>1. ASSUME store'.messages = store.messages, UNCHANGED by,
             \A j \in Joins : joined'[j] = "greeted" =>
                                  joined[j] = "greeted" /\ heard'[j] = heard[j]
      PROVE  DrawerInv'
    BY <1>1 DEF DrawerInv, JoinedOnce
<1>3. ASSUME store' = initialState, UNCHANGED by PROVE DrawerInv'
    <2>1. DOMAIN store'.messages = {}
        BY <1>3 DEF initialState
    <2> QED BY <1>3, <2>1 DEF DrawerInv, JoinedOnce, NoTwice, Rising, NoGap
<1>4. CASE UNCHANGED vars
    BY <1>1, <1>4 DEF vars, joins, meeting, shared
<1>5. CASE Arrive \/ EndForAll \/ ContinueAsGuest \/ TheyEnd \/ EndMeeting
    BY <1>1, <1>5
       DEF Arrive, EndForAll, ContinueAsGuest, TheyEnd, EndMeeting, joins, shared
<1>6. CASE Unmount \/ LeaveMeeting
    BY <1>3, <1>6 DEF Unmount, LeaveMeeting, leave, teardown, Reset, Replaces
<1>7. ASSUME NEW s \in Streams, RequestMedia(s) \/ Denied(s) PROVE DrawerInv'
    BY <1>1, <1>7 DEF RequestMedia, Denied, joins, shared
(* A join begins: the messages of its visit are still to come. *)
<1>9. ASSUME NEW v \in Meetings, NEW j \in Joins, NEW s, Join(v, j, s), UNCHANGED heard
      PROVE  DrawerInv'
    <2>1. /\ joined[j] = "none" /\ by' = [by EXCEPT ![j] = v]
          /\ joined' = [joined EXCEPT ![j] = "asked"]
          /\ store'.messages = store.messages
        BY <1>0, <1>9 DEF Join, Fresh, Keeps, setLocalStream, Stores
    <2>2. /\ by[j] \notin Meetings /\ by'[j] = v /\ joined'[j] = "asked"
          /\ \A k \in Joins : k # j => by'[k] = by[k] /\ joined'[k] = joined[k]
        BY <1>0, <2>1 DEF JoinType
    <2>3. \A a \in DOMAIN store.messages : \E k \in Joins : by'[k] = store.messages[a][1]
        BY <1>0, <2>2 DEF DrawerInv
    <2>6. ASSUME NEW k \in Joins, by'[k] \in Meetings, JoinedOnce(by[k])'
          PROVE  /\ Rising(store.messages, by'[k])
                 /\ joined'[k] = "greeted" => NoGap(store.messages, by'[k], heard[k])
        <3>0. \A i, l \in Joins : by'[i] = by'[k] /\ by'[l] = by'[k] => i = l
            BY <2>6 DEF JoinedOnce
        <3>1. CASE by'[k] = v
            <4>1. \A l \in Joins : by[l] # v
                BY <2>2, <3>0, <3>1
            <4>2. \A a \in DOMAIN store.messages : store.messages[a][1] # v
                BY <4>1 DEF DrawerInv
            <4> QED BY <3>1, <4>2 DEF Rising, NoGap
        <3>2. CASE by'[k] # v
            <4>1. k # j /\ by'[k] = by[k] /\ joined'[k] = joined[k]
                BY <2>2, <3>2
            <4>2. JoinedOnce(by[k])
                BY <2>2, <2>6, <3>0, <4>1 DEF JoinedOnce
            <4> QED BY <2>6, <4>1, <4>2 DEF DrawerInv
        <3> QED BY <3>1, <3>2
    <2>7. NoTwice(store.messages)
        BY DEF DrawerInv
    <2> QED BY <1>9, <2>1, <2>3, <2>6, <2>7 DEF DrawerInv
<1>10. ASSUME NEW s \in Streams, NEW j \in Joins, Granted(s, j) PROVE DrawerInv'
    BY <1>9, <1>10 DEF Granted, Belongs
<1>11. ASSUME NEW j \in Joins, JoinWithout(j) PROVE DrawerInv'
    BY <1>9, <1>11 DEF JoinWithout, OffersMedia, Showing, Belongs
<1>12. ASSUME NEW j \in Joins,
              JoinAnswered(j) \/ JoinFailed(j) \/ ReadHistory(j) \/ HistoryFailed(j)
              \/ Drop(j)
       PROVE  DrawerInv'
    <2>1. /\ UNCHANGED <<by, store>>
          /\ heard' = heard \/ (heard' = [heard EXCEPT ![j] = 0] /\ Drop(j))
          /\ joined' = joined \/ \E x \in {"open", "closed", "down"} : joined' = [joined EXCEPT ![j] = x]
        <3>1. CASE Drop(j)
            BY <1>0, <3>1 DEF Drop, shared, JoinType
        <3>2. CASE ~ Drop(j)
            BY <1>12, <3>2 DEF JoinAnswered, JoinFailed, ReadHistory, HistoryFailed, shared
        <3> QED BY <3>1, <3>2
    <2>2. Drop(j) => joined'[j] # "greeted"
        BY <1>0 DEF Drop, JoinType
    <2>3. \A k \in Joins : joined'[k] = "greeted" =>
                                joined[k] = "greeted" /\ heard'[k] = heard[k]
        BY <1>0, <2>1, <2>2 DEF JoinType
    <2> QED BY <1>1, <2>1, <2>3
<1>13. ASSUME NEW j \in Joins, HistoryAnswered(j) PROVE DrawerInv'
    <2>1. /\ by[j] \in Meetings /\ history[j] \in Nat
          /\ UNCHANGED <<by, heard>>
          /\ store' = setMessages(store, Chat(by[j], history[j]))
        BY <1>13 DEF HistoryAnswered, Keeps, TakesHistory, Belongs, Done
    <2> DEFINE q == Chat(by[j], history[j])
    <2>2. store'.messages = q
        BY <1>0, <2>1 DEF setMessages, Stores
    <2>3. /\ NoTwice(q) /\ \A a \in DOMAIN q : q[a][1] = by[j]
          /\ \A w : Rising(q, w)
          /\ \A h \in Nat : NoGap(q, by[j], h)
        BY <2>1, HistoryIs
    <2> HIDE DEF q
    <2>4. \A w : \A h : w # by[j] => NoGap(q, w, h)
        BY <2>3 DEF NoGap
    <2>5. \A k \in Joins : NoGap(q, by[k], heard[k])
        <3>1. \A k \in Joins : heard[k] \in Nat
            BY <1>0 DEF JoinType
        <3> QED BY <2>3, <2>4, <3>1
    <2> QED BY <2>1, <2>2, <2>3, <2>5 DEF DrawerInv, JoinedOnce
<1>14. ASSUME NEW j \in Joins, RoomState(j) PROVE DrawerInv'
    <2>1. /\ by[j] \in Meetings /\ UNCHANGED by
          /\ heard' = [heard EXCEPT ![j] = log[by[j]]]
          /\ joined' = [joined EXCEPT ![j] = "greeted"]
          /\ store'.messages = store.messages
        BY <1>0, <1>14 DEF RoomState, Replaces, setRoomState, Stores, Belongs
    <2>2. /\ heard'[j] = log[by[j]] /\ log[by[j]] \in Nat
          /\ \A k \in Joins : k # j => heard'[k] = heard[k] /\ joined'[k] = joined[k]
        BY <1>0, <2>1 DEF JoinType, MeetingType
    <2>3. NoGap(store.messages, by[j], log[by[j]])
        <3> DEFINE q == store.messages
                   h == log[by[j]]
        <3>0. \A a \in DOMAIN q : q[a][2] \in Nat /\ q[a][2] <= log[q[a][1]]
            <4>1. \A a \in DOMAIN q : q[a] \in Messages
                BY <1>0 DEF Stores
            <4>2. \A x \in Messages : x[2] \in Nat
                BY DEF Messages
            <4> QED BY <4>1, <4>2 DEF Sent
        <3>1. h \in Nat
            BY <2>2
        <3>2. \A a \in DOMAIN q : q[a][1] = by[j] => q[a][2] \in Nat /\ q[a][2] <= h
            BY <3>0
        <3> HIDE DEF q, h
        <3>3. \A a \in DOMAIN q : q[a][1] = by[j] => (h + 1)..q[a][2] = {}
            BY <3>1, <3>2
        <3>4. NoGap(q, by[j], h)
            BY <3>3 DEF NoGap
        <3> QED BY <3>4 DEF q, h
    <2>5. \A k \in Joins : by[k] \in Meetings /\ JoinedOnce(by[k]) =>
              /\ Rising(store.messages, by[k])
              /\ joined'[k] = "greeted" => NoGap(store.messages, by[k], heard'[k])
        BY <2>2, <2>3 DEF DrawerInv
    <2> QED BY <2>1, <2>5 DEF DrawerInv, JoinedOnce
<1>15. ASSUME NEW j \in Joins, PeerJoined(j) \/ PeerLeft(j) PROVE DrawerInv'
    <2>1. \E r : Replaces(upsertParticipant(store, r)) \/ Replaces(removeParticipant(store, r))
        BY <1>15 DEF PeerJoined, PeerLeft
    <2>2. store'.messages = store.messages
        BY <1>0, <2>1 DEF Replaces, upsertParticipant, removeParticipant, Stores
    <2> QED BY <1>1, <1>15, <2>2 DEF PeerJoined, PeerLeft, joins
<1>16. ASSUME NEW j \in Joins, ChatMessage(j) PROVE DrawerInv'
    <2>1. /\ by[j] \in Meetings /\ heard[j] \in Nat /\ joined[j] = "greeted"
          /\ UNCHANGED <<by, joined>> /\ heard' = [heard EXCEPT ![j] = @ + 1]
          /\ store' = addMessage(store, <<by[j], heard[j] + 1>>)
        BY <1>0, <1>16 DEF ChatMessage, Receive, Keeps, Belongs, JoinType
    <2>2. /\ heard'[j] = heard[j] + 1
          /\ \A k \in Joins : k # j => heard'[k] = heard[k]
        BY <1>0, <2>1 DEF JoinType
    <2> DEFINE q == store.messages
               r == store'.messages
    <2>3. r = addMessage(store, <<by[j], heard[j] + 1>>).messages
        BY <2>1
    <2>4. /\ NoTwice(q) => NoTwice(r)
          /\ \A a \in DOMAIN r : r[a] = <<by[j], heard[j] + 1>> \/ \E b \in DOMAIN q : r[a] = q[b]
          /\ Rising(q, by[j]) /\ NoGap(q, by[j], heard[j]) =>
                Rising(r, by[j]) /\ NoGap(r, by[j], heard[j] + 1)
          /\ \A w : \A k : w # by[j] =>
                 /\ Rising(q, w) => Rising(r, w)
                 /\ NoGap(q, w, k) => NoGap(r, w, k)
        <3> DEFINE v == by[j]
                   h == heard[j]
        <3>1. store \in Stores
            BY <1>0
        <3>2. v \in Meetings /\ h \in Nat
            BY <2>1
        <3>3. q = store.messages /\ r = addMessage(store, <<v, h + 1>>).messages
            BY <2>3
        <3> HIDE DEF q, r, v, h
        <3>4. OneLater(q, r, v, h)
            BY <3>1, <3>2, <3>3, LiveMessageIs
        <3> QED BY <3>4 DEF v, h, OneLater
    <2> HIDE DEF q, r
    <2>5. NoTwice(r)
        BY <2>4 DEF DrawerInv, q
    <2>6. \A a \in DOMAIN r : \E k \in Joins : by[k] = r[a][1]
        BY <2>4 DEF DrawerInv, q
    <2>7. ASSUME NEW k \in Joins, by[k] \in Meetings, JoinedOnce(by[k])
          PROVE  /\ Rising(r, by[k])
                 /\ joined[k] = "greeted" => NoGap(r, by[k], heard'[k])
        <3>1. /\ Rising(q, by[k])
              /\ joined[k] = "greeted" => NoGap(q, by[k], heard[k])
            BY <2>7 DEF DrawerInv, q
        <3>2. CASE k = j
            BY <2>1, <2>2, <2>4, <3>1, <3>2
        <3>3. CASE k # j
            <4>1. by[k] # by[j] /\ heard'[k] = heard[k]
                BY <2>2, <2>7, <3>3 DEF JoinedOnce
            <4> QED BY <2>4, <3>1, <4>1
        <3> QED BY <3>2, <3>3
    <2> QED BY <2>1, <2>5, <2>6, <2>7 DEF DrawerInv, JoinedOnce, r
<1>17. ASSUME NEW j \in Joins, Removed(j) \/ Ended(j) PROVE DrawerInv'
    BY <1>3, <1>17 DEF Removed, Ended, leave, teardown, Reset, Replaces
<1>18. CASE SendMessage
    BY <1>1, <1>18 DEF SendMessage, joins, shared
<1>19. ASSUME NEW v \in 1..visit, TheySend(v) PROVE DrawerInv'
    BY <1>1, <1>19 DEF TheySend, joins, shared
<1> QED BY <1>4, <1>5, <1>6, <1>7, <1>10, <1>11, <1>12, <1>13, <1>14, <1>15, <1>16,
           <1>17, <1>18, <1>19 DEF Next

(* The drawer shows no message twice, and to a visit that joined once none    *)
(* before an earlier one, in whatever order the history and the live messages  *)
(* of any number of visits come (addMessage, setMessages, handleFrame).         *)
THEOREM DrawerInOrderHolds == Spec => []DrawerInOrder
<1>1. Init => Sent /\ DrawerInv
    <2> SUFFICES ASSUME Init PROVE Sent /\ DrawerInv
        OBVIOUS
    <2>1. DOMAIN store.messages = {}
        BY DEF Init, initialState
    <2>2. \A j \in Joins : by[j] \notin Meetings /\ history[j] \notin Nat
        BY DEF Init, Meetings, Done
    <2> QED BY <2>1, <2>2 DEF Sent, DrawerInv, NoTwice
<1>2. Inv /\ Sent /\ DrawerInv /\ [Next]_vars => (Sent /\ DrawerInv)'
    BY SentStep, DrawerStep DEF Inv
<1>3. Inv /\ DrawerInv => DrawerInOrder
    <2> SUFFICES ASSUME Inv, DrawerInv,
                        NEW a \in DOMAIN store.messages, NEW b \in DOMAIN store.messages, a < b
                 PROVE  /\ store.messages[a] # store.messages[b]
                        /\ store.messages[a][1] = store.messages[b][1]
                              /\ JoinedOnce(store.messages[a][1])
                              => store.messages[a][2] < store.messages[b][2]
        BY DEF DrawerInOrder
    <2>1. store.messages[a][1] \in Meetings
        <3>1. store.messages[a] \in Messages
            BY TypeParts DEF Inv, Types, Stores
        <3> QED BY <3>1 DEF Messages
    <2>2. PICK j \in Joins : by[j] = store.messages[a][1]
        BY DEF DrawerInv
    <2> QED BY <2>1, <2>2 DEF DrawerInv, NoTwice, Rising
<1> QED BY <1>1, <1>2, <1>3, InvHolds, PTL DEF Spec
=============================================================================
