-------------------------------- MODULE Room --------------------------------
(***************************************************************************)
(* One meeting as the server keeps it: the meetings row, the participants  *)
(* rows and the in-memory socket registry, worked on by two kinds of actor *)
(*                                                                         *)
(*  - the WebSocket handlers (realtime/router.py), coroutines of a single  *)
(*    event loop.  What one does between two awaits is one action here,    *)
(*    and pc[c] names the await the handler of socket c is suspended at;   *)
(*  - the REST requests (routers/meetings.py, routers/participants.py),    *)
(*    plain functions run by a thread pool.  SQLite takes its write lock   *)
(*    at the first UPDATE or INSERT, so each of them reads and decides in  *)
(*    one step (...Check) and writes in a later one (...Commit).           *)
(*                                                                         *)
(* roster[c] is the set of participants the client behind socket c shows   *)
(* once it has applied every frame sent to it so far.                      *)
(***************************************************************************)
EXTENDS Integers, FiniteSets

CONSTANTS
    Participants,   \* ids of participants rows, one per join attempt
    HostRows,       \* the rows whose user_id is meetings.host_id
    Sockets,        \* connection ids, each used for one WebSocket
    Threads,        \* REST requests in progress at the same time
    MaxMesh,        \* MAX_MESH_PARTICIPANTS
    None            \* NULL

ASSUME RoomAssumption ==
    /\ IsFiniteSet(Participants)
    /\ HostRows \subseteq Participants
    /\ MaxMesh \in Nat \ {0}
    /\ None \notin Participants \union Sockets

VARIABLES
    status,     \* meetings.status
    ended,      \* meetings.ended_at IS NOT NULL
    row,        \* participants: no row yet, left_at NULL, left_at set
    owner,      \* participants.connection_id
    entry,      \* the registry: 0, or the rank at which a socket was added
    added,      \* how many sockets were ever added
    pc,         \* where the handler of each socket is suspended
    who,        \* Connection.participant_id
    sock,       \* "open", or closed by the server (see Close)
    target,     \* the participant a host.remove in progress is about
    todo,       \* the sockets a host.end in progress still has to close
    roster,     \* what the client of each socket has been told
    req         \* the REST request each thread is serving

meeting == <<status, ended>>
rows    == <<row, owner>>
registry == <<entry, added>>
sockets == <<registry, pc, who, sock, target, todo, roster>>
vars    == <<meeting, rows, sockets, req>>

Statuses == {"scheduled", "live", "ended", "cancelled"}
Places   == {"idle", "accepting", "greeting", "looping", "removeTelling",
             "removeClosing", "ending", "closing", "refused", "done", "lost"}

(* The handler is between registry.add and its teardown. *)
Serving  == {"greeting", "looping", "removeTelling", "removeClosing",
             "ending", "closing"}

Requests == [op : {"none", "join", "start", "end", "cancel", "remove"},
             p : Participants \union {None},
             live : BOOLEAN,     \* the request will write status = 'live'
             clears : BOOLEAN]   \* it read a value it will set to NULL

Request(op) == [op |-> op, p |-> None, live |-> FALSE, clears |-> FALSE]

NoRequest == Request("none")

TypeOK ==
    /\ status \in Statuses
    /\ ended \in BOOLEAN
    /\ row \in [Participants -> {"none", "open", "left"}]
    /\ owner \in [Participants -> Sockets \union {None}]
    /\ entry \in [Sockets -> Nat]
    /\ added \in Nat
    /\ pc \in [Sockets -> Places]
    /\ who \in [Sockets -> Participants \union {None}]
    /\ sock \in [Sockets -> {"open", "closing", "drained"}]
    /\ target \in [Sockets -> Participants \union {None}]
    /\ todo \in [Sockets -> SUBSET Sockets]
    /\ roster \in [Sockets -> SUBSET Participants]
    /\ req \in [Threads -> Requests]

-----------------------------------------------------------------------------
(* Queries *)

(* left_at IS NULL: the predicate behind every roster and every count. *)
Open == {p \in Participants : row[p] = "open"}

Joinable == status \notin {"ended", "cancelled"}

(* TRANSITIONS *)
Transitions == [s \in Statuses |->
                    CASE s = "scheduled" -> {"live", "cancelled"}
                      [] s = "live"      -> {"ended"}
                      [] s = "ended"     -> {"live"}
                      [] s = "cancelled" -> {}]

CanTransition(s, t) == t \in Transitions[s]

(* registry.connections *)
room == {c \in Sockets : entry[c] # 0}

(* registry.find answers d: the last one added of the sockets of p. *)
IsNewest(d, p) ==
    /\ d \in room
    /\ who[d] = p
    /\ \A e \in room : who[e] = p => entry[e] <= entry[d]

Init ==
    /\ status \in {"scheduled", "live"}
    /\ ended = FALSE
    /\ row = [p \in Participants |-> "none"]
    /\ owner = [p \in Participants |-> None]
    /\ entry = [c \in Sockets |-> 0]
    /\ added = 0
    /\ pc = [c \in Sockets |-> "idle"]
    /\ who = [c \in Sockets |-> None]
    /\ sock = [c \in Sockets |-> "open"]
    /\ target = [c \in Sockets |-> None]
    /\ todo = [c \in Sockets |-> {}]
    /\ roster = [c \in Sockets |-> {}]
    /\ req = [t \in Threads |-> NoRequest]

-----------------------------------------------------------------------------
(* REST requests.  A request that fails its check answers 4xx and changes   *)
(* nothing.  SQLAlchemy's UPDATE carries only the columns whose value        *)
(* differs from the one loaded, which is what "clears" remembers.            *)

Receive(t, r) == /\ req[t] = NoRequest
                 /\ req' = [req EXCEPT ![t] = r]
                 /\ UNCHANGED <<meeting, rows, sockets>>

Answer(t) == req' = [req EXCEPT ![t] = NoRequest]

(* POST /join: joinable, passcode or token given (not modelled: a refusal   *)
(* changes nothing), fewer than MaxMesh rows present.                        *)
JoinCheck(t, p) ==
    /\ row[p] = "none"
    /\ \A u \in Threads : req[u].p # p
    /\ Joinable
    /\ Cardinality(Open) < MaxMesh
    /\ Receive(t, [op |-> "join", p |-> p,
                   live |-> p \in HostRows /\ status # "live",
                   clears |-> ended])

(* Faulty: the stamp is cleared by whoever read one. *)
ClearsStamp(r) ==
    /\ status' = IF r.live THEN "live" ELSE status
    /\ ended' = IF r.clears THEN FALSE ELSE ended

GoLive(r) ==
    /\ status' = IF r.live THEN "live" ELSE status
    /\ ended' = IF r.live /\ r.clears THEN FALSE ELSE ended

JoinCommit(t) ==
    /\ req[t].op = "join"
    /\ row' = [row EXCEPT ![req[t].p] = "open"]
    /\ GoLive(req[t])
    /\ Answer(t)
    /\ UNCHANGED <<owner, sockets>>

StartCheck(t) ==
    /\ CanTransition(status, "live")
    /\ Receive(t, [op |-> "start", p |-> None, live |-> TRUE,
                   clears |-> ended])

StartCommit(t) ==
    /\ req[t].op = "start"
    /\ GoLive(req[t])
    /\ Answer(t)
    /\ UNCHANGED <<rows, sockets>>

CancelCheck(t) ==
    /\ CanTransition(status, "cancelled")
    /\ Receive(t, Request("cancel"))

CancelCommit(t) ==
    /\ req[t].op = "cancel"
    /\ status' = "cancelled"
    /\ Answer(t)
    /\ UNCHANGED <<ended, rows, sockets>>

EndCheck(t) ==
    /\ CanTransition(status, "ended")
    /\ Receive(t, Request("end"))

(* The rows are selected after the UPDATE of the meeting was flushed, that  *)
(* is under the write lock: eviction and transition are one step.  Nothing  *)
(* is told to the sockets.                                                   *)
EvictAll ==
    /\ status' = "ended"
    /\ ended' = TRUE
    /\ row' = [p \in Participants |-> IF p \in Open THEN "left" ELSE row[p]]
    /\ owner' = [p \in Participants |-> IF p \in Open THEN None ELSE owner[p]]

EndCommit(t) ==
    /\ req[t].op = "end"
    /\ EvictAll
    /\ Answer(t)
    /\ UNCHANGED sockets

(* DELETE /participants/{id} by the host, whose own rows are refused. *)
RemoveCheck(t, p) ==
    /\ row[p] # "none"
    /\ p \notin HostRows
    /\ Receive(t, [op |-> "remove", p |-> p, live |-> FALSE,
                   clears |-> owner[p] # None])

RemoveCommit(t) ==
    /\ req[t].op = "remove"
    /\ row' = [row EXCEPT ![req[t].p] = "left"]
    /\ owner' = [owner EXCEPT ![req[t].p] = IF req[t].clears THEN None ELSE @]
    /\ Answer(t)
    /\ UNCHANGED <<meeting, sockets>>

-----------------------------------------------------------------------------
(* Sockets *)

(* Faulty variants, each defined before the definition it replaces when the  *)
(* runs are tried for their power to tell them apart.                         *)
ReuseRank(c) == entry' = [entry EXCEPT ![c] = 0] /\ added' = added - 1
KeepEntry(c) == UNCHANGED registry
KeepOwner(p) == row' = [row EXCEPT ![p] = "left"] /\ UNCHANGED owner
RoomForOneMore == Cardinality(Open) <= MaxMesh + 1
TellOnlyLooping(c, p) ==
    roster' = [d \in Sockets |-> IF d \in room \ {c} /\ pc[d] = "looping"
                                    THEN roster[d] \union {p} ELSE roster[d]]
ForgetWithoutClosing(d) == /\ entry' = [entry EXCEPT ![d] = 0]
                           /\ UNCHANGED <<added, sock>>

Goto(c, place) == pc' = [pc EXCEPT ![c] = place]

MarkLeft(p) == /\ row' = [row EXCEPT ![p] = "left"]
               /\ owner' = [owner EXCEPT ![p] = None]

(* registry.broadcast computes its targets when it is called. *)
TellJoined(c, p) ==
    roster' = [d \in Sockets |-> IF d \in room \ {c}
                                    THEN roster[d] \union {p} ELSE roster[d]]
TellLeft(p) ==
    roster' = [d \in Sockets |-> IF d \in room
                                    THEN roster[d] \ {p} ELSE roster[d]]

(* registry.remove, which does nothing the second time. *)
Deregister(c) == /\ entry' = [entry EXCEPT ![c] = 0]
                 /\ added' = added

(* _close_connection: off the registry, then the close handshake.  A        *)
(* handler suspended in receive_json may still be given one frame; any      *)
(* other finds its socket closed when it next calls receive_json.           *)
Close(d) ==
    /\ Deregister(d)
    /\ sock' = [sock EXCEPT ![d] = IF @ # "drained" /\ pc[d] = "looping"
                                      THEN "closing" ELSE "drained"]

(* The handler of c is given a frame. *)
Handle(c) ==
    /\ pc[c] = "looping"
    /\ sock[c] # "drained"
    /\ sock' = [sock EXCEPT ![c] = IF @ = "closing" THEN "drained" ELSE @]

(* authenticate succeeded; websocket.accept() is awaited.  A refused        *)
(* handshake changes nothing on the server.                                  *)
Connect(c, p) ==
    /\ pc[c] = "idle"
    /\ row[p] = "open"
    /\ Joinable
    /\ who' = [who EXCEPT ![c] = p]
    /\ Goto(c, "accepting")
    /\ UNCHANGED <<meeting, rows, registry, sock, target, todo, roster, req>>

(* assert_room_has_space: strictly more rows present than seats, since the   *)
(* row of the socket itself is one of them.                                   *)
HasSpace == Cardinality(Open) <= MaxMesh

(* assert_room_has_space failed: the entry just added is dropped again, the *)
(* row stays as it is.                                                       *)
Refuse(c) ==
    /\ pc[c] = "accepting"
    /\ ~HasSpace
    /\ Goto(c, "refused")
    /\ who' = [who EXCEPT ![c] = None]
    /\ UNCHANGED <<meeting, rows, registry, sock, target, todo, roster, req>>

(* registry.add, bind_connection, room_snapshot; room.state is being sent.  *)
(* The row is written without a look at what happened since authenticate.   *)
Admit(c) ==
    /\ pc[c] = "accepting"
    /\ HasSpace
    /\ entry' = [entry EXCEPT ![c] = added + 1]
    /\ added' = added + 1
    /\ owner' = [owner EXCEPT ![who[c]] = c]
    /\ roster' = [roster EXCEPT ![c] = Open \union {who[c]}]
    /\ Goto(c, "greeting")
    /\ UNCHANGED <<meeting, row, who, sock, target, todo, req>>

Announce(c) ==
    /\ pc[c] = "greeting"
    /\ TellJoined(c, who[c])
    /\ Goto(c, "looping")
    /\ UNCHANGED <<meeting, rows, registry, who, sock, target, todo, req>>

(* release_connection: only the socket the row is bound to closes it. *)
Releases(c) == owner[who[c]] = c

(* Faulty variant: the answer of release_connection is ignored. *)
TellsAnyway(c) == room

(* Who is sent peer.left: nobody if the row was not this socket's to close. *)
ToldOfLeaving(c) == IF Releases(c) THEN room ELSE {}

(* The socket closed, from either end: _teardown.  The Connection object     *)
(* and the client's roster are gone with it.                                 *)
Teardown(c) ==
    LET p == who[c]
    IN  /\ pc[c] = "looping"
        /\ Deregister(c)
        /\ roster' = [d \in Sockets |->
                          IF d = c THEN {}
                          ELSE IF d \in ToldOfLeaving(c) THEN roster[d] \ {p}
                          ELSE roster[d]]
        /\ IF Releases(c)
              THEN MarkLeft(p)
              ELSE UNCHANGED rows
        /\ who' = [who EXCEPT ![c] = None]
        /\ sock' = [sock EXCEPT ![c] = "drained"]
        /\ Goto(c, "done")
        /\ UNCHANGED <<meeting, target, todo, req>>

(* require_host: role and host_id, both fixed when the row was inserted. *)
HoldsHostTools(c) == who[c] \in HostRows

(* host.remove: mark_left; host.removed_you is being sent to the target. *)
HostRemove(c, p) ==
    /\ Handle(c)
    /\ HoldsHostTools(c)
    /\ row[p] # "none"
    /\ p # who[c]
    /\ MarkLeft(p)
    /\ target' = [target EXCEPT ![c] = p]
    /\ Goto(c, "removeTelling")
    /\ UNCHANGED <<meeting, registry, who, todo, roster, req>>

HostRemoveAnnounce(c) ==
    /\ pc[c] = "removeTelling"
    /\ TellLeft(target[c])
    /\ Goto(c, "removeClosing")
    /\ UNCHANGED <<meeting, rows, registry, who, sock, target, todo, req>>

(* _close_participant: the newest socket of the target, if it has one. *)
HostRemoveClose(c) ==
    /\ pc[c] = "removeClosing"
    /\ \/ \E d \in Sockets : IsNewest(d, target[c]) /\ Close(d)
       \/ /\ \A d \in Sockets : ~IsNewest(d, target[c])
          /\ UNCHANGED <<registry, sock>>
    /\ target' = [target EXCEPT ![c] = None]
    /\ Goto(c, "looping")
    /\ UNCHANGED <<meeting, rows, who, todo, roster, req>>

(* host.end: host_end_meeting; meeting.ended is being broadcast. *)
HostEnd(c) ==
    /\ Handle(c)
    /\ HoldsHostTools(c)
    /\ EvictAll
    /\ Goto(c, "ending")
    /\ UNCHANGED <<registry, who, target, todo, roster, req>>

(* The list of sockets to close is taken when the broadcast is over; the    *)
(* registry's order in which they are closed is left open.                  *)
HostEndList(c) ==
    /\ pc[c] = "ending"
    /\ todo' = [todo EXCEPT ![c] = room \ {c}]
    /\ Goto(c, "closing")
    /\ UNCHANGED <<meeting, rows, registry, who, sock, target, roster, req>>

HostEndClose(c) ==
    /\ pc[c] = "closing"
    /\ \E d \in todo[c] : /\ Close(d)
                           /\ todo' = [todo EXCEPT ![c] = @ \ {d}]
    /\ UNCHANGED <<meeting, rows, pc, who, target, roster, req>>

HostEndDone(c) ==
    /\ pc[c] = "closing"
    /\ todo[c] = {}
    /\ Goto(c, "looping")
    /\ UNCHANGED <<meeting, rows, registry, who, sock, target, todo, roster, req>>

-----------------------------------------------------------------------------
(* The process dies and is started again: the registry, the handlers and    *)
(* the requests in progress are gone, the two tables are as committed and    *)
(* nothing at start-up (init_db) looks at them.                               *)
Restart ==
    /\ entry' = [c \in Sockets |-> 0]
    /\ added' = 0
    /\ pc' = [c \in Sockets |-> IF pc[c] \in Serving \union {"accepting"}
                                    THEN "lost" ELSE pc[c]]
    /\ who' = [c \in Sockets |-> None]
    /\ todo' = [c \in Sockets |-> {}]
    /\ target' = [c \in Sockets |-> None]
    /\ roster' = [c \in Sockets |-> {}]
    /\ req' = [t \in Threads |-> NoRequest]
    /\ sock' = [c \in Sockets |-> IF pc[c] = "idle" THEN "open" ELSE "drained"]
    /\ UNCHANGED <<meeting, rows>>

RestNext(t) ==
    \/ \E p \in Participants : JoinCheck(t, p) \/ RemoveCheck(t, p)
    \/ StartCheck(t) \/ CancelCheck(t) \/ EndCheck(t)
    \/ JoinCommit(t) \/ StartCommit(t) \/ CancelCommit(t) \/ EndCommit(t)
    \/ RemoveCommit(t)

SocketNext(c) ==
    \/ \E p \in Participants : Connect(c, p) \/ HostRemove(c, p)
    \/ Refuse(c) \/ Admit(c) \/ Announce(c) \/ Teardown(c)
    \/ HostRemoveAnnounce(c) \/ HostRemoveClose(c)
    \/ HostEnd(c) \/ HostEndList(c) \/ HostEndClose(c) \/ HostEndDone(c)

Next == \/ \E t \in Threads : RestNext(t)
        \/ \E c \in Sockets : SocketNext(c)
        \/ Restart

Spec == Init /\ [][Next]_vars
-----------------------------------------------------------------------------
(* Safety *)

(* The registry holds a socket only while its handler is still to run the    *)
(* teardown (registry.add / remove, _teardown): no refused or finished       *)
(* socket is ever broadcast to, and no entry is left behind.                  *)
NoLeak ==
    \A c \in room : pc[c] \in Serving

(* A connection_id names a socket of that very participant whose handler     *)
(* will still release it (bind_connection / release_connection), or one that *)
(* died with its process: nothing but a crash leaves a row present for a     *)
(* socket that is gone.                                                       *)
OwnerServed ==
    \A p \in Participants :
        owner[p] # None =>
            \/ who[owner[p]] = p /\ pc[owner[p]] \in Serving
            \/ pc[owner[p]] = "lost"

(* The socket bound to a row is the newest one its participant has in the    *)
(* registry, the one registry.find and host.remove pick.                      *)
OwnerIsNewest ==
    \A p \in Participants :
        owner[p] \in room => IsNewest(owner[p], p)

(* An ended meeting bears its stamp, the key of the list of past meetings, in *)
(* whatever order starts, ends and joins that overlap are committed: none     *)
(* clears a stamp it does not also make void (start_meeting, join_meeting).   *)
(* The converse fails: a start may leave the stamp of an end it overlapped.   *)
EndedIsStamped == status = "ended" => ended

(* Participants who hold a place in the mesh: present, and admitted.          *)
Seated == {p \in Open : owner[p] # None}

(* However many requests pass the count in join_meeting at the same time,    *)
(* never more than MaxMesh participants are present and connected            *)
(* (assert_room_has_space, the second check).                                 *)
MeshBounded == Cardinality(Seated) <= MaxMesh

(* Once the room was told about a participant, everybody connected shows it  *)
(* for as long as it is present, whatever the order in which sockets were    *)
(* admitted, announced, replaced and torn down (room.state, peer.joined).     *)
RosterComplete ==
    \A c, d \in room :
        pc[d] # "greeting" /\ row[who[d]] = "open" => who[d] \in roster[c]

(* Somebody disappears from a client's roster only after its row was closed  *)
(* (release_connection answers None for a socket that was replaced).          *)
NoFalseDeparture ==
    [][\A c \in Sockets, p \in Participants :
           p \in roster[c] \ roster'[c] /\ c \in room' => row'[p] = "left"]_vars

(* The room keeps the promise of Seats: a bounded number of seats, taken one *)
(* at a time, never taken back by a row that left (join_meeting makes a new  *)
(* row for whoever returns; bind_connection may still write to an old one).  *)
Gone == {p \in Participants : row[p] = "left"}

Promise == INSTANCE Seats WITH seated <- Seated, gone <- Gone

KeepsPromise == Promise!Spec

-----------------------------------------------------------------------------
(* Liveness *)

(* A handler that was resumed goes on to its next await, a committed request *)
(* is answered, and the handler of a socket the server closed notices: the   *)
(* sends and closes awaited end, because uvicorn drops a peer that does not  *)
(* answer its pings, and the event loop runs every ready coroutine.           *)
Proceed(c) ==
    \/ Refuse(c) \/ Admit(c) \/ Announce(c)
    \/ HostRemoveAnnounce(c) \/ HostRemoveClose(c)
    \/ HostEndList(c) \/ HostEndClose(c) \/ HostEndDone(c)
    \/ sock[c] # "open" /\ Teardown(c)

Commit(t) == \/ JoinCommit(t) \/ StartCommit(t) \/ CancelCommit(t)
             \/ EndCommit(t) \/ RemoveCommit(t)

Fairness == /\ \A t \in Threads : WF_vars(Commit(t))
            /\ \A c \in Sockets : WF_vars(Proceed(c))

FairSpec == Spec /\ Fairness

(* host.end gets everybody out: each socket the handler lists is torn down,  *)
(* even when it belongs to a second socket of the host that is ending the    *)
(* meeting too (short of a crash of the process).                             *)
EndDrains ==
    \A d \in Sockets : (\E c \in Sockets : d \in todo[c]) ~> pc[d] \in {"done", "lost"}
=============================================================================
