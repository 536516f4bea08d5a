# A verification model of the meeting application

The repository is a video-meeting web application: a FastAPI server
(`src/api`, one uvicorn worker, SQLite through SQLAlchemy) and a Next.js client
(`src/web`) whose participants send each other audio and video over a WebRTC
mesh. The server never touches media: it keeps meetings and participants in
two tables, and one WebSocket per participant through which it announces who is
there and relays offers, answers and candidates.

This directory holds TLA+ models of the parts in which several actors, or
several promises of one actor, work on the same state, TLC configurations that
check them on small instances, and proofs, checked by TLAPS, that their
safety properties hold for instances of every size. `PROJECT.json` lists
components, runs, the source lines behind each definition, the disagreements
found, the theorems, and the hazards the properties are for.

## 1. Inventory

| Component | State | Operations | Interacts with | Modelled in |
|---|---|---|---|---|
| Meeting lifecycle (`services/meeting_service.py`) | `meetings.status`, `started_at`, `ended_at` | create, update, start, end, cancel, host's join | participants rows (end evicts), REST threads | `Room`, `HostMeetings`; as the pages see it `HostPages` |
| Meeting lists and cursors (`list_for_host`) | the rows of one host | the four lists, page after page | rows that change meanwhile | `HostMeetings` |
| Meeting numbers, passcodes, invite tokens (`services/security.py`) | unique index on numbers | draw, insert, compare | creation, join | not modelled, section 7 |
| Participants rows, registry, socket handlers (`participant_service.py`, `realtime/`, `signaling_service.py`) | one row per join; sockets by meeting; one coroutine per socket | join, remove, connect, admit, announce, `host.remove`, `host.end`, teardown | meeting status, every client | `Room`; the relay in `Mesh`, the refusal in `SignalingClient` |
| Mute and video flags | the row, the buttons, the tracks, every tile | `state.update`, `host.mute`, `host.mute_all`, toggles | socket, store | `Media` |
| `SignalingClient` | socket, queue, attempts, timers | connect, send, close, `onopen`, `onclose`, retry | server's acceptance of a socket, the page | `SignalingClient` |
| `PeerManager` and its dispatch | a Map of peer connections, queued candidates | addPeer, handleSignal, removePeer, destroy | frames in, signals out | `Mesh` |
| Room page, gate and devices (`MeetingRoom.tsx`, `PreJoinGate.tsx`, `mediaDevices.ts`) | phase, refs, streams | camera prompt, join, frames, leave, end, unmount | store, socket, browser | `RoomPage` |
| Meeting store (`store/meetingStore.ts`) | participants, self, messages, stream, cached order | set, upsert, remove, reset | every visit of the tab | `MeetingStore`, driven by `RoomPage` |
| Chat (`chat_service.py`, `ChatDrawer.tsx`) | `chat_messages`, the list in the store | send, broadcast, history | socket, REST | `RoomPage` |
| Joining pages (`components/join/`) | number, lookup, passcode, recent numbers | type, choose, submit, lookup, guest, join | other tabs, session | `Entry` |
| Scheduling, meeting list, home tiles | list, selection, confirmation, form | tabs, start, edit, delete, save, instant meeting | REST, other devices | `HostPages`, times in `Datetime` |
| Session, settings and sign-in on the client (`lib/session.ts`, `AuthProvider.tsx`, `SettingsModal.tsx`) | token in localStorage, a copy per tab, preferences on screen | sign in, sign out, restore, load, save | all tabs of the browser | `Account` |
| Client HTTP layer (`lib/api.ts`) | a request | answer, refusal, time-out after 15 s | all pages | in `Entry`, `HostPages`, `RoomPage` |
| Users, preferences, tokens on the server; cache; ICE list; database and seed; HTTP layer of the server; home page, shell, marketing | - | - | - | not modelled, section 7 |

Who runs what, which decides the atomic steps:

* WebSocket handlers are coroutines of one event loop. Between two awaits a
  handler runs alone with respect to other handlers. Each stretch is an action,
  and `pc` names the await a handler is suspended at.
* REST handlers are plain functions and run in a thread pool, at the same time
  as each other and as the event loop. A SELECT opens no transaction and SQLite
  takes its write lock at the first write, so a request reads and decides in
  one step and writes in a later one, and a decision may be out of date when it
  is written.
* SQLAlchemy writes only the columns whose value changed since they were
  loaded, so what a request read also decides which columns it writes.
* Nothing is cleaned up when the process starts (`main.py`, `lifespan`): the
  rows of the last process survive it.
* A browser runs callbacks one at a time, but `handleFrame` does not await what
  it starts: a frame may be handled while the promises of an earlier one are
  pending.
* A promise outlives the page that started it. React drops what an unmounted
  page sets, but the refs, the store, localStorage, the router and the server
  are still there. So a visit, a submission and a request are objects of their
  own in the models, and "is its page still there" is a part of their state.
* Tabs of a browser share localStorage, and hear of each other's writes by
  storage events that come later.

The behaviours that are hard to test follow from this: joins that race for the
last seat, requests that race each other through the lifecycle, a fast
reconnect that has two sockets for one row, teardowns that run after the row
has moved on, a host removed between the awaits of another host's command, two
clients that enter at the same time, candidates that overtake descriptions, a
camera prompt answered after the page was left, a chat history that arrives
among live messages, a lookup answered for a number that was typed over, a list
that is paged through while it changes, sign-ins that end in another tab. The 40 hazards of
`PROJECT.json` name the line at which each bites and the property that watches
it.

What makes each component correct, in a sentence: the registry holds exactly the
sockets still to be torn down, a present row is bound to the newest socket of
its participant, no client loses or keeps a wrong participant, and no more than
`MAX_MESH_PARTICIPANTS` are connected (room); one side of each pair makes the
offer and both reach the end of the exchange (mesh); frames leave once, in
order, over one socket (signaling client); whoever is shown muted is not heard
(media flags); what a visit was granted is released, what it shows as live is
connected, and its chat is in order (room page); what a joining page knows is
about the number it shows, and every submission ends (entry); one request
changes things at a time, and a form saves to its own meeting at its own time
(host pages); every tab shows the stored session or is about to be told
(account); a walk through a list neither skips nor repeats (host meetings).

## 2. Modules

| Module | What it is |
|---|---|
| `Room` | One meeting on the server: rows, registry, handlers, REST requests, and the roster each client has been told. |
| `Seats` | What the room promises about the mesh, without how: bounded seats, taken one at a time, never retaken by a row that left. |
| `RoomMC` | `Room` with model values and symmetry sets for TLC. |
| `HostMeetings`, `HostMeetingsMC` | The meetings rows of one host, the four lists, and a walk through the pages of one; the instance for TLC. |
| `Mesh` | The `PeerManager` of every client, the dispatch that drives it, and the relay between them. |
| `SignalingClient` | The socket of one client and the server's decision about each socket it opens. |
| `Media` | One participant's mute and video flags in the five places that keep them. |
| `MeetingStore` | The operations of the client's store, as functions from store to store. |
| `RoomPage` | The meeting page of one tab through several visits: gate, camera, join, socket frames, chat, leaving. Extends `MeetingStore`. |
| `Entry` | The join form and the invite page, with lookups, guest sign-ins, joins and the recent numbers. |
| `Datetime` | Splitting a time for the schedule form and putting it together again. |
| `HostPages`, `HostPagesMC` | Tiles, lists and the schedule form of a host, and their requests. Extends `Datetime`; the instance for TLC. |
| `Account`, `AccountMC` | The session in several tabs, and the settings dialog; the instance for TLC. |
| `RoomProofs`, `MeshProofs`, `SignalingClientProofs`, `MediaProofs`, `RoomPageProofs`, `EntryProofs`, `HostProofs`, `AccountProofs` | The theorems of section 4; `HostProofs` is about `HostPages` and `HostMeetings`. |

Each model is small enough to be its own root for model checking. They meet as
follows. `Room` says when a participants row is open and which socket it is bound
to; `Mesh`, `SignalingClient` and `Media` take from it only that a row whose bound
socket is torn down is closed, and that a socket presenting a closed row is
accepted, told and closed. `RoomPage` creates what these three model, one socket
and one `PeerManager` per join, and takes from them that the frames of one socket
come in order, `room.state` first. `Entry` and `HostPages` end where `RoomPage`
begins; they and `RoomPage` read whether a token is stored, which `Account`
decides. `HostPages` treats a request to the server as one step, `HostMeetings`
says what that step does to the rows and lists, and `Room` takes it apart.

### Room

`row` is a participants row (`none`, `open` for `left_at IS NULL`, `left`),
`owner` its `connection_id`. `entry` and `added` are the registry: the order of
arrival of each socket. `pc` is the await of a handler:

| `pc` | suspended in `router.py` at |
|---|---|
| `accepting` | `websocket.accept()` |
| `greeting` | sending `room.state` |
| `looping` | `receive_json()` (the announcement is already handed out) |
| `removeTelling`, `removeClosing` | `_handle_host_remove`: the frame to the target, then the broadcast |
| `ending`, `closing` | `_handle_host_end`: the broadcast, then closing the sockets one by one |
| `refused`, `done`, `lost` | over: refused for space, torn down, died with its process |

`roster[c]` is what the client behind `c` shows once it has applied what it was
sent. Frames to one socket are delivered in order (the connection's lock), so
the set after the last of them is well defined. A REST request is a `...Check`
and a `...Commit` action, `req[t]` carrying what it decided in between;
`clears` remembers whether the value it will set to NULL was set when it read
it. `end` is the exception inside its commit: it selects the rows to evict after
the UPDATE of the meeting was flushed, that is under the lock. `Close` keeps
one subtlety of the runtime: closing the socket of a handler that is suspended
in `receive_json` may still let it process one frame. `Restart` is a crash of
the process at any moment.

### HostMeetings

`row` maps the ids in use to the columns the lists look at. `Matches`, `Key` and
`Before` are the WHERE and ORDER BY of the four filters, `Past` is
`_apply_cursor`, with SQL's NULL, which compares with nothing. A cursor that has
lost its key is another matter: SQLAlchemy refuses to compare a column with `None`
by `<` or `>` and the request ends with an error (`NextPageFails`), the walk with
it. `Sorted` is any list of the selected rows in that order, of which there is one (`ListIsDetermined`
in section 4). The requests have the names of the functions of
`meeting_service.py`, and the specification is `ListSpec`, of `ListInit` and
`ListNext`: `HostPages` has requests and a `Spec` of its own, and `HostProofs`
extends both. `walk` is what
somebody has seen who asked for page after page; `moved` and `disturbed` record
which rows came, went or changed their key meanwhile, and whether the cursor
itself did: they are there for the properties and nothing reads them.

### Mesh

`peer[c][d].phase` is the signalling state of the connection `c` holds for `d`
together with the promise it is waiting for: createOffer (`offering`), setting
a remote offer (`answering`), creating the answer (`accepted`), setting the
answer (`applying`). `down` and `up` are the frames in flight; `up` doubles as
the client's queue while `link` is down. Client and server notice a loss in
either order: `Drop` or `Teardown` may come first, and until the other follows,
what the client gives to the socket is lost. The model keeps the newest socket of a
client only, merges `authenticate` and admission into `Open`, and loses the
frames in flight at a drop. A participant who returns after its row was closed
is another member of `Clients`, as it is another participant id in the code.

### SignalingClient

`ws[s]` is the `readyState` of the s-th socket and `server[s]` what the server
does with it. Client and server notice the loss of a socket each in its own time
and in either order; a close that the server starts shows first as `closing`, in
which `send` queues while the heartbeat runs and the status is still "open", and
as an `onclose` later (`Up` is true through both). After `close` of the client
the handlers are off, so that CLOSING and CLOSED are one value then.
`delay` is the index of the entry of `RECONNECT_DELAYS_MS` last used.

`Write` is the loop of `flush` and the single write of `send`: any of the sends
may throw, and those frames go to the tail of the queue while the others go out
(`Sorts` is the order in which this leaves them). Browsers do not throw on a
socket that is OPEN; the code provides for it, and `throws` counts how often it
happens, up to `MaxThrows`. A ping (`Heartbeat`) changes something only when its
write throws: then it is queued like any frame. `written` is everything that was
given to some socket, and `threw` the frames whose write threw some time, which
only the properties read. What the server reads is not followed.

### Media

`row` is the pair of flags on the server, `controls` the buttons and `tracks`
the microphone and camera of the client, `initial` what it joined with, `tile`
what a watcher shows. `host.mute` is two actions, since the room is told after
the await of the frame to the target. One watcher stands for all others. The
raised hand behaves like the camera flag and is not repeated.

### RoomPage and MeetingStore

A visit is one mounted `MeetingRoom`, with refs of its own: `signalingRef` is
the join whose socket they hold, `localStreamRef` the stream. Streams and joins
are numbered through all visits, `asker` and `by` name the visit each belongs to,
and their promises resolve whether or not that visit is still on screen.
`history[j]` is the chat request of a join: `Unread` until the server reads it,
then how many messages it read, then `Done`; `heard[j]` is how far in the chat its
connection is, 0 without one. A connection is lost with its frames by `Drop`
(`joined[j]` is then "down", while the page stays live and `SignalingClient`
retries) and greeted again by `RoomState`. When a meeting ends, `served[j]` says what
became of the connection: "told", if `meeting.ended` was handed to its socket;
"late", if it passed `authenticate` before the end and was registered after the
broadcast; "no" otherwise, in which case a connection that is down is refused from
then on. `EndForAll` and `TheyEnd` broadcast, `EndMeeting` is `POST /end`, which
does not. `store` and `selected`, the module-level cache of the order
of the tiles, are shared by all visits, as in the code. `Keeps` and `Replaces`
are the two ways to write the store: with the same Map, or a new one. `Cached` is
the selector's test of its key: a page that mounts, and every write that leaves the
Map in place, goes through it. `Unmount` writes the store without the selector being
run, since the subscriptions of a page are gone before its effect tears down.

### Entry

`page` is what the tab shows; a `task` is one submission or the lookup of an
invite page, at the await it is suspended at (`probe`, `lookup`, `guest`,
`join`), with the values it closed over and whether its page is still there
(`live`). `recents` is the list in localStorage, `cached` the snapshot of this
tab, `told` a storage event not yet delivered; `open` and `active` are the
combobox. Other tabs join, sign in and out, meetings end and start again.

### HostPages and Datetime

`status` is each meeting on the server, `view` and `form` the state of
`MeetingsView` and `ScheduleForm`, `request` what is under way with what it was
asked with. Opening another page orphans the requests of the old one. A request
may be answered, be refused, or be carried out with its answer lost (`Failed`).
`scheduled_start` is the column of the server, which a save writes and a form that
opens later reads. A time is minutes since a midnight, so that it has a date, and
goes through the 12-hour controls of the form with `splitDateAndTime` and
`combineDateAndTime`. `Whens` is what the form can hold, any minute;
`halfHourOptions` is what its selects offer. `form.read` and the `read` of a save
are the time the form was read with, as long as nobody has touched the controls;
only the property looks at them.

### Account

`stored` is the token in localStorage, `cookie` the session of Auth.js, `seen`
what each tab shows, `pending` a storage event on its way to it. `dialog` is the
settings of a tab with the token it rendered with and the token its preferences
were read with; `loads` are its requests, each with whether the effect that
made it has been cleaned up. A load that was answered may go on to list the
devices (`listing`), whose failure the same `catch` turns into the error of the
dialog.

## 3. Runs

| Run | Checks | Instance | States, time |
|---|---|---|---|
| `Room` | `NoLeak`, `OwnerServed`, `OwnerIsNewest`, `RosterComplete`, `NoFalseDeparture` | host and guest, three sockets, one REST request at a time | 734,000, 45 s |
| `RoomCap` | `MeshBounded`, `EndedIsStamped`, `KeepsPromise` (implements `Seats`), `EndDrains` | host and guest, one seat, two sockets, two racing requests | 496,000, 3 min |
| `HostMeetings` | `ListTypeOK`, `SkipsNone`, `InOrder` | three meetings, pages of one row, four filters, two times | 606,000, 25 s |
| `Mesh` | `TypeOK`, `NeverBothInitiate`, `EndsAgree`, `CandidatesApplied`, `Converges` | two clients, two sockets lost | 45,700, 30 s |
| `SignalingClient` | `WrittenInOrder`, `OpenIsServed`, `OneAtATime`, `StaysClosed`, `BackoffGrows`, `Retries` | two delays, four sockets, three frames, two writes that throw | 273,000, 30 s |
| `Media` | `RowMutedMeansMuted`, `VideoReported`, `TileFollowsRow` | two toggles, two host mutes, one drop | 488,000, 10 s |
| `RoomPage` | `LiveIsConnected`, `DrawerInOrder`, `OrderFresh`, `LeavingStopsMedia`, `EndedIsLeft` | two visits, two joins, one stream, two messages, the first meeting may end | 954,000, 2 min |
| `Entry` | `TypeOK`, `OfThisMeeting`, `RecentsSound`, `Settles` | three numbers, two of them meetings, one with a passcode, two tasks, two recent numbers | 735,000, 3 min |
| `HostPages` | `TypeOK`, `OneRequest`, `FormIsTheMeetings` | a meeting at 12:15 and one that may be created, a clock at 23:59, noon as the choice, two requests | 2,145,000, 2 min |
| `Account` | `SessionFollows`, `LoadIsCurrent` | two tabs, two tokens, one sign-in per tab, settings in one tab | 82,900, 10 s |
| `MeshRoles`, `MediaReconnect` | one statement of the repository each, which the code does not keep (section 5) | small | seconds |

`TypeOK` of `Room`, `SignalingClient`, `Media`, `RoomPage` and `Account` is proved
for every instance and not checked again.

Why the bounds are enough to be interesting. Two sockets of one participant
beside one of another is the smallest room in which a late teardown, a stale
`find` and a third party's roster meet, hence three sockets. One seat and two
rows that are joined at the same time is the smallest case in which the first
count is beaten and the second has to hold; with two requests at a time, one
may read the meeting, be overtaken by the whole of another, and commit. Two
sockets of the host are enough for a `host.end` that closes the other's
`host.end`. In the mesh a pair
is the unit: no operation on a connection reads another connection, and what a
third client adds is only its own pairs. (Three clients without drops were also
explored, 2.3 million states, with the same verdict on the invariants.) With two
drops either client loses the network twice, or each of them once. Four sockets
are enough to run past the end of a list of two delays, or to open, lose the
socket and start over; two writes that throw put two frames back in one flush, or
one frame twice. (Five sockets, 1.2 million states, give the same verdict.) Two toggles and two mutes allow each to overtake the
other on both sides of a reconnect.

With pages of one row, each of three meetings may be the cursor, be tied with
the one before it and change while the others stand; two times make ties and
order both happen. (Three times, 7.3 million states, give the same verdict.) Two
visits with two joins are either one visit that joins
twice, or a visit that comes while the promises of the last are pending; one
message of each meeting, or two of one, is enough for the history to overlap,
precede and follow live messages. It is the first of the two meetings that may end:
its end and the frames of it are then met by its own visit, greeted, down or
late, and by the visit after it. Three numbers give the form one with a
passcode, one without and one no meeting has; with two recent numbers the list
overflows. The times of `HostPages` are those at which a 12-hour clock goes
wrong: a meeting at a quarter past noon, which is none of the half hours on offer,
noon itself to change it to, and a clock in the last half hour of a day, from which
the time of a new form is midnight of the next. Two requests are the
smallest number that can overlap, the second of a page that has replaced the
first. Two tabs are the smallest number that hear of each other, and two tokens
are the smallest number with which one session replaces another.

Symmetry is used in `Room`, `Account` and `HostPages` only (sockets, tokens,
requests), where no liveness is checked.

`CHECK_DEADLOCK FALSE` is set in every configuration, because every one of
these systems may come to rest: everybody has left, a bound is used up, the
meetings are cancelled and the clock stands at its bound.

### Fairness

* `Room`: handlers that are ready are run and awaited sends and closes end
  (uvicorn drops a peer that stops answering pings), a request that holds its
  decision writes it, and the handler of a socket closed by the server notices.
  Nobody is obliged to send a frame, to join or to hang up.
* `Mesh`: queued frames are read, started promises settle, `peer.joined` goes
  out. Nobody is obliged to join, leave, or lose the network; `Converges` is
  conditional on both sockets staying up.
* `SignalingClient`: a timer that is due fires. Nothing is assumed of the
  network or the server.
* `RoomPage`: a `meeting.ended` that was handed to a socket which stays up is
  delivered, and handled. That is `WF(Ended(j))`: the action is enabled only for a
  socket that was told, and a socket may go down instead at any time. No socket has to
  stay up, none has to come back, and an end over REST tells none. `EndedIsLeft`
  says accordingly that such a page leaves or loses its socket first.
* `Entry`: a request ends, since `request` in `lib/api.ts` aborts it after 15
  seconds. The user is obliged to nothing, and neither are other tabs.
* `HostPages`, `HostMeetings`, `Account` and `Media`: none; their properties are
  safety.

## 4. What is proved

All theorems are for every value of the constants, under the assumptions named
in the modules (`RoomAssumption`: finitely many rows, at least one seat,
`None` is no row and no socket; `MeshAssumption`: the bound on drops is a
natural number; `ClientAssumption`: at least one delay; `MediaAssumption`:
`None` is not a Boolean; `RoomPageAssumption`: the bounds are natural numbers
and the row of the others is none of ours; `EntryAssumption`,
`NumberAssumption`: meetings are among the numbers, at least one recent number is
kept, and no number is the empty field or the list that was not read yet;
`HostPagesAssumption`: meetings are positive
numbers, the times given are moments and the choices are among the half hours; `HostMeetingsAssumption`: finitely many
positive ids, at least one row on a page, one time and one time in a day;
`TokensAssumption`, `BoundAssumption`: being signed out is not a token, and the
bounds are bounds).

**Room** (`RoomProofs`): `TypeOK`, `NoLeak`, `OwnerServed`, `OwnerIsNewest`,
`RosterComplete`, `MeshBounded`, `EndedIsStamped`, `NoFalseDeparture`, and that
`Spec` implements `Seats`. `EndedIsStamped` is inductive: each commit that writes a
status other than "ended" may clear the stamp, and no other does. Of the rest, none
is inductive alone. `IInv` joins them with

* `WhoOK`: a handler past `authenticate` knows a participant whose row exists,
  without which a binding could name a stranger's socket;
* `TargetOK`: a `host.remove` in progress is about a row already closed, without
  which its broadcast would be a false departure;
* `ReqOK`, `OwnerRow`: a join in progress is about a row no other request and no
  socket has seen, so its insert cannot revive a row;
* `EntryOK`: ranks only grow, so the socket just added is the newest;
* `RosterInv`, `RosterEmpty`: who is on a roster in the windows before
  `room.state` and before `peer.joined`.

`MeshBounded` is then a consequence of the check before a socket is bound:
`Seated` is a subset of the rows present, which are counted in that very step,
and only that step lets anybody be seated. This is the argument for the
second check in `assert_room_has_space`: the bound does not depend on the
first.

**Mesh** (`MeshProofs`), for any set of clients and any number of drops, in
three layers.

* `TypeOK` and `CandidatesApplied`. The invariant adds `Channels`: a frame other
  than `room.state` never names its receiver and no signal is addressed to its
  sender. That is why the dispatch only has to skip itself in `room.state`. The
  proof goes by what can happen to one connection (`Creating`, `Changing`), and
  by the three things that can happen to a channel (`Broadcasting`, `Sending`,
  `Receiving`).
* `NeverBothInitiate`, through `RolesInv`. Whoever is first told of another by
  `peer.joined` takes the initiative, so two clients would both do so only if
  each came after the other. `Wired` is the order of the frames in a channel:
  `room.state` first, nothing of a client after its `peer.left`. `Met` says that
  two open clients are, each, in the other's peers, in a frame on its way, or
  about to be announced; `OneWay` that only one of them can be told by
  `peer.joined` before it knows the other.
* `EndsAgree`, through `Exchanges`. Between an end that offers and one that
  answers there is one offer at most, then one answer at most, and the phases of
  the two ends say where the exchange stands, until one is dead to the other: it
  has left, or a drop has lost its frames.

**SignalingClient** (`SignalingClientProofs`): `TypeOK`, `WrittenInOrder`,
`OpenIsServed`, `OneAtATime`, `StaysClosed`, `BackoffGrows`. The properties
support each other (a retry finds no socket to overlap because a timer is set
only while there is none; a frame sent on an open socket overtakes only frames
thrown back because no others are queued) and need four additions: nothing is in
line that `send` was not given, no timer before the first socket, no close before
it, and which delay the attempt counter stands for. `WrittenInOrder` is about
`Line`, what is written with what is queued behind it. Every write rearranges it,
and `Rearranged` says which rearrangements keep it: those in which nobody but a
thrown frame is overtaken (`Moved`). `Inserted` shows this of a frame sent past
those that wait, `Flushed` of a flush in which any of the sends throw.

**Media** (`MediaProofs`): `TypeOK`, `RowMutedMeansMuted`, `VideoReported`,
`TileFollowsRow`. The invariant behind each says of the frames in flight what
the property says of the moment when they are through: what the row will be is
what the last report that carries the flag says. The lemmas `Reporting` and
`Applying` say how sending and applying a report move that "last".

**RoomPage** (`RoomPageProofs`): `TypeOK`, `OrderFresh`, `LiveIsConnected`,
`LeavingStopsMedia`, `DrawerInOrder`. `CacheSound` says that the cached order is that
of the store or has a key no store has, from which `OrderFresh` follows for a page
that mounts as for one that is there. `StreamHeld` (a visit has one camera prompt
or stream, and what it was granted is in its `localStreamRef`) makes
`LeavingStopsMedia` hold in each step that leaves; `SocketHeld` (what
`signalingRef` holds is a socket of that visit, and the only one if it joined once)
gives `LiveIsConnected`. The chat has an invariant of its own, `DrawerInv`:
beyond order and no message twice in the drawer (`Rising`, `NoTwice`), nothing is
missing between the messages of one meeting in the drawer and what a greeted
socket or the history is still to bring (`NoGap`), which is what makes a history
that replaces the list safe for the order. What a lost connection missed is missed
for good, and a new one starts at the end of the chat.

**Entry** (`EntryProofs`): `TypeOK`, `OfThisMeeting`, `RecentsSound`. The first
part of the invariant is about the page: pages and tasks have
the fields they were given (`Shape`), a page has one task at most (`Alone`),
which is of the number it shows and keeps it from being edited (`Waits`), what a
page knows is of its number (`KnowsItself`), and what a task sends is of its own
(`SendsItsOwn`). The second, `Lists`, is about the recent numbers. `RecentsSound`
alone is not inductive, since the list on offer is replaced under an open
combobox whose highlight stays where it was: that the list on offer is never longer
than the stored one, and that remembering a number never makes the stored one
shorter (`RememberIs`), keep the highlight on the list. `RememberIs` rests on
`WithoutIs`, what `filter` keeps of a list, for which the places kept have to be put
in order; that a set of n places can be, for every n (`AllEnumerable`), is shown by
the least n for which it could not, as `<` on the natural numbers is well-founded.
`Known` joins both parts and the types.

**HostPages** (`HostProofs`): the theorems about the clock (`CombineUndoesSplit`,
which is why an untouched form saves the meeting's time, on the half hour or not;
`SplitUndoesCombine`, which is why what is chosen is what a later form shows;
`NextHalfHourIsNext` and `NewTimeIsOffered`: the time of a new form lies ahead by half
an hour at most, and its selects have it), `TypeOK`, `OneRequest` (a page has
one request that changes something, and its flag is up while it does) and
`FormIsTheMeetings` (a form and its save are of the meeting it was opened for,
and a time nobody touched is saved as it was read, whatever was saved in between).

**HostMeetings** (`HostProofs`): `ListTypeOK`, `SkipsNone` and `InOrder`, for any
table, page size and times. None of them says enough of a walk that is under way.
`WalkInv` does, for one whose cursor was not moved:

* `Table` and `Pages`: an ended row has its time of end, which is why no row of a
  list has a NULL key, and the cursor of a walk that goes on is a row;
* `Complete`: every row of the list that kept its place was shown or comes after the
  cursor. At the end of a walk none comes after it, which is `SkipsNone`;
* `Ordered`: the rows shown that kept their place are still in the list and in its
  order, none after the cursor. The rows of the next page all are after it, and
  so the order holds across pages.

`PageIs` says what one page is (rows of the list, in its order, and all up to the
last of them), `PageKeeps` what it adds to a walk, and `ChangeKeeps` that a change
of the table leaves alone what was shown of rows that do not move. This uses that the
order is strict and transitive; that it is also total, which the comment on
`list_for_host` gives as the reason for the id in it, is why one request has one
answer (`ListIsDetermined`): in every state with `WalkInv`, the rows that a filter and
a cursor with a key select can be listed in exactly one way. Its proof takes the first
place at which two lists of the same rows differ, and builds a list by its last row.

**Account** (`AccountProofs`): `TypeOK`, `SessionFollows`, `LoadIsCurrent`. The
addition is `AskedByDialog`: a request not given up is of the token the open
dialog shows. `TypeOK` of `Account` is proved and has no run of its own.

Only model-checked: the liveness properties (`EndDrains`, `Converges`,
`Retries`, `EndedIsLeft`, `Settles`), since TLAPS proves neither liveness under
fairness nor ENABLED. Every safety property that a run checks is also proved.

## 5. Where the code and its own statements disagree

Each of the following is a run that TLC ends with a counterexample; the quotes
are in `PROJECT.json`.

1. `MeshRoles`: `room.state` lists rows, `peer.joined` follows sockets. Two
   clients that have both joined before either opens a socket each wait for the
   other's offer.
2. `MediaReconnect`: the handler of `room.state` reports the flags of the moment
   of joining and so undoes a host's mute.

Seen while modelling, without a run of their own.

On the server:

* A join that passed its checks before an end is inserted after it
  (`participant_service.py:112`); the ended meeting keeps a present row, the
  phantom the docstring of `end_meeting` speaks of.
* A host whose row another host device has just closed can still mute, remove
  and end: `require_host` never looks at `left_at` (`signaling_service.py:190`).
* Rows closed over REST are announced to nobody, nor is the later end of their
  sockets (`router.py:164`).
* The join check can be passed by more joins than there are seats. From then on
  every socket is refused by the second check until somebody leaves, the rows of
  the refused ones staying open.
* `cancel` and `start` (or the host's join) of one meeting are checked apart and
  both succeed: the status goes from live to cancelled, or from cancelled to
  live, moves that are not in the table at `meeting_service.py:52`. `Room` allows
  both orders.
* A start that read `ended_at` as NULL leaves the stamp of an end that came in
  between: the meeting is live and stamped as over, against the comment at
  `meeting_service.py:529`. `EndedIsStamped` is the half of that comment's
  predicate which holds.
* Once a meeting on the personal number was scheduled, ended or cancelled, the
  next one cannot be created: the unique index has no regard to the status, rows
  are never deleted, and the error of the index is answered with 500. The comment
  at `meeting_service.py:422` takes a collision to mean a live meeting.
* `host_end_meeting` does not consult `TRANSITIONS`: it ends a meeting that is
  scheduled, cancelled or already ended.
* `bind_connection` writes the row `authenticate` read, also when it was closed
  while `accept` was awaited: a left row may carry a `connection_id`.
* `host.remove` closes the newest socket of its target; an older one goes on.
* After a restart, rows stay bound to sockets of the dead process and count as
  present until their participants reconnect or the host ends the meeting.
* `join_meeting` refuses an ended meeting also to its host, who has to start it
  again first.
* `host.mute` broadcasts the flags it wrote before an await; a `state.update` of
  the target in that await is overtaken, and all tiles show the older flags
  until the next update. `TileFollowsRow` is therefore stated without host mutes.
* Between `registry.add` and the `try` that follows it, an exception ends the
  handler without its teardown.
* A cursor whose own key changes shifts the walk; one that was restarted has the
  key NULL, and the next page of `filter=recent` is answered with 500, since
  `_apply_cursor` compares the column with `None` (`meeting_service.py:309-314`).
  `SkipsNone` and `InOrder` except walks whose cursor moved.
* `update_meeting` never reports `duration_clamped` (`meeting_service.py:484-507`),
  so that the note of the cut duration, which the comment at
  `ScheduleForm.tsx:198-201` describes, never appears after an edit.
* Two saves of one meeting, of two tabs or of one whose first save was slow,
  overwrite each other: an edit sends every field as it was read, and there is no
  version to compare.
* `POST /meetings/{n}/end` closes the rows and tells no socket, although
  `api.ts:335` and the docstring of `end_meeting` say that it evicts everyone: the
  pages in the room stay live. They can go on chatting, since `post_message` looks
  neither at the status of the meeting nor at `left_at`. No page calls the route.
* `insert_with_unique_number` asks only the index of `meetings`, while
  `allocate_meeting_number` asks `users` too: a drawn number may be somebody's
  personal one. The users inserted after `allocate_meeting_number`
  (`auth_service.py:115`, `:219`) have no retry.

In the room, on the client:

* `onopen` resets the attempt counter also for sockets the server accepts only
  to close, so a refused client retries every second for good, which the comment
  at `SignalingClient.ts:120-121` says it must not. A client whose drop the
  server noticed first is in that loop, because its row is closed. What it had
  queued is flushed into the first of these sockets and lost.
* A client that joined muted and unmuted later is, after a reconnect, shown
  muted to everybody and to itself while its microphone is live: the handler of
  `room.state` restores the buttons, not the tracks. This is why
  `RowMutedMeansMuted` excludes reconnects of those who joined muted.
* After a reconnect connections are only added: who left during the outage
  stays in the peers Map.
* A camera prompt answered after the page was left leaves the camera on, for
  nothing holds the stream; `LeavingStopsMedia` speaks of streams granted before.
* "Continue without" stays enabled while the prompt is open, so that a visit may
  join twice. The first socket is then held by nobody, yet its frames drive the
  page, and leaving closes only the second. `LiveIsConnected` and the order in
  `DrawerInOrder` are stated for visits that joined once.
* A `joinMeeting` that resolves after its page has gone opens a socket that
  nobody closes; when the room evicts it, it pushes another page.
* A history that arrives late is put into the drawer of the next meeting, and one
  that was read before the last live messages removes them.
* A socket that is refused leaves the page at "joining" for ever.
* A page whose socket is down when its meeting ends is never told: its reconnects
  are refused with 4401, which `onclose` does not look at, and the page stays
  live. The same holds of a socket that `authenticate` let in before the end and that
  was registered after the broadcast: it is greeted in a meeting that is over.
  `EndedIsLeft` speaks of the pages that were told.

Joining, scheduling, session:

* The join of the form is meant to be handed to the room (`handoff.ts:6-11`), but
  nothing takes it, and the room joins a second time.
* A lookup that said "over" is kept while the number stays, also when the
  meeting is started again.
* An invite link with a wrong token to a meeting with a passcode says the
  passcode is not correct, and offers no field for one.
* The cached recent numbers are stale when another tab joined while the form was
  not shown. A submission outlives its page and pulls the user into the room. A
  guest sign-in may overwrite an account signed in meanwhile.
* A meeting at a time that is no half hour, scheduled over the API, is edited with a
  select that has no such option; the form keeps and saves the meeting's own time as
  long as nobody touches the control.
* A click on the tab that is selected already shows the spinner for ever
  (`changeTab` sets `loading`, and no effect runs). A refresh after a deletion
  puts the list of the old tab under the new one.
* The prompt to sign in stays after signing in.
* `MeetingDetail.tsx:117-120` disables Start for a live meeting, while the
  comment at `MeetingsView.tsx:184-186` speaks of rejoining one. A revealed
  passcode stays revealed on the next meeting selected, against "Masked by
  default" (`MeetingDetail.tsx:160`).
* Save is enabled again for the 2.5 seconds in which the form says that the
  duration was cut; a second click creates a second meeting. The timer that then
  leaves the page is never cleared. So does a retry after a time-out whose
  request was carried out.
* Edits made while a save is under way are overwritten (settings) or lost
  (form). After the session changes in another tab, the preferences of the old
  user can be saved with the new token.
* A sign-out in one tab can be undone by the Auth.js bridge of another, whose
  cookie is still there.
* `refreshUser` is not called by anything, though `session.ts:76` and `:120` say
  so; `isLoading` is always false, though `session.ts:254` speaks of a loading
  state.

## 6. What is left

The parts below would add to the project, in this order.

1. `Room`: `PATCH` and `POST /leave` of a participant, which no client calls, and
   a database call that fails between registration and the message loop.
2. The limit of 200 messages of a history, as a window of the log that a client
   shows, and a specification of the chat as that window.
3. The device tests of the settings dialog.

## 7. Not modelled

* Meeting numbers, passcodes, invite tokens and the signing of tokens: random
  strings and cryptography, drawn and compared in one call; the unique index of
  the database decides about a number that is drawn twice. Whether a passcode is right is a
  Boolean in `Entry`.
* Users, preferences and tokens on the server: each call reads or writes one row
  of its caller. Who a caller is enters `Room` as the set of rows that are the
  host's, and `Account` as the token that was answered.
* The cache and the rate limiter: the cache has no caller, the limiter is a
  library configured per route. The ICE list is a pure function of the settings.
* Migrations, seed, schemas, error mapping: no state that outlives a call. The
  start of the process is `Restart` of `Room`.
* Day strip, navigation, marketing pages, toasts, invitation texts, the first
  values of the toggles of the gate, layout: they fetch once and show, or hold
  nothing another part reads. The day strip draws the list `filter=day` answered,
  which is in `HostMeetings`.
* Fields of the schedule form other than time and duration, topics, invitees,
  time zones: single values that go through unchanged.
* The network, the browser's WebSocket, RTCPeerConnection and localStorage,
  SQLite and uvicorn are external: they appear as the nondeterminism the code has
  to live with (drops, delays, the order in which two ends notice) and as the
  guarantees it relies on (order within one socket, a write lock, one callback
  at a time).
