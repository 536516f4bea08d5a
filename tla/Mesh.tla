-------------------------------- MODULE Mesh --------------------------------
(***************************************************************************)
(* The WebRTC mesh of one meeting: the PeerManager of every client, the    *)
(* dispatch of server frames in MeetingRoom.tsx that drives it, and the    *)
(* part of the server they talk through: who is listed by room.state, who  *)
(* hears peer.joined and peer.left, and the relay of signal frames.        *)
(*                                                                         *)
(* The frames to a client and from it travel in order.  The handlers of    *)
(* the client are not awaited by the dispatch, so a frame may be handled   *)
(* while the createOffer, setLocalDescription, ... started for an earlier  *)
(* one are still pending: phase says what a peer connection is waiting     *)
(* for.  A client is one participants row; who comes back after its row    *)
(* was closed is another client.                                           *)
(***************************************************************************)
EXTENDS Integers, Sequences

CONSTANTS
    Clients,
    MaxDrops    \* bound: how many times a network drop may strike

ASSUME MeshAssumption == MaxDrops \in Nat

VARIABLES
    row,        \* the participants row: not there yet, left_at NULL, set
    handler,    \* the server's handler of the newest socket of a client
    link,       \* the socket as the client sees it
    down,       \* frames on their way to a client
    up,         \* frames of a client on their way, or queued while link is down
    peer,       \* peer[c][d]: what PeerManager of c holds for d
    drops

server == <<row, handler>>
vars   == <<server, link, down, up, peer, drops>>

Phases ==
    {"none",        \* not in the peers Map
     "new",         \* created, nothing negotiated
     "offering",    \* addPeer: createOffer and setLocalDescription pending
     "haveLocal",   \* signalingState "have-local-offer"
     "applying",    \* the answer is being set (settingRemoteAnswerPending)
     "answering",   \* the remote offer is being set
     "accepted",    \* it is set, the answer is being created and set
     "stable"}      \* both descriptions set

Peers == [phase : Phases,
          initiator : BOOLEAN,
          pending : BOOLEAN,    \* pendingCandidates is not empty
          trickled : BOOLEAN]   \* bound: one candidate is sent per connection

NoPeer == [phase |-> "none", initiator |-> FALSE, pending |-> FALSE,
           trickled |-> FALSE]

SignalKinds == {"offer", "answer", "ice"}
Frames  == [type : {"peer.joined", "peer.left"} \union SignalKinds, who : Clients]
              \union [type : {"room.state"}, participants : SUBSET Clients]
Signals == [type : SignalKinds, to : Clients]

TypeOK ==
    /\ row \in [Clients -> {"none", "open", "left"}]
    /\ handler \in [Clients -> {"none", "greeting", "looping"}]
    /\ link \in [Clients -> {"none", "up", "down", "closed"}]
    /\ down \in [Clients -> Seq(Frames)]
    /\ up \in [Clients -> Seq(Signals)]
    /\ peer \in [Clients -> [Clients -> Peers]]
    /\ drops \in 0..MaxDrops
    /\ \A c \in Clients : peer[c][c] = NoPeer

Init ==
    /\ row = [c \in Clients |-> "none"]
    /\ handler = [c \in Clients |-> "none"]
    /\ link = [c \in Clients |-> "none"]
    /\ down = [c \in Clients |-> <<>>]
    /\ up = [c \in Clients |-> <<>>]
    /\ peer = [c \in Clients |-> [d \in Clients |-> NoPeer]]
    /\ drops = 0

-----------------------------------------------------------------------------
(* Peer connections *)

Known(p) == p.phase # "none"

(* connection.remoteDescription is not null. *)
HasRemote(p) == p.phase \in {"accepted", "stable"}

(* connection.localDescription is set, so that candidates are gathered. *)
HasLocal(p) == p.phase \in {"haveLocal", "applying", "stable"}

OfferCollision(p) == p.phase \in {"haveLocal", "applying"}

CreatePeer(initiator) ==
    [NoPeer EXCEPT !.phase = IF initiator THEN "offering" ELSE "new",
                   !.initiator = initiator]

(* Faulty variants, here and below, for trying out what the runs can tell    *)
(* apart.                                                                     *)
InitiatesAlways(p, initiator) == IF Known(p) THEN p ELSE CreatePeer(TRUE)
FlushNothing(p) == p

AddPeer(p, initiator) == IF Known(p) THEN p ELSE CreatePeer(initiator)

(* A signal from somebody unknown makes a peer that waits to be offered to. *)
Signalled(p) == IF Known(p) THEN p ELSE CreatePeer(FALSE)

FlushCandidates(p) == [p EXCEPT !.pending = FALSE]

-----------------------------------------------------------------------------
(* The server *)

(* What S is sent reaches those whose socket is up. *)
Broadcast(S, frame) ==
    down' = [d \in Clients |-> IF d \in S /\ link[d] = "up"
                                  THEN Append(down[d], frame) ELSE down[d]]

InRoom == {d \in Clients : handler[d] # "none"}

(* POST /join *)
Join(c) ==
    /\ row[c] = "none"
    /\ row' = [row EXCEPT ![c] = "open"]
    /\ UNCHANGED <<handler, link, down, up, peer, drops>>

(* The socket is accepted, first or again after a drop the server has not   *)
(* noticed; room.state lists every open row, also those without a socket.   *)
Open(c) ==
    /\ row[c] = "open"
    /\ link[c] \in {"none", "down"}
    /\ link' = [link EXCEPT ![c] = "up"]
    /\ handler' = [handler EXCEPT ![c] = "greeting"]
    /\ down' = [down EXCEPT ![c] =
                    <<[type |-> "room.state",
                       participants |-> {d \in Clients : row[d] = "open"}]>>]
    /\ UNCHANGED <<row, up, peer, drops>>

Announce(c) ==
    /\ handler[c] = "greeting"
    /\ handler' = [handler EXCEPT ![c] = "looping"]
    /\ Broadcast(InRoom \ {c}, [type |-> "peer.joined", who |-> c])
    /\ UNCHANGED <<row, link, up, peer, drops>>

(* _handle_signal: relayed to the newest socket of the target if it is in   *)
(* the room; otherwise an error frame goes back, which is only displayed.   *)
Relay(c) ==
    /\ handler[c] = "looping"
    /\ link[c] # "down"
    /\ up[c] # <<>>
    /\ LET signal == Head(up[c])
       IN  Broadcast(InRoom \intersect {signal.to},
                     [type |-> signal.type, who |-> c])
    /\ up' = [up EXCEPT ![c] = Tail(@)]
    /\ UNCHANGED <<server, link, peer, drops>>

(* The server notices a socket that is gone, after its client or before;     *)
(* what it had not read is lost.                                              *)
Teardown(c) ==
    /\ handler[c] = "looping"
    /\ IF link[c] = "up" THEN drops < MaxDrops /\ drops' = drops + 1
                         ELSE UNCHANGED drops
    /\ handler' = [handler EXCEPT ![c] = "none"]
    /\ row' = [row EXCEPT ![c] = "left"]
    /\ Broadcast(InRoom \ {c}, [type |-> "peer.left", who |-> c])
    /\ up' = [up EXCEPT ![c] = IF link[c] = "down" THEN @ ELSE <<>>]
    /\ UNCHANGED <<link, peer>>

-----------------------------------------------------------------------------
(* The client *)

(* The network fails, or has failed for the server already: frames in        *)
(* flight either way are lost; what is sent from now on is queued.           *)
Drop(c) ==
    /\ link[c] = "up"
    /\ IF handler[c] # "none" THEN drops < MaxDrops /\ drops' = drops + 1
                              ELSE UNCHANGED drops
    /\ link' = [link EXCEPT ![c] = "down"]
    /\ down' = [down EXCEPT ![c] = <<>>]
    /\ up' = [up EXCEPT ![c] = <<>>]
    /\ UNCHANGED <<server, peer>>

(* A reconnect after the row was closed: accepted, so that the queue is     *)
(* flushed into the socket, and closed with 4401 at once.                   *)
Refused(c) ==
    /\ row[c] = "left"
    /\ link[c] = "down"
    /\ up[c] # <<>>
    /\ up' = [up EXCEPT ![c] = <<>>]
    /\ UNCHANGED <<server, link, down, peer, drops>>

(* leave: the socket is closed and every connection destroyed. *)
Leave(c) ==
    /\ link[c] \in {"up", "down"}
    /\ link' = [link EXCEPT ![c] = "closed"]
    /\ peer' = [peer EXCEPT ![c] = [d \in Clients |-> NoPeer]]
    /\ down' = [down EXCEPT ![c] = <<>>]
    /\ up' = [up EXCEPT ![c] = IF link[c] = "down" THEN <<>> ELSE @]
    /\ UNCHANGED <<server, drops>>

Send(c, kind, d) == up' = [up EXCEPT ![c] = Append(@, [type |-> kind, to |-> d])]

(* handleFrame is given the next frame, of type kind. *)
Receive(c, kind) ==
    /\ link[c] = "up"
    /\ down[c] # <<>>
    /\ Head(down[c]).type = kind
    /\ down' = [down EXCEPT ![c] = Tail(@)]

ListsItself(c) ==
    /\ Receive(c, "room.state")
    /\ peer' = [peer EXCEPT ![c] = [d \in Clients |->
                    IF d \in Head(down[c]).participants
                       THEN AddPeer(@[d], FALSE) ELSE @[d]]]
    /\ UNCHANGED <<server, link, up, drops>>

AnswerWhenStable(c) ==
    /\ Receive(c, "answer")
    /\ peer' = [peer EXCEPT ![c][Head(down[c]).who] =
                    IF @.phase = "stable" THEN [@ EXCEPT !.phase = "applying"]
                                          ELSE @]
    /\ UNCHANGED <<server, link, up, drops>>

AnswerBeforeSet(c, d) ==
    /\ peer[c][d].phase = "answering"
    /\ peer' = [peer EXCEPT ![c][d] =
                    FlushCandidates([@ EXCEPT !.phase = "accepted"])]
    /\ Send(c, "answer", d)
    /\ UNCHANGED <<server, link, down, drops>>

OnRoomState(c) ==
    /\ Receive(c, "room.state")
    /\ peer' = [peer EXCEPT ![c] = [d \in Clients |->
                    IF d \in Head(down[c]).participants \ {c}
                       THEN AddPeer(@[d], FALSE) ELSE @[d]]]
    /\ UNCHANGED <<server, link, up, drops>>

OnJoined(c) ==
    /\ Receive(c, "peer.joined")
    /\ peer' = [peer EXCEPT ![c][Head(down[c]).who] = AddPeer(@, TRUE)]
    /\ UNCHANGED <<server, link, up, drops>>

OnLeft(c) ==
    /\ Receive(c, "peer.left")
    /\ peer' = [peer EXCEPT ![c][Head(down[c]).who] = NoPeer]
    /\ UNCHANGED <<server, link, up, drops>>

(* handleOffer: the initiator ignores an offer that collides with its own,  *)
(* the other side rolls its own back.                                       *)
OnOffer(c) ==
    /\ Receive(c, "offer")
    /\ peer' = [peer EXCEPT ![c][Head(down[c]).who] =
                    LET p == Signalled(@)
                    IN  IF OfferCollision(p) /\ p.initiator
                           THEN p ELSE [p EXCEPT !.phase = "answering"]]
    /\ UNCHANGED <<server, link, up, drops>>

OnAnswer(c) ==
    /\ Receive(c, "answer")
    /\ peer' = [peer EXCEPT ![c][Head(down[c]).who] =
                    LET p == Signalled(@)
                    IN  IF p.phase = "haveLocal"
                           THEN [p EXCEPT !.phase = "applying"] ELSE p]
    /\ UNCHANGED <<server, link, up, drops>>

(* addCandidate: kept until there is a remote description. *)
OnIce(c) ==
    /\ Receive(c, "ice")
    /\ peer' = [peer EXCEPT ![c][Head(down[c]).who] =
                    LET p == Signalled(@)
                    IN  [p EXCEPT !.pending = @ \/ ~HasRemote(p)]]
    /\ UNCHANGED <<server, link, up, drops>>

(* What addPeer(d, true) does once the offer is made and set. *)
Offered(c, d) ==
    /\ peer[c][d].phase = "offering"
    /\ peer' = [peer EXCEPT ![c][d].phase = "haveLocal"]
    /\ Send(c, "offer", d)
    /\ UNCHANGED <<server, link, down, drops>>

(* setRemoteDescription(offer) is done. *)
Accepted(c, d) ==
    /\ peer[c][d].phase = "answering"
    /\ peer' = [peer EXCEPT ![c][d] =
                    FlushCandidates([@ EXCEPT !.phase = "accepted"])]
    /\ UNCHANGED <<server, link, down, up, drops>>

(* setLocalDescription(answer) is done. *)
Answered(c, d) ==
    /\ peer[c][d].phase = "accepted"
    /\ peer' = [peer EXCEPT ![c][d].phase = "stable"]
    /\ Send(c, "answer", d)
    /\ UNCHANGED <<server, link, down, drops>>

(* setRemoteDescription(answer) is done. *)
Applied(c, d) ==
    /\ peer[c][d].phase = "applying"
    /\ peer' = [peer EXCEPT ![c][d] =
                    FlushCandidates([@ EXCEPT !.phase = "stable"])]
    /\ UNCHANGED <<server, link, down, up, drops>>

(* onicecandidate *)
Trickle(c, d) ==
    /\ HasLocal(peer[c][d])
    /\ ~peer[c][d].trickled
    /\ peer' = [peer EXCEPT ![c][d].trickled = TRUE]
    /\ Send(c, "ice", d)
    /\ UNCHANGED <<server, link, down, drops>>

Deliver(c) == \/ OnRoomState(c) \/ OnJoined(c) \/ OnLeft(c)
              \/ OnOffer(c) \/ OnAnswer(c) \/ OnIce(c)

Negotiate(c, d) == \/ Offered(c, d) \/ Accepted(c, d) \/ Answered(c, d)
                   \/ Applied(c, d)

Next ==
    \E c \in Clients :
        \/ Join(c) \/ Open(c) \/ Announce(c) \/ Relay(c) \/ Teardown(c)
        \/ Drop(c) \/ Refused(c) \/ Leave(c)
        \/ Deliver(c)
        \/ \E d \in Clients : Negotiate(c, d) \/ Trickle(c, d)

Spec == Init /\ [][Next]_vars

-----------------------------------------------------------------------------
(* Properties *)

(* Glare cannot happen (addPeer, "which is what makes glare impossible"):   *)
(* never do both sides of a pair take the initiative, however admissions,   *)
(* drops and reconnects of the two overlap.                                  *)
NeverBothInitiate ==
    \A c, d \in Clients : ~(peer[c][d].initiator /\ peer[d][c].initiator)

(* The two ends of a pair agree: when the initiator is done, so is the one  *)
(* that answered, and who has answered was offered to by an initiator that  *)
(* still waits for the answer, is setting it, or is done (handleSignal,      *)
(* handleOffer), unless that end is gone from the peers of either.           *)
EndsAgree ==
    \A c, d \in Clients :
        /\ Known(peer[c][d]) /\ Known(peer[d][c])
        /\ peer[c][d].phase = "stable"
        => IF peer[c][d].initiator
              THEN peer[d][c].phase = "stable"
              ELSE peer[d][c].phase \in {"haveLocal", "applying", "stable"}

(* A candidate that beat the description it belongs to is not forgotten:    *)
(* none is left waiting once the remote description is set (addCandidate,   *)
(* flushCandidates).                                                         *)
CandidatesApplied ==
    \A c, d \in Clients : HasRemote(peer[c][d]) => ~peer[c][d].pending

(* A client that takes the initiative towards another gets its connection   *)
(* set up at both ends, unless one of the two loses its socket meanwhile.   *)
Converges ==
    \A c, d \in Clients :
        peer[c][d].phase = "offering" ~>
            \/ peer[c][d].phase = "stable" /\ peer[d][c].phase = "stable"
            \/ \E e \in {c, d} : link[e] # "up" \/ handler[e] = "none"

(* The server and the browser go on: what is queued is read, what was       *)
(* started ends.  Nobody has to join, to leave or to lose the network.      *)
Fairness ==
    \A c \in Clients :
        /\ WF_vars(Announce(c)) /\ WF_vars(Relay(c)) /\ WF_vars(Deliver(c))
        /\ \A d \in Clients : WF_vars(Negotiate(c, d))

FairSpec == Spec /\ Fairness

(* BLUEPRINT 5.3, "roles are unambiguous": of two clients that know each    *)
(* other, one is the initiator.  The code does not keep this: see the run   *)
(* that finds it violated.                                                   *)
OneInitiates ==
    \A c, d \in Clients :
        c # d /\ Known(peer[c][d]) /\ Known(peer[d][c])
            => peer[c][d].initiator \/ peer[d][c].initiator
=============================================================================
