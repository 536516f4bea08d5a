----------------------------- MODULE MeshProofs -----------------------------
(***************************************************************************)
(* Safety of Mesh for any set of clients and any number of drops.          *)
(*                                                                         *)
(* Types and candidates: that nobody ever has a connection to itself, a    *)
(* part of TypeOK, rests on what is in the channels: no frame to a client  *)
(* names it and no signal of a client is addressed to itself.              *)
(*                                                                         *)
(* Who takes the initiative: of two clients, only one is ever told of the  *)
(* other by peer.joined before it has the other in a room.state or in its  *)
(* peers; the order of the frames in a channel, room.state first and       *)
(* nothing of a client after its peer.left, is what keeps it so.           *)
(*                                                                         *)
(* The two ends agree: between an end that offers and one that answers     *)
(* there is one offer at most, then one answer at most, and the phases of  *)
(* the two say where the exchange is, until one is dead to the other.      *)
(***************************************************************************)
EXTENDS Mesh, SequenceTheorems, TLAPS

FramesTo(c)  == {f \in Frames : f.type # "room.state" => f.who # c}
SignalsOf(c) == {s \in Signals : s.to # c}

(* Nobody is told about itself, or writes to itself. *)
Channels ==
    /\ DOMAIN down = Clients /\ \A c \in Clients : down[c] \in Seq(FramesTo(c))
    /\ DOMAIN up = Clients /\ \A c \in Clients : up[c] \in Seq(SignalsOf(c))

IInv == TypeOK /\ Channels /\ CandidatesApplied

USE DEF Phases, SignalKinds

-----------------------------------------------------------------------------
(* Channels and frames *)

(* The two ways a frame is put on its way to clients. *)
LEMMA Broadcasting ==
    ASSUME TypeOK, Channels, NEW S \in SUBSET Clients, NEW frame \in Frames,
           frame.type # "room.state", frame.who \notin S, Broadcast(S, frame)
    PROVE  /\ down' \in [Clients -> Seq(Frames)]
           /\ DOMAIN down' = Clients
           /\ \A d \in Clients : down'[d] \in Seq(FramesTo(d))
<1>1. ASSUME NEW d \in Clients
      PROVE  down'[d] \in Seq(Frames) /\ down'[d] \in Seq(FramesTo(d))
    <2>1. CASE d \in S /\ link[d] = "up"
        <3>1. down'[d] = Append(down[d], frame)
            BY <2>1 DEF Broadcast
        <3>2. frame \in FramesTo(d)
            BY <2>1 DEF FramesTo
        <3> QED BY <3>1, <3>2, AppendProperties DEF TypeOK, Channels
    <2>2. CASE ~(d \in S /\ link[d] = "up")
        BY <2>2 DEF Broadcast, TypeOK, Channels
    <2> QED BY <2>1, <2>2
<1> QED BY <1>1 DEF Broadcast

LEMMA Sending ==
    ASSUME TypeOK, Channels, NEW c \in Clients, NEW d \in Clients, c # d,
           NEW kind \in SignalKinds, Send(c, kind, d)
    PROVE  /\ up' \in [Clients -> Seq(Signals)]
           /\ DOMAIN up' = Clients
           /\ \A e \in Clients : up'[e] \in Seq(SignalsOf(e))
<1> DEFINE s == [type |-> kind, to |-> d]
<1>1. s \in Signals /\ s \in SignalsOf(c)
    BY DEF Signals, SignalsOf
<1>2. up' = [up EXCEPT ![c] = Append(up[c], s)]
    BY DEF Send
<1> HIDE DEF s
<1>3. Append(up[c], s) \in Seq(Signals) /\ Append(up[c], s) \in Seq(SignalsOf(c))
    BY <1>1, AppendProperties DEF TypeOK, Channels
<1> QED BY <1>2, <1>3 DEF TypeOK, Channels

(* The frame that is handled, and what is left of the channel. *)
LEMMA Receiving ==
    ASSUME TypeOK, Channels, NEW c \in Clients, NEW kind, Receive(c, kind)
    PROVE  /\ down' \in [Clients -> Seq(Frames)]
           /\ DOMAIN down' = Clients
           /\ \A d \in Clients : down'[d] \in Seq(FramesTo(d))
           /\ Head(down[c]) \in FramesTo(c)
           /\ Head(down[c]).type = kind
<1>1. down[c] # <<>> /\ down' = [down EXCEPT ![c] = Tail(down[c])]
    BY DEF Receive
<1>2. /\ Tail(down[c]) \in Seq(Frames) /\ Tail(down[c]) \in Seq(FramesTo(c))
      /\ Head(down[c]) \in FramesTo(c)
    BY <1>1, HeadTailProperties DEF TypeOK, Channels
<1> QED BY <1>1, <1>2 DEF TypeOK, Channels, Receive

(* A frame other than room.state names another client. *)
LEMMA Naming ==
    ASSUME NEW c \in Clients, NEW f \in FramesTo(c), f.type # "room.state"
    PROVE  f.who \in Clients /\ f.who # c
BY DEF FramesTo, Frames

(* Nothing is put on the way by who loses the network or leaves. *)
LEMMA Emptying ==
    ASSUME TypeOK, Channels, NEW c \in Clients
    PROVE  /\ [down EXCEPT ![c] = <<>>] \in [Clients -> Seq(Frames)]
           /\ \A d \in Clients :
                 [down EXCEPT ![c] = <<>>][d] \in Seq(FramesTo(d))
           /\ [up EXCEPT ![c] = <<>>] \in [Clients -> Seq(Signals)]
           /\ \A d \in Clients :
                 [up EXCEPT ![c] = <<>>][d] \in Seq(SignalsOf(d))
<1>1. \A d \in Clients :
          /\ <<>> \in Seq(Frames) /\ <<>> \in Seq(FramesTo(d))
          /\ <<>> \in Seq(Signals) /\ <<>> \in Seq(SignalsOf(d))
    OBVIOUS
<1> QED BY <1>1 DEF TypeOK, Channels

-----------------------------------------------------------------------------
(* Peer connections: each way a peer is changed keeps its type and leaves   *)
(* no candidate behind.                                                      *)

Sound(p) == p \in Peers /\ (HasRemote(p) => ~p.pending)

LEMMA Creating == /\ Sound(NoPeer)
                  /\ \A b \in BOOLEAN : Sound(CreatePeer(b))
BY DEF Sound, NoPeer, CreatePeer, Peers, HasRemote

LEMMA Changing ==
    ASSUME NEW p, Sound(p)
    PROVE  /\ \A b \in BOOLEAN : Sound(AddPeer(p, b))
           /\ Sound(Signalled(p))
           /\ \A ph \in Phases \ {"accepted", "stable"} :
                 Sound([p EXCEPT !.phase = ph])
           /\ p.phase = "accepted" => Sound([p EXCEPT !.phase = "stable"])
           /\ \A ph \in Phases : Sound(FlushCandidates([p EXCEPT !.phase = ph]))
           /\ Sound([p EXCEPT !.pending = p.pending \/ ~HasRemote(p)])
           /\ Sound([p EXCEPT !.trickled = TRUE])
<1>1. \A b \in BOOLEAN : Sound(AddPeer(p, b))
    BY Creating DEF AddPeer
<1>2. Sound(Signalled(p))
    BY Creating DEF Signalled
<1>3. \A ph \in Phases \ {"accepted", "stable"} : Sound([p EXCEPT !.phase = ph])
    BY DEF Sound, Peers, HasRemote
<1>4. p.phase = "accepted" => Sound([p EXCEPT !.phase = "stable"])
    BY DEF Sound, Peers, HasRemote
<1>5. \A ph \in Phases : Sound(FlushCandidates([p EXCEPT !.phase = ph]))
    BY DEF Sound, Peers, HasRemote, FlushCandidates
<1>6. Sound([p EXCEPT !.pending = p.pending \/ ~HasRemote(p)])
    <2> DEFINE b == p.pending \/ ~HasRemote(p)
    <2>1. b \in BOOLEAN /\ (HasRemote(p) => ~b)
        BY DEF Sound
    <2> HIDE DEF b
    <2>2. Sound([p EXCEPT !.pending = b])
        BY <2>1 DEF Sound, Peers, HasRemote
    <2> QED BY <2>2 DEF b
<1>7. Sound([p EXCEPT !.trickled = TRUE])
    BY DEF Sound, Peers, HasRemote
<1> QED BY <1>1, <1>2, <1>3, <1>4, <1>5, <1>6, <1>7

(* All peers are sound and nobody is its own. *)
AllSound ==
    /\ peer \in [Clients -> [Clients -> Peers]]
    /\ \A c, d \in Clients : Sound(peer[c][d])
    /\ \A c \in Clients : peer[c][c] = NoPeer

(* One connection is changed. *)
LEMMA OnePeer ==
    ASSUME AllSound, NEW c \in Clients, NEW d \in Clients, c # d,
           NEW p, Sound(p), peer' = [peer EXCEPT ![c][d] = p]
    PROVE  AllSound'
BY DEF AllSound, Sound

LEMMA PeerStep ==
    ASSUME TypeOK, Channels, AllSound, [Next]_vars
    PROVE  AllSound'
<1>1. ASSUME NEW c \in Clients, OnRoomState(c)
      PROVE  AllSound'
    <2> DEFINE S == Head(down[c]).participants \ {c}
               mine == [d \in Clients |-> IF d \in S THEN AddPeer(peer[c][d], FALSE)
                                                    ELSE peer[c][d]]
    <2>1. peer' = [peer EXCEPT ![c] = mine]
        BY <1>1 DEF OnRoomState, AllSound
    <2>2. \A d \in Clients : Sound(mine[d])
        BY Changing DEF AllSound
    <2>3. mine[c] = NoPeer
        BY DEF AllSound
    <2>4. mine \in [Clients -> Peers]
        BY <2>2 DEF Sound
    <2> HIDE DEF mine
    <2> QED BY <2>1, <2>2, <2>3, <2>4 DEF AllSound
<1>2. ASSUME NEW c \in Clients, OnJoined(c)
      PROVE  AllSound'
    <2> DEFINE d == Head(down[c]).who
    <2>1. d \in Clients /\ d # c
        BY <1>2, Receiving, Naming DEF OnJoined
    <2>2. peer' = [peer EXCEPT ![c][d] = AddPeer(peer[c][d], TRUE)]
        BY <1>2 DEF OnJoined
    <2> HIDE DEF d
    <2>3. Sound(AddPeer(peer[c][d], TRUE))
        BY <2>1, Changing DEF AllSound
    <2> QED BY <2>1, <2>2, <2>3, OnePeer
<1>3. ASSUME NEW c \in Clients, OnLeft(c)
      PROVE  AllSound'
    <2> DEFINE d == Head(down[c]).who
    <2>1. d \in Clients /\ d # c
        BY <1>3, Receiving, Naming DEF OnLeft
    <2>2. peer' = [peer EXCEPT ![c][d] = NoPeer]
        BY <1>3 DEF OnLeft
    <2> HIDE DEF d
    <2> QED BY <2>1, <2>2, Creating, OnePeer
<1>4. ASSUME NEW c \in Clients, OnOffer(c)
      PROVE  AllSound'
    <2> DEFINE d == Head(down[c]).who
               p == Signalled(peer[c][d])
               q == IF OfferCollision(p) /\ p.initiator
                       THEN p ELSE [p EXCEPT !.phase = "answering"]
    <2>1. d \in Clients /\ d # c
        BY <1>4, Receiving, Naming DEF OnOffer
    <2>2. peer' = [peer EXCEPT ![c][d] = q]
        BY <1>4 DEF OnOffer
    <2> HIDE DEF d
    <2>3. Sound(p)
        BY <2>1, Changing DEF AllSound
    <2> HIDE DEF p
    <2>4. Sound(q)
        BY <2>3, Changing
    <2> HIDE DEF q
    <2> QED BY <2>1, <2>2, <2>4, OnePeer
<1>5. ASSUME NEW c \in Clients, OnAnswer(c)
      PROVE  AllSound'
    <2> DEFINE d == Head(down[c]).who
               p == Signalled(peer[c][d])
               q == IF p.phase = "haveLocal"
                       THEN [p EXCEPT !.phase = "applying"] ELSE p
    <2>1. d \in Clients /\ d # c
        BY <1>5, Receiving, Naming DEF OnAnswer
    <2>2. peer' = [peer EXCEPT ![c][d] = q]
        BY <1>5 DEF OnAnswer
    <2> HIDE DEF d
    <2>3. Sound(p)
        BY <2>1, Changing DEF AllSound
    <2> HIDE DEF p
    <2>4. Sound(q)
        BY <2>3, Changing
    <2> HIDE DEF q
    <2> QED BY <2>1, <2>2, <2>4, OnePeer
<1>6. ASSUME NEW c \in Clients, OnIce(c)
      PROVE  AllSound'
    <2> DEFINE d == Head(down[c]).who
               p == Signalled(peer[c][d])
               q == [p EXCEPT !.pending = p.pending \/ ~HasRemote(p)]
    <2>1. d \in Clients /\ d # c
        BY <1>6, Receiving, Naming DEF OnIce
    <2>2. peer' = [peer EXCEPT ![c][d] = q]
        BY <1>6 DEF OnIce
    <2> HIDE DEF d
    <2>3. Sound(p)
        BY <2>1, Changing DEF AllSound
    <2> HIDE DEF p
    <2>4. Sound(q)
        BY <2>3, Changing
    <2> HIDE DEF q
    <2> QED BY <2>1, <2>2, <2>4, OnePeer
<1>7. ASSUME NEW c \in Clients, NEW d \in Clients, Negotiate(c, d) \/ Trickle(c, d)
      PROVE  AllSound'
    <2> DEFINE p == peer[c][d]
    <2>1. p.phase # "none"
        BY <1>7 DEF Negotiate, Offered, Accepted, Answered, Applied, Trickle, HasLocal
    <2>2. c # d
        BY <2>1 DEF AllSound, NoPeer
    <2>3. Sound(p)
        BY DEF AllSound
    <2>4. \/ peer' = [peer EXCEPT ![c][d] = [p EXCEPT !.phase = "haveLocal"]]
          \/ peer' = [peer EXCEPT ![c][d] =
                         FlushCandidates([p EXCEPT !.phase = "accepted"])]
          \/ /\ p.phase = "accepted"
             /\ peer' = [peer EXCEPT ![c][d] = [p EXCEPT !.phase = "stable"]]
          \/ peer' = [peer EXCEPT ![c][d] =
                         FlushCandidates([p EXCEPT !.phase = "stable"])]
          \/ peer' = [peer EXCEPT ![c][d] = [p EXCEPT !.trickled = TRUE]]
        BY <1>7 DEF Negotiate, Offered, Accepted, Answered, Applied, Trickle
    <2> HIDE DEF p
    <2> QED BY <2>2, <2>3, <2>4, Changing, OnePeer
<1>8. ASSUME NEW c \in Clients, Leave(c)
      PROVE  AllSound'
    <2>1. peer' = [peer EXCEPT ![c] = [d \in Clients |-> NoPeer]]
        BY <1>8 DEF Leave
    <2> QED BY <2>1, Creating DEF AllSound, Sound
<1>9. CASE UNCHANGED peer
    BY <1>9 DEF AllSound
<1> QED BY <1>1, <1>2, <1>3, <1>4, <1>5, <1>6, <1>7, <1>8, <1>9
        DEF Next, vars, Deliver, Join, Open, Announce, Relay, Teardown, Drop,
            Refused

(* The channels keep their types and name nobody to itself. *)
ChannelTypes == /\ down \in [Clients -> Seq(Frames)]
                /\ up \in [Clients -> Seq(Signals)]

LEMMA ChannelStep ==
    ASSUME TypeOK, Channels, AllSound, [Next]_vars
    PROVE  Channels' /\ ChannelTypes'
<1>1. ASSUME NEW c \in Clients, Open(c)
      PROVE  Channels' /\ ChannelTypes'
    <2> DEFINE f == [type |-> "room.state",
                     participants |-> {d \in Clients : row[d] = "open"}]
    <2>1. f \in Frames /\ f \in FramesTo(c)
        BY DEF Frames, FramesTo
    <2>2. down' = [down EXCEPT ![c] = <<f>>] /\ up' = up
        BY <1>1 DEF Open
    <2> HIDE DEF f
    <2>3. <<f>> \in Seq(Frames) /\ <<f>> \in Seq(FramesTo(c))
        BY <2>1
    <2> QED BY <2>2, <2>3 DEF TypeOK, Channels, ChannelTypes
<1>2. ASSUME NEW c \in Clients, Announce(c)
      PROVE  Channels' /\ ChannelTypes'
    <2> DEFINE f == [type |-> "peer.joined", who |-> c]
    <2>1. /\ f \in Frames /\ f.type # "room.state" /\ f.who = c
          /\ InRoom \ {c} \in SUBSET Clients
        BY DEF Frames, InRoom
    <2>2. Broadcast(InRoom \ {c}, f) /\ up' = up
        BY <1>2 DEF Announce
    <2> HIDE DEF f
    <2> QED BY <2>1, <2>2, Broadcasting DEF TypeOK, Channels, ChannelTypes
<1>3. ASSUME NEW c \in Clients, Relay(c)
      PROVE  Channels' /\ ChannelTypes'
    <2> DEFINE s == Head(up[c])
               f == [type |-> s.type, who |-> c]
    <2>1. up[c] # <<>> /\ up' = [up EXCEPT ![c] = Tail(up[c])]
        BY <1>3 DEF Relay
    <2>2. /\ s \in SignalsOf(c)
          /\ Tail(up[c]) \in Seq(SignalsOf(c)) /\ Tail(up[c]) \in Seq(Signals)
        BY <2>1, HeadTailProperties DEF TypeOK, Channels
    <2>3. s.to # c /\ s.type \in SignalKinds
        BY <2>2 DEF SignalsOf, Signals
    <2>4. Broadcast(InRoom \intersect {s.to}, f)
        BY <1>3 DEF Relay
    <2>5. /\ f \in Frames /\ f.type # "room.state" /\ f.who = c
          /\ InRoom \intersect {s.to} \in SUBSET Clients
          /\ c \notin InRoom \intersect {s.to}
        BY <2>3 DEF Frames, InRoom
    <2> HIDE DEF f, s
    <2>6. /\ down' \in [Clients -> Seq(Frames)] /\ DOMAIN down' = Clients
          /\ \A d \in Clients : down'[d] \in Seq(FramesTo(d))
        BY <2>4, <2>5, Broadcasting
    <2> QED BY <2>1, <2>2, <2>6 DEF TypeOK, Channels, ChannelTypes
<1>4. ASSUME NEW c \in Clients, Teardown(c)
      PROVE  Channels' /\ ChannelTypes'
    <2> DEFINE f == [type |-> "peer.left", who |-> c]
    <2>1. /\ f \in Frames /\ f.type # "room.state" /\ f.who = c
          /\ InRoom \ {c} \in SUBSET Clients
        BY DEF Frames, InRoom
    <2>2. Broadcast(InRoom \ {c}, f)
        BY <1>4 DEF Teardown
    <2>3. up' = up \/ up' = [up EXCEPT ![c] = <<>>]
        BY <1>4 DEF Teardown, TypeOK
    <2> HIDE DEF f
    <2>4. /\ down' \in [Clients -> Seq(Frames)] /\ DOMAIN down' = Clients
          /\ \A d \in Clients : down'[d] \in Seq(FramesTo(d))
        BY <2>1, <2>2, Broadcasting
    <2>5. /\ up' \in [Clients -> Seq(Signals)] /\ DOMAIN up' = Clients
          /\ \A d \in Clients : up'[d] \in Seq(SignalsOf(d))
        <3>1. CASE up' = up
            BY <3>1 DEF TypeOK, Channels
        <3>2. CASE up' = [up EXCEPT ![c] = <<>>]
            BY <3>2, Emptying DEF Channels
        <3> QED BY <2>3, <3>1, <3>2
    <2> QED BY <2>4, <2>5 DEF Channels, ChannelTypes
<1>5. ASSUME NEW c \in Clients, Drop(c) \/ Refused(c) \/ Leave(c)
      PROVE  Channels' /\ ChannelTypes'
    <2>1. /\ down' = down \/ down' = [down EXCEPT ![c] = <<>>]
          /\ up' = up \/ up' = [up EXCEPT ![c] = <<>>]
        BY <1>5 DEF Drop, Refused, Leave, TypeOK
    <2>2. /\ down' \in [Clients -> Seq(Frames)] /\ DOMAIN down' = Clients
          /\ \A d \in Clients : down'[d] \in Seq(FramesTo(d))
        BY <2>1, Emptying DEF TypeOK, Channels
    <2>3. /\ up' \in [Clients -> Seq(Signals)] /\ DOMAIN up' = Clients
          /\ \A d \in Clients : up'[d] \in Seq(SignalsOf(d))
        BY <2>1, Emptying DEF TypeOK, Channels
    <2> QED BY <2>2, <2>3 DEF Channels, ChannelTypes
<1>6. ASSUME NEW c \in Clients, Deliver(c)
      PROVE  Channels' /\ ChannelTypes'
    <2>1. \E kind : Receive(c, kind)
        BY <1>6 DEF Deliver, OnRoomState, OnJoined, OnLeft, OnOffer, OnAnswer, OnIce
    <2>2. up' = up
        BY <1>6 DEF Deliver, OnRoomState, OnJoined, OnLeft, OnOffer, OnAnswer, OnIce
    <2> QED BY <2>1, <2>2, Receiving DEF TypeOK, Channels, ChannelTypes
<1>7. ASSUME NEW c \in Clients, NEW d \in Clients, Negotiate(c, d) \/ Trickle(c, d)
      PROVE  Channels' /\ ChannelTypes'
    <2>1. c # d
        BY <1>7 DEF AllSound, NoPeer, Negotiate, Offered, Accepted, Answered,
                    Applied, Trickle, HasLocal
    <2>2. down' = down
        BY <1>7 DEF Negotiate, Offered, Accepted, Answered, Applied, Trickle
    <2>3. up' = up \/ \E kind \in SignalKinds : Send(c, kind, d)
        BY <1>7 DEF Negotiate, Offered, Accepted, Answered, Applied, Trickle
    <2> QED BY <2>1, <2>2, <2>3, Sending DEF TypeOK, Channels, ChannelTypes
<1>8. CASE UNCHANGED <<down, up>>
    BY <1>8 DEF TypeOK, Channels, ChannelTypes
<1> QED BY <1>1, <1>2, <1>3, <1>4, <1>5, <1>6, <1>7, <1>8 DEF Next, vars, Join

(* The rows, handlers and links. *)
StateTypes ==
    /\ row \in [Clients -> {"none", "open", "left"}]
    /\ handler \in [Clients -> {"none", "greeting", "looping"}]
    /\ link \in [Clients -> {"none", "up", "down", "closed"}]
    /\ drops \in 0..MaxDrops

LEMMA StateStep ==
    ASSUME TypeOK, [Next]_vars
    PROVE  StateTypes'
<1> USE MeshAssumption DEF TypeOK, StateTypes
<1>1. ASSUME NEW c \in Clients, Join(c) \/ Open(c) \/ Announce(c) \/ Teardown(c)
      PROVE  StateTypes'
    <2>1. drops' \in 0..MaxDrops
        BY <1>1 DEF Join, Open, Announce, Teardown
    <2>2. /\ row' \in [Clients -> {"none", "open", "left"}]
          /\ handler' \in [Clients -> {"none", "greeting", "looping"}]
          /\ link' \in [Clients -> {"none", "up", "down", "closed"}]
        BY <1>1 DEF Join, Open, Announce, Teardown
    <2> QED BY <2>1, <2>2
<1>2. ASSUME NEW c \in Clients, Drop(c) \/ Leave(c)
      PROVE  StateTypes'
    <2>1. link' \in [Clients -> {"none", "up", "down", "closed"}]
        BY <1>2 DEF Drop, Leave
    <2>2. drops' \in 0..MaxDrops
        BY <1>2 DEF Drop, Leave
    <2>3. UNCHANGED <<row, handler>>
        BY <1>2 DEF Drop, Leave, server
    <2> QED BY <2>1, <2>2, <2>3
<1>3. CASE UNCHANGED <<row, handler, link, drops>>
    BY <1>3
<1> QED BY <1>1, <1>2, <1>3
        DEF Next, vars, server, Relay, Refused, Deliver, OnRoomState, OnJoined,
            OnLeft, OnOffer, OnAnswer, OnIce, Negotiate, Offered, Accepted,
            Answered, Applied, Trickle

-----------------------------------------------------------------------------

LEMMA Parts == IInv <=> StateTypes /\ ChannelTypes /\ Channels /\ AllSound
BY DEF IInv, TypeOK, StateTypes, ChannelTypes, AllSound, CandidatesApplied, Sound

THEOREM Invariance == Spec => []IInv
<1>1. Init => IInv
    <2> SUFFICES ASSUME Init PROVE IInv
        OBVIOUS
    <2>1. StateTypes
        BY MeshAssumption DEF Init, StateTypes
    <2>2. ChannelTypes /\ Channels
        BY DEF Init, ChannelTypes, Channels
    <2>3. AllSound
        BY Creating DEF Init, AllSound, Sound
    <2> QED BY <2>1, <2>2, <2>3, Parts
<1>2. IInv /\ [Next]_vars => IInv'
    <2> SUFFICES ASSUME IInv, [Next]_vars PROVE IInv'
        OBVIOUS
    <2>1. TypeOK /\ Channels /\ AllSound
        BY Parts DEF IInv
    <2>2. StateTypes' /\ ChannelTypes' /\ Channels' /\ AllSound'
        BY <2>1, StateStep, ChannelStep, PeerStep
    <2>3. TypeOK' /\ CandidatesApplied'
        BY <2>2 DEF TypeOK, StateTypes, ChannelTypes, AllSound,
                    CandidatesApplied, Sound
    <2> QED BY <2>2, <2>3 DEF IInv
<1> QED BY <1>1, <1>2, PTL DEF Spec

(* Every peer, frame and signal is one of its kind, and no client has a     *)
(* connection to itself: room.state lists the client that receives it, the  *)
(* handler skips that entry, and no other frame names its receiver.          *)
THEOREM TypeCorrect == Spec => []TypeOK
<1>1. IInv => TypeOK
    BY DEF IInv
<1> QED BY <1>1, Invariance, PTL

(* However the frames overtake the promises of handleSignal and handleOffer, *)
(* no candidate is left in the queue of a connection that has its remote      *)
(* description (addCandidate, flushCandidates).                               *)
THEOREM NoCandidateWaits == Spec => []CandidatesApplied
<1>1. IInv => CandidatesApplied
    BY DEF IInv
<1> QED BY <1>1, Invariance, PTL

-----------------------------------------------------------------------------
(* Who takes the initiative.  Of two clients, one may take it towards the   *)
(* other while it has joined(other) ahead of it and does not know the other *)
(* yet; this is the case for one of them only, since who is announced is    *)
(* already on the list that who hears of it was greeted with, or was        *)
(* greeted with a list that has the one who hears.                           *)

(* What a channel holds: a room.state next that lists d, a frame of a type   *)
(* about d.                                                                  *)
Lists(q, d)   == q # <<>> /\ Head(q).type = "room.state" /\ d \in Head(q).participants
From(q, k, d) == \E i \in 1..Len(q) : q[i].type = k /\ q[i].who = d
Joins(q, d)   == From(q, "peer.joined", d)
Leaves(q, d)  == From(q, "peer.left", d)

(* room.state comes first, and nothing about a client follows its peer.left. *)
WellOrdered(q) ==
    /\ \A i \in 1..Len(q) : q[i].type = "room.state" => i = 1
    /\ \A i, j \in 1..Len(q) :
          q[i].type = "peer.left" /\ q[j].type # "room.state" /\ q[j].who = q[i].who
             => j <= i

Sees(c, d) == Known(peer[c][d]) \/ Lists(down[c], d)

CanInitiate(c, d) ==
    \/ peer[c][d].initiator
    \/ ~Known(peer[c][d]) /\ Joins(down[c], d) /\ ~Lists(down[c], d)

(* Up at both ends. *)
Up(c) == link[c] = "up" /\ handler[c] # "none"

(* A handler is of an open row; who has none yet has nothing; the channels   *)
(* tell the truth about who left.                                             *)
Wired ==
    /\ \A c \in Clients :
          /\ handler[c] # "none" => row[c] = "open"
          /\ row[c] = "none" => link[c] = "none"
          /\ link[c] # "up" => down[c] = <<>>
          /\ WellOrdered(down[c])
    /\ \A c, d \in Clients :
          /\ link[c] = "none" => ~Known(peer[c][d])
          /\ Leaves(down[c], d) => row[d] = "left"
          /\ peer[c][d].initiator => Known(peer[c][d])

Met ==
    \A c, d \in Clients :
        c # d /\ Up(c) /\ Up(d) => Sees(c, d) \/ Sees(d, c)

OneWay ==
    \A c, d \in Clients :
        c # d /\ CanInitiate(d, c) =>
            /\ ~CanInitiate(c, d)
            /\ Up(c) => Sees(c, d) \/ row[d] = "left"

LEMMA Appended ==
    ASSUME NEW q \in Seq(Frames), NEW f \in Frames, f.type # "room.state"
    PROVE  /\ \A d \in Clients : Lists(Append(q, f), d) <=> Lists(q, d)
           /\ \A k, d : From(Append(q, f), k, d) <=>
                           From(q, k, d) \/ (f.type = k /\ f.who = d)
           /\ WellOrdered(q) /\ ~Leaves(q, f.who) => WellOrdered(Append(q, f))
<1> DEFINE r == Append(q, f)
<1>1. /\ Len(q) \in Nat /\ Len(r) = Len(q) + 1 /\ r[Len(q) + 1] = f
      /\ \A i \in 1..Len(q) : r[i] = q[i]
      /\ r # <<>>
    OBVIOUS
<1>2. q = <<>> => Head(r) = f
    OBVIOUS
<1>3. q # <<>> => Head(r) = Head(q)
    OBVIOUS
<1> HIDE DEF r
<1>4. \A i \in 1..Len(r) : i \in 1..Len(q) \/ i = Len(q) + 1
    BY <1>1
<1>5. Len(q) + 1 \in 1..Len(r) /\ \A i \in 1..Len(q) : i \in 1..Len(r)
    BY <1>1
<1>6. \A d \in Clients : Lists(r, d) <=> Lists(q, d)
    BY <1>1, <1>2, <1>3 DEF Lists
<1>7. ASSUME NEW k, NEW d
      PROVE  From(r, k, d) <=> From(q, k, d) \/ (f.type = k /\ f.who = d)
    BY <1>1, <1>4, <1>5 DEF From
<1>8. ASSUME WellOrdered(q), ~Leaves(q, f.who)
      PROVE  WellOrdered(r)
    <2>1. \A i \in 1..Len(r) : r[i].type = "room.state" => i = 1
        BY <1>1, <1>4, <1>8 DEF WellOrdered
    <2>2. ASSUME NEW i \in 1..Len(r), NEW j \in 1..Len(r),
                 r[i].type = "peer.left", r[j].type # "room.state",
                 r[j].who = r[i].who
          PROVE  j <= i
        <3>1. CASE i = Len(q) + 1
            BY <3>1, <1>1, <1>4
        <3>2. CASE i \in 1..Len(q) /\ j = Len(q) + 1
            <4>1. r[j] = f /\ r[i] = q[i]
                BY <3>2, <1>1
            <4>2. Leaves(q, f.who)
                BY <3>2, <4>1, <2>2 DEF Leaves, From
            <4> QED BY <4>2, <1>8
        <3>3. CASE i \in 1..Len(q) /\ j \in 1..Len(q)
            <4>1. r[j] = q[j] /\ r[i] = q[i]
                BY <3>3, <1>1
            <4> QED BY <3>3, <4>1, <1>8, <2>2 DEF WellOrdered
        <3> QED BY <1>4, <3>1, <3>2, <3>3
    <2> QED BY <2>1, <2>2 DEF WellOrdered
<1> QED BY <1>6, <1>7, <1>8 DEF r

LEMMA Taken ==
    ASSUME NEW q \in Seq(Frames), q # <<>>, WellOrdered(q)
    PROVE  /\ WellOrdered(Tail(q))
           /\ \A d \in Clients : /\ ~Lists(Tail(q), d)
                                 /\ Head(q).type # "room.state" => ~Lists(q, d)
           /\ From(q, Head(q).type, Head(q).who)
           /\ \A k, d : From(Tail(q), k, d) => From(q, k, d)
           /\ Head(q).type = "peer.left" =>
                 \A k : k # "room.state" => ~From(Tail(q), k, Head(q).who)
<1> DEFINE r == Tail(q)
<1>1. /\ Len(q) \in Nat \ {0} /\ Len(r) = Len(q) - 1 /\ Head(q) = q[1]
      /\ \A i \in 1..Len(r) : r[i] = q[i + 1]
    OBVIOUS
<1>2. r # <<>> => 1 \in 1..Len(r) /\ Head(r) = r[1]
    OBVIOUS
<1> HIDE DEF r
<1>3. 1 \in 1..Len(q) /\ \A i \in 1..Len(r) : i + 1 \in 1..Len(q) /\ i + 1 # 1
    BY <1>1
<1>4. WellOrdered(r)
    <2>1. \A i \in 1..Len(r) : r[i].type # "room.state"
        BY <1>1, <1>3 DEF WellOrdered
    <2>2. ASSUME NEW i \in 1..Len(r), NEW j \in 1..Len(r),
                 r[i].type = "peer.left", r[j].type # "room.state",
                 r[j].who = r[i].who
          PROVE  j <= i
        <3>1. j + 1 <= i + 1
            BY <1>1, <1>3, <2>2 DEF WellOrdered
        <3> QED BY <3>1
    <2> QED BY <2>1, <2>2 DEF WellOrdered
<1>5. \A d \in Clients : ~Lists(r, d)
    BY <1>1, <1>2, <1>3 DEF Lists, WellOrdered
<1>6. \A d \in Clients : Head(q).type # "room.state" => ~Lists(q, d)
    BY DEF Lists
<1>7. From(q, Head(q).type, Head(q).who)
    BY <1>1, <1>3 DEF From
<1>8. \A k, d : From(r, k, d) => From(q, k, d)
    BY <1>1, <1>3 DEF From
<1>9. ASSUME Head(q).type = "peer.left", NEW k, k # "room.state",
             From(r, k, Head(q).who)
      PROVE  FALSE
    <2>1. PICK i \in 1..Len(r) : r[i].type = k /\ r[i].who = Head(q).who
        BY <1>9 DEF From
    <2>2. i + 1 <= 1
        BY <1>1, <1>3, <1>9, <2>1 DEF WellOrdered
    <2> QED BY <2>2
<1> QED BY <1>4, <1>5, <1>6, <1>7, <1>8, <1>9 DEF r

LEMMA Emptied ==
    /\ WellOrdered(<<>>)
    /\ \A d : ~Lists(<<>>, d) /\ ~Joins(<<>>, d) /\ ~Leaves(<<>>, d)
    /\ \A k, d : ~From(<<>>, k, d)
BY DEF WellOrdered, Lists, Joins, Leaves, From

(* What the channels of all hold after a broadcast. *)
LEMMA Telling ==
    ASSUME TypeOK, Wired, NEW S \in SUBSET Clients, NEW f \in Frames,
           f.type # "room.state", Broadcast(S, f),
           f.who \in Clients, row[f.who] = "open",
           f.type = "peer.left" => row'[f.who] = "left",
           \A d \in Clients : row[d] = "left" => row'[d] = "left"
    PROVE  \A c \in Clients :
              /\ WellOrdered(down'[c])
              /\ link[c] # "up" => down'[c] = <<>>
              /\ \A d \in Clients :
                    /\ Lists(down'[c], d) <=> Lists(down[c], d)
                    /\ Leaves(down'[c], d) => row'[d] = "left"
              /\ \A k, d : From(down'[c], k, d) <=>
                              \/ From(down[c], k, d)
                              \/ /\ f.type = k /\ f.who = d
                                 /\ c \in S /\ link[c] = "up"
<1> TAKE c \in Clients
<1>1. down[c] \in Seq(Frames) /\ WellOrdered(down[c])
    BY DEF TypeOK, Wired
<1>2. CASE c \in S /\ link[c] = "up"
    <2>1. down'[c] = Append(down[c], f)
        BY <1>2 DEF Broadcast
    <2>2. ~Leaves(down[c], f.who)
        BY DEF Wired
    <2>3. WellOrdered(down'[c])
        BY <1>1, <2>1, <2>2, Appended
    <2>4. \A d \in Clients : Lists(down'[c], d) <=> Lists(down[c], d)
        BY <1>1, <2>1, Appended
    <2>5. \A k, d : From(down'[c], k, d) <=> From(down[c], k, d) \/ (f.type = k /\ f.who = d)
        BY <1>1, <2>1, Appended
    <2>6. ASSUME NEW d \in Clients, Leaves(down'[c], d)
          PROVE  row'[d] = "left"
        BY <2>5, <2>6 DEF Wired, Leaves
    <2> QED BY <1>2, <2>3, <2>4, <2>5, <2>6
<1>3. CASE ~(c \in S /\ link[c] = "up")
    <2>1. down'[c] = down[c]
        BY <1>3 DEF Broadcast
    <2> QED BY <1>1, <1>3, <2>1 DEF Wired
<1> QED BY <1>2, <1>3

(* A step after which c has heard of nobody less, unless it left, and may   *)
(* take the initiative towards nobody new.                                   *)
Forward(c) ==
    /\ Up(c)' => Up(c)
    /\ \A d \in Clients \ {c} :
          /\ Sees(c, d) => Sees(c, d)' \/ ~Up(c)' \/ row[d] = "left"
          /\ CanInitiate(c, d)' => CanInitiate(c, d)

LEMMA Onward ==
    ASSUME Wired, Met, OneWay, \A c \in Clients : Forward(c),
           \A d \in Clients : row[d] = "left" => row'[d] = "left"
    PROVE  Met' /\ OneWay'
<1>1. ASSUME NEW c \in Clients, NEW d \in Clients, c # d,
             Up(c)', Up(d)'
      PROVE  Sees(c, d)' \/ Sees(d, c)'
    <2>1. Up(c) /\ Up(d)
        BY <1>1 DEF Forward
    <2>2. row[c] # "left" /\ row[d] # "left"
        BY <2>1 DEF Wired, Up
    <2>3. Sees(c, d) \/ Sees(d, c)
        BY <1>1, <2>1 DEF Met
    <2> QED BY <1>1, <2>2, <2>3 DEF Forward
<1>2. ASSUME NEW c \in Clients, NEW d \in Clients, c # d, CanInitiate(d, c)'
      PROVE  ~CanInitiate(c, d)' /\ (Up(c)' => Sees(c, d)' \/ row'[d] = "left")
    <2>1. CanInitiate(d, c)
        BY <1>2 DEF Forward
    <2>2. ~CanInitiate(c, d) /\ (Up(c) => Sees(c, d) \/ row[d] = "left")
        BY <1>2, <2>1 DEF OneWay
    <2>3. ~CanInitiate(c, d)'
        BY <1>2, <2>2 DEF Forward
    <2>4. ASSUME Up(c)'
          PROVE  Sees(c, d)' \/ row'[d] = "left"
        BY <1>2, <2>2, <2>4 DEF Forward
    <2> QED BY <2>3, <2>4
<1> QED BY <1>1, <1>2 DEF Met, OneWay

(* The frames of a client change by being read, and its peers accordingly. *)
LEMMA Reading ==
    ASSUME TypeOK, Channels, Wired, NEW c \in Clients, Deliver(c)
    PROVE  Wired' /\ \A x \in Clients : Forward(x)
<1>1. /\ down[c] \in Seq(Frames) /\ down[c] # <<>> /\ WellOrdered(down[c])
      /\ down' = [down EXCEPT ![c] = Tail(down[c])]
      /\ link[c] = "up" /\ UNCHANGED <<row, handler, link, up>>
      /\ \A d \in Clients \ {c} : down'[d] = down[d]
      /\ down'[c] = Tail(down[c])
    BY DEF TypeOK, Wired, Deliver, Receive, server, OnRoomState, OnJoined, OnLeft,
           OnOffer, OnAnswer, OnIce
<1>2. /\ WellOrdered(down'[c])
      /\ \A d \in Clients :
            /\ ~Lists(down'[c], d)
            /\ Joins(down'[c], d) => Joins(down[c], d)
            /\ Leaves(down'[c], d) => Leaves(down[c], d)
    BY <1>1, Taken DEF Joins, Leaves
<1>3. \A d \in Clients \ {c}, e \in Clients : peer'[d][e] = peer[d][e]
    BY DEF TypeOK, Deliver, OnRoomState, OnJoined, OnLeft, OnOffer, OnAnswer, OnIce
<1>4. \A d \in Clients : peer[c][d].initiator => Known(peer[c][d])
    BY DEF Wired
(* What the step does to the connection with one other client. *)
<1> DEFINE Goes(d) ==
       /\ peer'[c][d].initiator => Known(peer'[c][d])
       /\ Sees(c, d) => Known(peer'[c][d]) \/ row[d] = "left"
       /\ peer'[c][d].initiator => CanInitiate(c, d)
       /\ ~Known(peer'[c][d]) /\ Joins(down'[c], d) => CanInitiate(c, d)
<1>5. ASSUME \A d \in Clients \ {c} : Goes(d), peer'[c][c] = NoPeer
      PROVE  Wired' /\ \A x \in Clients : Forward(x)
    <2>1. ASSUME NEW x \in Clients PROVE Forward(x)
        <3>1. CASE x = c
            <4>1. ASSUME NEW d \in Clients \ {c}
                  PROVE  /\ Sees(c, d) => Sees(c, d)' \/ row[d] = "left"
                         /\ CanInitiate(c, d)' => CanInitiate(c, d)
                BY <1>5, <4>1 DEF Sees, CanInitiate
            <4> QED BY <1>1, <3>1, <4>1 DEF Forward, Up
        <3>2. CASE x # c
            <4>1. down'[x] = down[x] /\ \A e \in Clients : peer'[x][e] = peer[x][e]
                BY <1>1, <1>3, <3>2
            <4> QED BY <1>1, <4>1 DEF Forward, Sees, Up, CanInitiate
        <3> QED BY <3>1, <3>2
    <2>2. ASSUME NEW x \in Clients
          PROVE  /\ handler'[x] # "none" => row'[x] = "open"
                 /\ row'[x] = "none" => link'[x] = "none"
                 /\ link'[x] # "up" => down'[x] = <<>>
                 /\ WellOrdered(down'[x])
        BY <1>1, <1>2 DEF Wired
    <2>3. ASSUME NEW x \in Clients, NEW d \in Clients
          PROVE  /\ link'[x] = "none" => ~Known(peer'[x][d])
                 /\ Leaves(down'[x], d) => row'[d] = "left"
                 /\ peer'[x][d].initiator => Known(peer'[x][d])
        <3>1. CASE x = c
            <4>1. Leaves(down'[x], d) => row'[d] = "left"
                BY <1>1, <1>2, <3>1 DEF Wired
            <4>2. peer'[x][d].initiator => Known(peer'[x][d])
                BY <1>5, <3>1 DEF NoPeer
            <4> QED BY <1>1, <3>1, <4>1, <4>2
        <3>2. CASE x # c
            <4>1. down'[x] = down[x] /\ peer'[x][d] = peer[x][d]
                BY <1>1, <1>3, <3>2
            <4> QED BY <1>1, <4>1 DEF Wired
        <3> QED BY <3>1, <3>2
    <2> QED BY <2>1, <2>2, <2>3 DEF Wired
<1>6. ASSUME NEW e \in Clients, e # c, Head(down[c]).type # "room.state",
             \A d \in Clients \ {e} : peer'[c][d] = peer[c][d], Goes(e)
      PROVE  (\A d \in Clients \ {c} : Goes(d)) /\ peer'[c][c] = NoPeer
    <2>1. peer'[c][c] = NoPeer
        BY <1>6 DEF TypeOK
    <2>2. ASSUME NEW d \in Clients, d # e PROVE Goes(d)
        <3>1. ~Lists(down[c], d)
            BY <1>1, <1>6, Taken
        <3> QED BY <1>2, <1>4, <1>6, <2>2, <3>1 DEF Sees, CanInitiate
    <2> QED BY <1>6, <2>1, <2>2
<1>7. CASE OnRoomState(c)
    <2>1. peer'[c] = [d \in Clients |-> IF d \in Head(down[c]).participants \ {c}
                         THEN AddPeer(peer[c][d], FALSE) ELSE peer[c][d]]
        BY <1>7 DEF OnRoomState, TypeOK
    <2>2. peer'[c][c] = NoPeer
        BY <2>1 DEF TypeOK
    <2>3. ASSUME NEW d \in Clients \ {c} PROVE Goes(d)
        <3>1. Head(down[c]).type = "room.state"
            BY <1>7 DEF OnRoomState, Receive
        <3>2. CASE d \in Head(down[c]).participants
            <4>1. peer'[c][d] = AddPeer(peer[c][d], FALSE)
                BY <2>1, <3>2
            <4> QED BY <1>4, <4>1 DEF AddPeer, CreatePeer, NoPeer, Known, CanInitiate
        <3>3. CASE d \notin Head(down[c]).participants
            <4>1. peer'[c][d] = peer[c][d] /\ ~Lists(down[c], d)
                BY <2>1, <3>3 DEF Lists
            <4> QED BY <1>2, <1>4, <4>1 DEF Sees, CanInitiate
        <3> QED BY <3>2, <3>3
    <2> QED BY <1>5, <2>2, <2>3
<1>8. CASE ~OnRoomState(c)
    <2> DEFINE e == Head(down[c]).who
               p == peer[c][e]
    <2>1. Head(down[c]).type # "room.state"
        BY <1>8 DEF Deliver, Receive, OnJoined, OnLeft, OnOffer, OnAnswer, OnIce
    <2>2. e \in Clients /\ e # c
        <3>1. Head(down[c]) \in FramesTo(c)
            BY <1>1, HeadTailProperties DEF Channels
        <3> QED BY <2>1, <3>1, Naming
    <2>3. \A d \in Clients \ {e} : peer'[c][d] = peer[c][d]
        <3>1. ASSUME NEW q, peer' = [peer EXCEPT ![c][e] = q]
              PROVE  \A d \in Clients \ {e} : peer'[c][d] = peer[c][d]
            <4> HIDE DEF e, p
            <4> QED BY <2>2, <3>1 DEF TypeOK
        <3>2. \E q : peer' = [peer EXCEPT ![c][e] = q]
            <4>1. CASE OnJoined(c)
                BY <4>1 DEF OnJoined
            <4>2. CASE OnLeft(c)
                BY <4>2 DEF OnLeft
            <4>3. CASE OnOffer(c)
                BY <4>3 DEF OnOffer
            <4>4. CASE OnAnswer(c)
                BY <4>4 DEF OnAnswer
            <4>5. CASE OnIce(c)
                BY <4>5 DEF OnIce
            <4> QED BY <1>8, <4>1, <4>2, <4>3, <4>4, <4>5 DEF Deliver
        <3> QED BY <3>1, <3>2
    <2>4. ~Lists(down[c], e)
        BY <1>1, <2>1, <2>2, Taken
    <2>5. CASE OnJoined(c)
        <3>1. peer'[c][e] = AddPeer(p, TRUE)
            BY <2>2, <2>5 DEF OnJoined, TypeOK
        <3>2. Joins(down[c], e)
            BY <1>1, <2>2, <2>5, Taken DEF OnJoined, Receive, Joins
        <3>3. Known(p) => CanInitiate(c, e) \/ ~p.initiator
            BY DEF CanInitiate
        <3>4. ~Known(p) => CanInitiate(c, e)
            BY <2>4, <3>2 DEF CanInitiate
        <3> HIDE DEF e, p
        <3>5. CASE Known(p)
            <4>1. peer'[c][e] = p
                BY <3>1, <3>5 DEF AddPeer
            <4> QED BY <1>5, <1>6, <2>1, <2>2, <2>3, <3>3, <3>5, <4>1
        <3>6. CASE ~Known(p)
            <4>1. Known(peer'[c][e])
                BY <3>1, <3>6 DEF AddPeer, CreatePeer, NoPeer, Known
            <4> QED BY <1>5, <1>6, <2>1, <2>2, <2>3, <3>4, <3>6, <4>1
        <3> QED BY <3>5, <3>6
    <2>6. CASE OnLeft(c)
        <3>1. peer'[c][e] = NoPeer
            BY <2>2, <2>6 DEF OnLeft, TypeOK
        <3>2. Leaves(down[c], e) /\ ~Joins(down'[c], e)
            <4>1. Head(down[c]).type = "peer.left" /\ "peer.joined" # "room.state"
                BY <2>6 DEF OnLeft, Receive
            <4>2. /\ From(down[c], Head(down[c]).type, Head(down[c]).who)
                  /\ \A k : k # "room.state" => ~From(Tail(down[c]), k, Head(down[c]).who)
                BY <1>1, <4>1, Taken
            <4>3. Leaves(down[c], e)
                BY <4>1, <4>2 DEF Leaves
            <4>4. ~From(Tail(down[c]), "peer.joined", e)
                BY <4>1, <4>2
            <4> QED BY <1>1, <4>3, <4>4 DEF Joins
        <3>3. row[e] = "left"
            BY <2>2, <3>2 DEF Wired
        <3> HIDE DEF e
        <3>4. ~peer'[c][e].initiator
            BY <3>1 DEF NoPeer
        <3> QED BY <1>5, <1>6, <2>1, <2>2, <2>3, <3>2, <3>3, <3>4
    <2>7. CASE OnOffer(c) \/ OnAnswer(c) \/ OnIce(c)
        <3> DEFINE q == Signalled(p)
        <3>1. Known(q) /\ (q.initiator <=> Known(p) /\ p.initiator)
            <4>1. CASE Known(p)
                BY <4>1 DEF Signalled
            <4>2. CASE ~Known(p)
                BY <4>2 DEF Signalled, CreatePeer, NoPeer, Known
            <4> QED BY <4>1, <4>2
        <3>2. q \in Peers
            <4>1. p \in Peers
                BY <2>2 DEF TypeOK
            <4>2. CreatePeer(FALSE) \in Peers
                BY Creating DEF Sound
            <4> QED BY <4>1, <4>2 DEF Signalled
        <3>3. /\ peer'[c][e].initiator = q.initiator
              /\ peer'[c][e].phase \in {q.phase, "answering", "applying"}
            <4>1. \E r \in {q, [q EXCEPT !.phase = "answering"],
                            [q EXCEPT !.phase = "applying"],
                            [q EXCEPT !.pending = q.pending \/ ~HasRemote(q)]} :
                     peer' = [peer EXCEPT ![c][e] = r]
                <5>1. CASE OnOffer(c)
                    BY <5>1 DEF OnOffer
                <5>2. CASE OnAnswer(c)
                    BY <5>2 DEF OnAnswer
                <5>3. CASE OnIce(c)
                    BY <5>3 DEF OnIce
                <5> QED BY <2>7, <5>1, <5>2, <5>3
            <4> HIDE DEF e, q
            <4>2. peer'[c][e] \in {q, [q EXCEPT !.phase = "answering"],
                                   [q EXCEPT !.phase = "applying"],
                                   [q EXCEPT !.pending = q.pending \/ ~HasRemote(q)]}
                BY <2>2, <4>1 DEF TypeOK
            <4> QED BY <3>2, <4>2 DEF Peers
        <3>4. Known(peer'[c][e]) /\ (peer'[c][e].initiator => p.initiator)
            BY <3>1, <3>3 DEF Known
        <3> HIDE DEF e, q
        <3>5. p.initiator => CanInitiate(c, e)
            BY DEF CanInitiate
        <3> QED BY <1>5, <1>6, <2>1, <2>2, <2>3, <3>4, <3>5
    <2> QED BY <1>8, <2>5, <2>6, <2>7 DEF Deliver
<1> QED BY <1>7, <1>8

(* A client negotiates: who it knows and who takes the initiative stays. *)
LEMMA Negotiating ==
    ASSUME TypeOK, Wired, NEW c \in Clients, NEW d \in Clients,
           Negotiate(c, d) \/ Trickle(c, d)
    PROVE  Wired' /\ \A x \in Clients : Forward(x)
<1> DEFINE p == peer[c][d]
<1>1. Known(p)
    BY DEF Negotiate, Offered, Accepted, Answered, Applied, Trickle, HasLocal, Known
<1>2. UNCHANGED <<row, handler, link, down>>
    BY DEF Negotiate, Offered, Accepted, Answered, Applied, Trickle, server
<1>3. \E q \in {[p EXCEPT !.phase = "haveLocal"],
                FlushCandidates([p EXCEPT !.phase = "accepted"]),
                [p EXCEPT !.phase = "stable"],
                FlushCandidates([p EXCEPT !.phase = "stable"]),
                [p EXCEPT !.trickled = TRUE]} :
         peer' = [peer EXCEPT ![c][d] = q]
    BY DEF Negotiate, Offered, Accepted, Answered, Applied, Trickle
<1>4. p \in Peers
    BY DEF TypeOK
<1>5. PICK q : /\ peer' = [peer EXCEPT ![c][d] = q]
               /\ Known(q) /\ q.initiator = p.initiator
    <2> HIDE DEF p
    <2> QED BY <1>1, <1>3, <1>4 DEF Peers, FlushCandidates, Known
<1>6. \A x, e \in Clients :
          /\ Known(peer'[x][e]) <=> Known(peer[x][e])
          /\ peer'[x][e].initiator = peer[x][e].initiator
    BY <1>1, <1>5 DEF TypeOK
<1> HIDE DEF p
<1>7. Wired'
    BY <1>2, <1>6 DEF Wired
<1>8. ASSUME NEW x \in Clients PROVE Forward(x)
    BY <1>2, <1>6 DEF Forward, Sees, Up, CanInitiate
<1> QED BY <1>7, <1>8

(* A client goes, for a while or for good. *)
LEMMA Going ==
    ASSUME TypeOK, Wired, NEW c \in Clients, Drop(c) \/ Leave(c)
    PROVE  Wired' /\ \A x \in Clients : Forward(x)
<1>1. /\ link' \in {[link EXCEPT ![c] = "down"], [link EXCEPT ![c] = "closed"]}
      /\ down' = [down EXCEPT ![c] = <<>>]
      /\ UNCHANGED <<row, handler>>
    BY DEF Drop, Leave, server
<1>2. peer' = peer \/ peer' = [peer EXCEPT ![c] = [d \in Clients |-> NoPeer]]
    BY DEF Drop, Leave
<1>3. /\ link'[c] \in {"down", "closed"} /\ down'[c] = <<>>
      /\ \A x \in Clients \ {c} : link'[x] = link[x] /\ down'[x] = down[x]
    BY <1>1 DEF TypeOK
<1>4. \A x, e \in Clients :
         \/ peer'[x][e] = peer[x][e]
         \/ x = c /\ ~Known(peer'[x][e]) /\ ~peer'[x][e].initiator
    BY <1>2 DEF TypeOK, NoPeer, Known
<1>5. ASSUME NEW x \in Clients
      PROVE  /\ handler'[x] # "none" => row'[x] = "open"
             /\ row'[x] = "none" => link'[x] = "none"
             /\ link'[x] # "up" => down'[x] = <<>>
             /\ WellOrdered(down'[x])
    <2>1. link[c] # "none"
        BY DEF Drop, Leave
    <2> QED BY <1>1, <1>3, <2>1, Emptied DEF Wired
<1>6. ASSUME NEW x \in Clients, NEW d \in Clients
      PROVE  /\ link'[x] = "none" => ~Known(peer'[x][d])
             /\ Leaves(down'[x], d) => row'[d] = "left"
             /\ peer'[x][d].initiator => Known(peer'[x][d])
    <2>1. CASE x = c
        BY <1>3, <1>4, <2>1, Emptied DEF Wired
    <2>2. CASE x # c
        <3>1. link'[x] = link[x] /\ down'[x] = down[x] /\ row' = row
              /\ peer'[x][d] = peer[x][d]
            BY <1>1, <1>3, <1>4, <2>2
        <3> QED BY <3>1 DEF Wired
    <2> QED BY <2>1, <2>2
<1>7. ASSUME NEW x \in Clients PROVE Forward(x)
    <2>1. CASE x = c
        <3>1. \A d \in Clients : CanInitiate(c, d)' => CanInitiate(c, d)
            BY <1>3, <1>4, Emptied DEF CanInitiate
        <3> QED BY <1>3, <2>1, <3>1 DEF Forward, Up
    <2>2. CASE x # c
        <3>1. /\ link'[x] = link[x] /\ down'[x] = down[x]
              /\ \A e \in Clients : peer'[x][e] = peer[x][e]
            BY <1>3, <1>4, <2>2
        <3> QED BY <1>1, <3>1 DEF Forward, Sees, Up, CanInitiate
    <2> QED BY <2>1, <2>2
<1> QED BY <1>5, <1>6, <1>7 DEF Wired

(* The server relays a signal, or closes a row and says so. *)
LEMMA Passing ==
    ASSUME TypeOK, Channels, Wired, NEW c \in Clients, Relay(c) \/ Teardown(c)
    PROVE  /\ Wired' /\ \A x \in Clients : Forward(x)
           /\ \A d \in Clients : row[d] = "left" => row'[d] = "left"
<1>1. \E f \in Frames, S \in SUBSET Clients :
         /\ f.type \notin {"room.state", "peer.joined"} /\ f.who = c
         /\ f.type = "peer.left" => row'[c] = "left"
         /\ Broadcast(S, f)
    <2>1. CASE Relay(c)
        <3> DEFINE s == Head(up[c])
                   f == [type |-> s.type, who |-> c]
        <3>1. s \in SignalsOf(c)
            BY <2>1, HeadTailProperties DEF Relay, Channels
        <3>2. /\ f \in Frames /\ f.who = c
              /\ f.type \notin {"room.state", "peer.joined", "peer.left"}
            <4>1. s.type \in SignalKinds
                BY <3>1 DEF SignalsOf, Signals
            <4> HIDE DEF s
            <4> QED BY <4>1 DEF Frames, SignalKinds
        <3>3. Broadcast(InRoom \intersect {s.to}, f)
            BY <2>1 DEF Relay
        <3> HIDE DEF f, s
        <3> QED BY <3>2, <3>3 DEF InRoom
    <2>2. CASE Teardown(c)
        <3> DEFINE f == [type |-> "peer.left", who |-> c]
        <3>1. f \in Frames /\ f.type = "peer.left" /\ f.who = c
            BY DEF Frames
        <3>2. Broadcast(InRoom \ {c}, f) /\ row'[c] = "left"
            BY <2>2 DEF Teardown, TypeOK
        <3> HIDE DEF f
        <3> QED BY <3>1, <3>2 DEF InRoom
    <2> QED BY <2>1, <2>2
<1>2. /\ UNCHANGED <<link, peer>> /\ row[c] = "open"
      /\ \/ UNCHANGED <<row, handler>>
         \/ /\ row' = [row EXCEPT ![c] = "left"]
            /\ handler' = [handler EXCEPT ![c] = "none"]
    BY DEF Relay, Teardown, server, Wired
<1>3. \A d \in Clients : row[d] = "left" => row'[d] = "left"
    BY <1>2 DEF TypeOK
<1>4. \A x \in Clients :
         /\ WellOrdered(down'[x])
         /\ link[x] # "up" => down'[x] = <<>>
         /\ \A d \in Clients :
               /\ Lists(down'[x], d) <=> Lists(down[x], d)
               /\ Joins(down'[x], d) <=> Joins(down[x], d)
               /\ Leaves(down'[x], d) => row'[d] = "left"
    <2>1. PICK f \in Frames, S \in SUBSET Clients :
              /\ f.type \notin {"room.state", "peer.joined"} /\ f.who = c
              /\ f.type = "peer.left" => row'[c] = "left"
              /\ Broadcast(S, f)
        BY <1>1
    <2>2. f.type # "room.state" /\ f.type # "peer.joined" /\ Broadcast(S, f)
        BY <2>1
    <2>3. f.who \in Clients /\ row[f.who] = "open"
        BY <1>2, <2>1
    <2>4. f.type = "peer.left" => row'[f.who] = "left"
        BY <2>1
    <2>5. \A x \in Clients :
             /\ WellOrdered(down'[x])
             /\ link[x] # "up" => down'[x] = <<>>
             /\ \A d \in Clients :
                   /\ Lists(down'[x], d) <=> Lists(down[x], d)
                   /\ Leaves(down'[x], d) => row'[d] = "left"
             /\ \A k, d : From(down'[x], k, d) <=>
                             \/ From(down[x], k, d)
                             \/ /\ f.type = k /\ f.who = d
                                /\ x \in S /\ link[x] = "up"
        BY <1>3, <2>2, <2>3, <2>4, Telling
    <2> QED BY <2>2, <2>5 DEF Joins
<1>5. \A x \in Clients : /\ handler'[x] # "none" => handler[x] # "none"
                         /\ handler'[x] # "none" => row'[x] = "open"
                         /\ row'[x] = "none" => row[x] = "none"
    BY <1>2 DEF Wired, TypeOK
<1>6. Wired'
    BY <1>2, <1>4, <1>5 DEF Wired
<1>7. ASSUME NEW x \in Clients PROVE Forward(x)
    BY <1>2, <1>4, <1>5 DEF Forward, Sees, Up, CanInitiate
<1> QED BY <1>3, <1>6, <1>7

(* A socket is accepted: its client is greeted with everybody who is there. *)
LEMMA Opening ==
    ASSUME TypeOK, Wired, Met, OneWay, NEW c \in Clients, Open(c)
    PROVE  Wired' /\ Met' /\ OneWay'
<1> DEFINE f == [type |-> "room.state",
                 participants |-> {d \in Clients : row[d] = "open"}]
<1>1. /\ row[c] = "open" /\ UNCHANGED <<row, peer>>
      /\ link'[c] = "up" /\ handler'[c] # "none" /\ down'[c] = <<f>>
      /\ \A x \in Clients \ {c} :
            link'[x] = link[x] /\ handler'[x] = handler[x] /\ down'[x] = down[x]
    BY DEF Open, TypeOK
<1>2. /\ <<f>> # <<>> /\ Len(<<f>>) = 1 /\ Head(<<f>>) = f /\ <<f>>[1] = f
      /\ f.type = "room.state"
      /\ \A d \in Clients : d \in f.participants <=> row[d] = "open"
    OBVIOUS
<1> HIDE DEF f
<1>3. /\ WellOrdered(down'[c])
      /\ \A d \in Clients : /\ Lists(down'[c], d) <=> row[d] = "open"
                            /\ ~Joins(down'[c], d)
                            /\ ~Leaves(down'[c], d)
    <2>1. \A i \in 1..Len(<<f>>) : i = 1 /\ <<f>>[i] = f
        BY <1>2
    <2> QED BY <1>1, <1>2, <2>1 DEF WellOrdered, Lists, Joins, Leaves, From
<1>4. Wired'
    <2>1. ASSUME NEW x \in Clients
          PROVE  /\ handler'[x] # "none" => row'[x] = "open"
                 /\ row'[x] = "none" => link'[x] = "none"
                 /\ link'[x] # "up" => down'[x] = <<>>
                 /\ WellOrdered(down'[x])
        BY <1>1, <1>3 DEF Wired
    <2>2. ASSUME NEW x \in Clients, NEW d \in Clients
          PROVE  /\ link'[x] = "none" => ~Known(peer'[x][d])
                 /\ Leaves(down'[x], d) => row'[d] = "left"
                 /\ peer'[x][d].initiator => Known(peer'[x][d])
        BY <1>1, <1>3 DEF Wired
    <2> QED BY <2>1, <2>2 DEF Wired
<1>5. ASSUME NEW x \in Clients, NEW d \in Clients, x # d
      PROVE  CanInitiate(x, d)' => CanInitiate(x, d)
    <2>1. CASE x = c
        BY <1>1, <1>3, <2>1 DEF CanInitiate
    <2>2. CASE x # c
        BY <1>1, <2>2 DEF CanInitiate
    <2> QED BY <2>1, <2>2
<1>6. ASSUME NEW x \in Clients \ {c} PROVE \A d \in Clients : Sees(x, d)' <=> Sees(x, d)
    BY <1>1, <1>6 DEF Sees
<1>7. ASSUME NEW d \in Clients, row[d] = "open" PROVE Sees(c, d)'
    BY <1>3, <1>7 DEF Sees
<1>8. ASSUME NEW x \in Clients, NEW d \in Clients, x # d,
             Up(x)', Up(d)'
      PROVE  Sees(x, d)' \/ Sees(d, x)'
    <2>1. row[x] = "open" /\ row[d] = "open"
        BY <1>1, <1>4, <1>8 DEF Wired, Up
    <2>2. CASE x = c \/ d = c
        BY <1>7, <2>1, <2>2
    <2>3. CASE x # c /\ d # c
        BY <1>1, <1>6, <1>8, <2>3 DEF Met, Up
    <2> QED BY <2>2, <2>3
<1>9. ASSUME NEW x \in Clients, NEW d \in Clients, x # d, CanInitiate(d, x)'
      PROVE  ~CanInitiate(x, d)' /\ (Up(x)' => Sees(x, d)' \/ row'[d] = "left")
    <2>1. CanInitiate(d, x)
        BY <1>5, <1>9
    <2>2. ~CanInitiate(x, d) /\ (Up(x) => Sees(x, d) \/ row[d] = "left")
        BY <1>9, <2>1 DEF OneWay
    <2>3. ~CanInitiate(x, d)'
        BY <1>5, <1>9, <2>2
    <2>4. CASE x = c
        <3>1. row[d] # "none"
            <4>1. ASSUME row[d] = "none" PROVE FALSE
                <5>1. ~Known(peer[d][x]) /\ down[d] = <<>>
                    BY <4>1 DEF Wired
                <5> QED BY <2>1, <5>1, Emptied DEF CanInitiate, Wired
            <4> QED BY <4>1
        <3>2. row[d] = "open" \/ row[d] = "left"
            BY <3>1 DEF TypeOK
        <3> QED BY <1>1, <1>7, <2>3, <2>4, <3>2
    <2>5. CASE x # c
        BY <1>1, <1>6, <2>2, <2>3, <2>5 DEF Up
    <2> QED BY <2>4, <2>5
<1> QED BY <1>4, <1>8, <1>9 DEF Met, OneWay

(* The newcomer is announced.  Who is to take the initiative from then on   *)
(* did not know it and had no list with it, so the newcomer was greeted with *)
(* the one who hears, and does not take the initiative itself.               *)
LEMMA Announcing ==
    ASSUME TypeOK, Wired, Met, OneWay, NEW c \in Clients, Announce(c)
    PROVE  Wired' /\ Met' /\ OneWay'
<1> DEFINE f == [type |-> "peer.joined", who |-> c]
<1>1. /\ f \in Frames /\ f.type = "peer.joined" /\ f.who = c
      /\ Broadcast(InRoom \ {c}, f) /\ InRoom \ {c} \in SUBSET Clients
    BY DEF Announce, Frames, InRoom
<1>2. /\ handler' = [handler EXCEPT ![c] = "looping"] /\ UNCHANGED <<row, link, peer>>
      /\ handler[c] = "greeting" /\ row[c] = "open"
    BY DEF Announce, Wired
<1> HIDE DEF f
<1>3. \A x \in Clients :
         /\ WellOrdered(down'[x])
         /\ link[x] # "up" => down'[x] = <<>>
         /\ \A d \in Clients :
               /\ Lists(down'[x], d) <=> Lists(down[x], d)
               /\ Joins(down'[x], d) <=>
                     Joins(down[x], d) \/ (d = c /\ x \in InRoom \ {c} /\ link[x] = "up")
               /\ Leaves(down'[x], d) => row'[d] = "left"
    <2>1. f.type # "room.state"
        BY <1>1
    <2>2. f.who \in Clients /\ row[f.who] = "open"
        BY <1>1, <1>2
    <2>3. f.type = "peer.left" => row'[f.who] = "left"
        BY <1>1
    <2>4. \A d \in Clients : row[d] = "left" => row'[d] = "left"
        BY <1>2
    <2> DEFINE S == InRoom \ {c}
    <2>5. S \in SUBSET Clients /\ Broadcast(S, f)
        BY <1>1
    <2> HIDE DEF S
    <2>6. \A x \in Clients :
             /\ WellOrdered(down'[x])
             /\ link[x] # "up" => down'[x] = <<>>
             /\ \A d \in Clients :
                   /\ Lists(down'[x], d) <=> Lists(down[x], d)
                   /\ Leaves(down'[x], d) => row'[d] = "left"
             /\ \A k, d : From(down'[x], k, d) <=>
                             \/ From(down[x], k, d)
                             \/ /\ f.type = k /\ f.who = d
                                /\ x \in S /\ link[x] = "up"
        BY <1>1, <2>1, <2>2, <2>3, <2>4, <2>5, Telling
    <2> QED BY <1>1, <2>6 DEF S, Joins
<1>4. \A x \in Clients : handler'[x] = handler[x] \/ (x = c /\ handler'[x] = "looping")
    BY <1>2 DEF TypeOK
<1>5. Wired'
    BY <1>2, <1>3, <1>4 DEF Wired
<1>6. \A x, d \in Clients : Sees(x, d)' <=> Sees(x, d)
    BY <1>2, <1>3 DEF Sees
<1>7. Met'
    BY <1>2, <1>6, <1>4 DEF Met, Up
<1>8. ASSUME NEW x \in Clients, NEW d \in Clients, CanInitiate(x, d)'
      PROVE  \/ CanInitiate(x, d)
             \/ d = c /\ x # c /\ Up(x) /\ ~Sees(x, c)
    BY <1>2, <1>3, <1>8 DEF CanInitiate, Sees, Up, InRoom
<1>9. ASSUME NEW x \in Clients, x # c, Up(x), ~Sees(x, c)
      PROVE  ~CanInitiate(c, x) /\ (Up(c) => Sees(c, x))
    BY <1>2, <1>9 DEF OneWay, Met
<1>10. ASSUME NEW x \in Clients, NEW d \in Clients, x # d, CanInitiate(d, x)'
       PROVE  ~CanInitiate(x, d)' /\ (Up(x)' => Sees(x, d)' \/ row'[d] = "left")
    <2>1. CASE CanInitiate(d, x)
        <3>1. ~CanInitiate(x, d) /\ (Up(x) => Sees(x, d) \/ row[d] = "left")
            BY <1>10, <2>1 DEF OneWay
        <3>2. ~CanInitiate(x, d)'
            BY <1>8, <1>9, <1>10, <2>1, <3>1
        <3> QED BY <1>2, <1>6, <3>1, <3>2 DEF Up
    <2>2. CASE ~CanInitiate(d, x)
        <3>1. x = c /\ Up(d) /\ ~Sees(d, c)
            BY <1>8, <1>10, <2>2
        <3>2. ~CanInitiate(c, d) /\ (Up(c) => Sees(c, d))
            BY <1>9, <1>10, <3>1
        <3>3. ~CanInitiate(c, d)'
            BY <1>8, <1>10, <3>1, <3>2
        <3> QED BY <1>2, <1>6, <3>1, <3>2, <3>3 DEF Up
    <2> QED BY <2>1, <2>2
<1> QED BY <1>5, <1>7, <1>10 DEF OneWay

RolesInv == Wired /\ Met /\ OneWay

LEMMA RolesStep ==
    ASSUME TypeOK, Channels, RolesInv, [Next]_vars
    PROVE  RolesInv'
<1> USE DEF RolesInv
<1>1. ASSUME NEW c \in Clients, Join(c)
      PROVE  RolesInv'
    <2>1. /\ UNCHANGED <<handler, link, down, peer>> /\ row' = [row EXCEPT ![c] = "open"]
          /\ row[c] = "none"
        BY <1>1 DEF Join
    <2>2. \A d \in Clients : /\ row[d] = "left" => row'[d] = "left"
                             /\ row[d] = "open" => row'[d] = "open"
                             /\ row'[d] = "none" => row[d] = "none"
        BY <2>1 DEF TypeOK
    <2>3. Wired'
        BY <2>1, <2>2 DEF Wired
    <2>4. ASSUME NEW x \in Clients PROVE Forward(x)
        BY <2>1 DEF Forward, Sees, CanInitiate, Up
    <2> QED BY <2>2, <2>3, <2>4, Onward
<1>2. ASSUME NEW c \in Clients, Open(c) \/ Announce(c)
      PROVE  RolesInv'
    BY <1>2, Opening, Announcing
<1>3. ASSUME NEW c \in Clients, Relay(c) \/ Teardown(c)
      PROVE  RolesInv'
    BY <1>3, Passing, Onward
<1>4. ASSUME NEW c \in Clients, Drop(c) \/ Leave(c)
      PROVE  RolesInv'
    <2>1. row' = row
        BY <1>4 DEF Drop, Leave, server
    <2> QED BY <1>4, <2>1, Going, Onward
<1>5. ASSUME NEW c \in Clients, Deliver(c)
      PROVE  RolesInv'
    <2>1. row' = row
        BY <1>5 DEF Deliver, OnRoomState, OnJoined, OnLeft, OnOffer, OnAnswer, OnIce,
                    server
    <2> QED BY <1>5, <2>1, Reading, Onward
<1>6. ASSUME NEW c \in Clients, NEW d \in Clients, Negotiate(c, d) \/ Trickle(c, d)
      PROVE  RolesInv'
    <2>1. row' = row
        BY <1>6 DEF Negotiate, Offered, Accepted, Answered, Applied, Trickle, server
    <2> QED BY <1>6, <2>1, Negotiating, Onward
<1>7. CASE UNCHANGED <<row, handler, link, down, peer>>
    <2>1. Wired'
        BY <1>7 DEF Wired
    <2>2. ASSUME NEW x \in Clients PROVE Forward(x)
        BY <1>7 DEF Forward, Sees, CanInitiate, Up
    <2> QED BY <1>7, <2>1, <2>2, Onward
<1> QED BY <1>1, <1>2, <1>3, <1>4, <1>5, <1>6, <1>7 DEF Next, vars, server, Refused

(* Who may take the initiative towards whom is settled when a client is     *)
(* told of another, and stays so (the dispatch of room.state and             *)
(* peer.joined).                                                             *)
THEOREM RolesInvariance == Spec => []RolesInv
<1>1. Init => RolesInv
    <2> SUFFICES ASSUME Init PROVE RolesInv
        OBVIOUS
    <2>1. \A c, d \in Clients : ~Known(peer[c][d]) /\ ~peer[c][d].initiator
        BY DEF Init, NoPeer, Known
    <2>2. \A c \in Clients : /\ down[c] = <<>> /\ link[c] = "none"
                             /\ row[c] = "none" /\ handler[c] = "none"
        BY DEF Init
    <2>3. Wired
        BY <2>1, <2>2, Emptied DEF Wired
    <2>4. Met
        BY <2>2 DEF Met, Up
    <2>5. OneWay
        BY <2>1, <2>2, Emptied DEF OneWay, CanInitiate
    <2> QED BY <2>3, <2>4, <2>5 DEF RolesInv
<1>2. IInv /\ RolesInv /\ [Next]_vars => RolesInv'
    BY RolesStep DEF IInv
<1> QED BY <1>1, <1>2, Invariance, PTL DEF Spec

LEMMA NoGlareInv == IInv /\ RolesInv => NeverBothInitiate
<1> SUFFICES ASSUME IInv, RolesInv, NEW c \in Clients, NEW d \in Clients,
                    peer[c][d].initiator, peer[d][c].initiator
             PROVE  FALSE
    BY DEF NeverBothInitiate
<1>1. c # d
    BY DEF IInv, TypeOK, NoPeer
<1>2. CanInitiate(c, d) /\ CanInitiate(d, c)
    BY DEF CanInitiate
<1> QED BY <1>1, <1>2 DEF RolesInv, OneWay

(* Of two clients at most one takes the initiative, whatever the order in   *)
(* which rows, sockets and frames of the two come and go, so that no offers  *)
(* of theirs can collide (addPeer, the dispatch of room.state and            *)
(* peer.joined).                                                             *)
THEOREM NoGlare == Spec => []NeverBothInitiate
BY NoGlareInv, Invariance, RolesInvariance, PTL

-----------------------------------------------------------------------------
(* The two ends agree.  Between a client that offers and the one that       *)
(* answers there is one offer at most, then one answer at most, and the     *)
(* phases of both tell where the exchange is; until one of them is dead to   *)
(* the other, for good.                                                      *)

To(q, k, d) == \E i \in 1..Len(q) : q[i].type = k /\ q[i].to = d

OnceTo(q, k, d) ==
    \A i, j \in 1..Len(q) :
        q[i].type = k /\ q[i].to = d /\ q[j].type = k /\ q[j].to = d => i = j
OnceFrom(q, k, d) ==
    \A i, j \in 1..Len(q) :
        q[i].type = k /\ q[i].who = d /\ q[j].type = k /\ q[j].who = d => i = j

(* A signal of kind k is on its way from c to d, once. *)
InFlight(k, c, d) == To(up[c], k, d) \/ From(down[d], k, c)
Once(k, c, d) == /\ OnceTo(up[c], k, d) /\ OnceFrom(down[d], k, c)
                 /\ ~(To(up[c], k, d) /\ From(down[d], k, c))

(* The exchange between an end that offers, of phase ph and initiator in,   *)
(* and one that answers, of phase ph2 and initiator in2.                     *)
Stages(ph, in, ph2, in2, offer, answer) ==
    /\ offer => in /\ ph = "haveLocal" /\ ph2 \in {"none", "new"}
    /\ answer => in /\ ph = "haveLocal" /\ ~in2 /\ ph2 = "stable"
    /\ ~in2 /\ ph2 \in {"answering", "accepted"} => in /\ ph = "haveLocal"
    /\ ~in2 /\ ph2 = "stable" => in /\ ph \in {"haveLocal", "applying", "stable"}
    /\ in => ph \in {"offering", "haveLocal", "applying", "stable"}
    /\ in /\ ph \in {"applying", "stable"} => ph2 = "stable"
    /\ ~in => ph \in {"none", "new", "answering", "accepted", "stable"}

Exchange(c, d) ==
    /\ Once("offer", c, d) /\ Once("answer", d, c)
    /\ Stages(peer[c][d].phase, peer[c][d].initiator,
              peer[d][c].phase, peer[d][c].initiator,
              InFlight("offer", c, d), InFlight("answer", d, c))

(* d is dead to c: c has left, or has heard the last of d. *)
Dead(c, d) ==
    /\ ~Known(peer[c][d])
    /\ \/ link[c] = "closed"
       \/ /\ row[d] = "left" /\ ~Lists(down[c], d)
          /\ \A k : k # "room.state" => ~From(down[c], k, d)

Exchanges ==
    \A c, d \in Clients : c # d => Dead(c, d) \/ Dead(d, c) \/ Exchange(c, d)

(* Putting something into a channel and taking it out. *)
LEMMA Sent ==
    ASSUME NEW q \in Seq(Signals), NEW s
    PROVE  \A k, d :
              /\ To(Append(q, s), k, d) <=> To(q, k, d) \/ (s.type = k /\ s.to = d)
              /\ OnceTo(q, k, d) /\ ~(To(q, k, d) /\ s.type = k /\ s.to = d)
                    => OnceTo(Append(q, s), k, d)
<1> DEFINE r == Append(q, s)
<1>1. /\ Len(q) \in Nat /\ Len(r) = Len(q) + 1 /\ r[Len(q) + 1] = s
      /\ \A i \in 1..Len(q) : r[i] = q[i]
    OBVIOUS
<1> HIDE DEF r
<1>2. /\ \A i \in 1..Len(r) : i \in 1..Len(q) \/ i = Len(q) + 1
      /\ Len(q) + 1 \in 1..Len(r) /\ \A i \in 1..Len(q) : i \in 1..Len(r)
    BY <1>1
<1> TAKE k, d
<1>3. To(r, k, d) <=> To(q, k, d) \/ (s.type = k /\ s.to = d)
    BY <1>1, <1>2 DEF To
<1>4. OnceTo(q, k, d) /\ ~(To(q, k, d) /\ s.type = k /\ s.to = d) => OnceTo(r, k, d)
    BY <1>1, <1>2 DEF To, OnceTo
<1> QED BY <1>3, <1>4 DEF r

LEMMA Shipped ==
    ASSUME NEW q \in Seq(Signals), q # <<>>
    PROVE  \A k, d :
              /\ To(Tail(q), k, d) => To(q, k, d)
              /\ OnceTo(q, k, d) => OnceTo(Tail(q), k, d)
              /\ Head(q).type = k /\ Head(q).to = d =>
                    To(q, k, d) /\ (OnceTo(q, k, d) => ~To(Tail(q), k, d))
<1> DEFINE r == Tail(q)
<1>1. /\ Len(q) \in Nat \ {0} /\ Len(r) = Len(q) - 1 /\ Head(q) = q[1]
      /\ \A i \in 1..Len(r) : r[i] = q[i + 1]
    OBVIOUS
<1> HIDE DEF r
<1>2. 1 \in 1..Len(q) /\ \A i \in 1..Len(r) : i + 1 \in 1..Len(q) /\ i + 1 # 1
    BY <1>1
<1>3. ASSUME NEW i \in 1..Len(r), NEW j \in 1..Len(r), i + 1 = j + 1
      PROVE  i = j
    <2>1. i \in Int /\ j \in Int
        BY <1>1
    <2> QED BY <1>3, <2>1
<1> TAKE k, d
<1>4. To(r, k, d) => To(q, k, d)
    BY <1>1, <1>2 DEF To
<1>5. ASSUME OnceTo(q, k, d) PROVE OnceTo(r, k, d)
    <2> SUFFICES ASSUME NEW i \in 1..Len(r), NEW j \in 1..Len(r),
                        r[i].type = k, r[i].to = d, r[j].type = k, r[j].to = d
                 PROVE  i = j
        BY DEF OnceTo
    <2>1. /\ i + 1 \in 1..Len(q) /\ j + 1 \in 1..Len(q)
          /\ r[i] = q[i + 1] /\ r[j] = q[j + 1]
        BY <1>1, <1>2
    <2>2. i + 1 = j + 1
        BY <1>5, <2>1 DEF OnceTo
    <2> QED BY <1>3, <2>2
<1>6. Head(q).type = k /\ Head(q).to = d => To(q, k, d)
    BY <1>1, <1>2 DEF To
<1>7. Head(q).type = k /\ Head(q).to = d /\ OnceTo(q, k, d) => ~To(r, k, d)
    BY <1>1, <1>2 DEF To, OnceTo
<1> QED BY <1>4, <1>5, <1>6, <1>7 DEF r

LEMMA AppendedOnce ==
    ASSUME NEW q \in Seq(Frames), NEW f
    PROVE  \A k, d : OnceFrom(q, k, d) /\ ~(From(q, k, d) /\ f.type = k /\ f.who = d)
                        => OnceFrom(Append(q, f), k, d)
<1> DEFINE r == Append(q, f)
<1>1. /\ Len(q) \in Nat /\ Len(r) = Len(q) + 1 /\ r[Len(q) + 1] = f
      /\ \A i \in 1..Len(q) : r[i] = q[i]
    OBVIOUS
<1> HIDE DEF r
<1>2. \A i \in 1..Len(r) : i \in 1..Len(q) \/ i = Len(q) + 1
    BY <1>1
<1>3. \A k, d : OnceFrom(q, k, d) /\ ~(From(q, k, d) /\ f.type = k /\ f.who = d)
                   => OnceFrom(r, k, d)
    BY <1>1, <1>2 DEF From, OnceFrom
<1> QED BY <1>3 DEF r

LEMMA TakenOnce ==
    ASSUME NEW q \in Seq(Frames), q # <<>>
    PROVE  \A k, d :
              /\ From(Tail(q), k, d) => From(q, k, d)
              /\ OnceFrom(q, k, d) => OnceFrom(Tail(q), k, d)
              /\ Head(q).type = k /\ Head(q).who = d =>
                    From(q, k, d) /\ (OnceFrom(q, k, d) => ~From(Tail(q), k, d))
<1> DEFINE r == Tail(q)
<1>1. /\ Len(q) \in Nat \ {0} /\ Len(r) = Len(q) - 1 /\ Head(q) = q[1]
      /\ \A i \in 1..Len(r) : r[i] = q[i + 1]
    OBVIOUS
<1> HIDE DEF r
<1>2. 1 \in 1..Len(q) /\ \A i \in 1..Len(r) : i + 1 \in 1..Len(q) /\ i + 1 # 1
    BY <1>1
<1>3. ASSUME NEW i \in 1..Len(r), NEW j \in 1..Len(r), i + 1 = j + 1
      PROVE  i = j
    <2>1. i \in Int /\ j \in Int
        BY <1>1
    <2> QED BY <1>3, <2>1
<1> TAKE k, d
<1>4. From(r, k, d) => From(q, k, d)
    BY <1>1, <1>2 DEF From
<1>5. ASSUME OnceFrom(q, k, d) PROVE OnceFrom(r, k, d)
    <2> SUFFICES ASSUME NEW i \in 1..Len(r), NEW j \in 1..Len(r),
                        r[i].type = k, r[i].who = d, r[j].type = k, r[j].who = d
                 PROVE  i = j
        BY DEF OnceFrom
    <2>1. /\ i + 1 \in 1..Len(q) /\ j + 1 \in 1..Len(q)
          /\ r[i] = q[i + 1] /\ r[j] = q[j + 1]
        BY <1>1, <1>2
    <2>2. i + 1 = j + 1
        BY <1>5, <2>1 DEF OnceFrom
    <2> QED BY <1>3, <2>2
<1>6. Head(q).type = k /\ Head(q).who = d => From(q, k, d)
    BY <1>1, <1>2 DEF From
<1>7. Head(q).type = k /\ Head(q).who = d /\ OnceFrom(q, k, d) => ~From(r, k, d)
    BY <1>1, <1>2 DEF From, OnceFrom
<1> QED BY <1>4, <1>5, <1>6, <1>7 DEF r

LEMMA EmptiedOnce ==
    \A k, d : /\ ~To(<<>>, k, d) /\ ~From(<<>>, k, d)
              /\ OnceTo(<<>>, k, d) /\ OnceFrom(<<>>, k, d)
BY DEF To, From, OnceTo, OnceFrom

-----------------------------------------------------------------------------
(* Steps seen from a pair *)

(* Nothing of the exchange is added to the channel from c to d. *)
Thins(c, d) ==
    \A k \in {"offer", "answer"} :
        /\ InFlight(k, c, d)' => InFlight(k, c, d)
        /\ Once(k, c, d) => Once(k, c, d)'

(* What the ends hold is, for the exchange, the same. *)
SameEnd(c, d) ==
    /\ peer'[c][d].initiator = peer[c][d].initiator
    /\ \/ peer'[c][d].phase = peer[c][d].phase
       \/ ~peer[c][d].initiator /\ peer[c][d].phase = "none" /\ peer'[c][d].phase = "new"

LEMMA Quiet ==
    ASSUME NEW c, NEW d, Exchange(c, d), Thins(c, d), Thins(d, c),
           SameEnd(c, d), SameEnd(d, c)
    PROVE  Exchange(c, d)'
<1>1. Once("offer", c, d)' /\ Once("answer", d, c)'
    BY DEF Exchange, Thins
<1>2. /\ InFlight("offer", c, d)' => InFlight("offer", c, d)
      /\ InFlight("answer", d, c)' => InFlight("answer", d, c)
    BY DEF Thins
<1> DEFINE ph == peer[c][d].phase
           in == peer[c][d].initiator
           ph2 == peer[d][c].phase
           in2 == peer[d][c].initiator
           nph == peer'[c][d].phase
           nin == peer'[c][d].initiator
           nph2 == peer'[d][c].phase
           nin2 == peer'[d][c].initiator
           o == InFlight("offer", c, d)
           a == InFlight("answer", d, c)
           no == InFlight("offer", c, d)'
           na == InFlight("answer", d, c)'
<1>3. Stages(ph, in, ph2, in2, o, a)
    BY DEF Exchange
<1>4. /\ nin = in /\ nin2 = in2 /\ (no => o) /\ (na => a)
      /\ nph = ph \/ (~in /\ ph = "none" /\ nph = "new")
      /\ nph2 = ph2 \/ (~in2 /\ ph2 = "none" /\ nph2 = "new")
    BY <1>2 DEF SameEnd
<1> HIDE DEF ph, in, ph2, in2, nph, nin, nph2, nin2, o, a, no, na
<1>5. Stages(nph, nin, nph2, nin2, no, na)
    BY <1>3, <1>4 DEF Stages
<1> QED BY <1>1, <1>5 DEF Exchange, nph, nin, nph2, nin2, no, na

Stays(c, d) == Dead(c, d) => Dead(c, d)'

(* A step that concerns the exchange of x and e only. *)
LEMMA PairMoves ==
    ASSUME Exchanges, NEW x \in Clients, NEW e \in Clients, x # e,
           \A a, b \in Clients :
               a # b /\ ~(a = x /\ b = e) /\ ~(a = e /\ b = x)
                  => Thins(a, b) /\ SameEnd(a, b) /\ Stays(a, b),
           Dead(x, e)' \/ Dead(e, x)' \/ (Exchange(x, e)' /\ Exchange(e, x)')
    PROVE  Exchanges'
<1>1. ASSUME NEW c \in Clients, NEW d \in Clients, c # d
      PROVE  Dead(c, d)' \/ Dead(d, c)' \/ Exchange(c, d)'
    <2>1. CASE c = x /\ d = e
        BY <2>1
    <2>2. CASE c = e /\ d = x
        BY <2>2
    <2>3. CASE ~(c = x /\ d = e) /\ ~(c = e /\ d = x)
        <3>1. /\ Thins(c, d) /\ SameEnd(c, d) /\ Stays(c, d)
              /\ Thins(d, c) /\ SameEnd(d, c) /\ Stays(d, c)
            BY <1>1, <2>3
        <3>2. Dead(c, d) \/ Dead(d, c) \/ Exchange(c, d)
            BY <1>1 DEF Exchanges
        <3>3. CASE Dead(c, d)
            BY <3>1, <3>3 DEF Stays
        <3>4. CASE Dead(d, c)
            BY <3>1, <3>4 DEF Stays
        <3>5. CASE Exchange(c, d)
            BY <3>1, <3>5, Quiet
        <3> QED BY <3>2, <3>3, <3>4, <3>5
    <2> QED BY <2>1, <2>2, <2>3
<1> QED BY <1>1 DEF Exchanges

(* A step that concerns no exchange. *)
LEMMA Resting ==
    ASSUME Exchanges,
           \A a, b \in Clients :
               a # b => Thins(a, b) /\ SameEnd(a, b) /\ Stays(a, b)
    PROVE  Exchanges'
<1>1. ASSUME NEW c \in Clients, NEW d \in Clients, c # d
      PROVE  Dead(c, d)' \/ Dead(d, c)' \/ Exchange(c, d)'
    <2>1. /\ Thins(c, d) /\ SameEnd(c, d) /\ Stays(c, d)
          /\ Thins(d, c) /\ SameEnd(d, c) /\ Stays(d, c)
        BY <1>1
    <2>2. Dead(c, d) \/ Dead(d, c) \/ Exchange(c, d)
        BY <1>1 DEF Exchanges
    <2>3. CASE Dead(c, d)
        BY <2>1, <2>3 DEF Stays
    <2>4. CASE Dead(d, c)
        BY <2>1, <2>4 DEF Stays
    <2>5. CASE Exchange(c, d)
        BY <2>1, <2>5, Quiet
    <2> QED BY <2>2, <2>3, <2>4, <2>5
<1> QED BY <1>1 DEF Exchanges

(* What a client does with the next frame adds nothing to any channel, and  *)
(* wakes nobody.                                                              *)
LEMMA Delivered ==
    ASSUME TypeOK, Channels, Wired, NEW x \in Clients, Deliver(x)
    PROVE  \A a, b \in Clients : Thins(a, b) /\ Stays(a, b)
<1>1. /\ down[x] \in Seq(Frames) /\ down[x] # <<>> /\ WellOrdered(down[x])
      /\ link[x] = "up" /\ UNCHANGED <<row, link, up>>
      /\ \A d \in Clients \ {x} : down'[d] = down[d]
      /\ down'[x] = Tail(down[x])
    BY DEF TypeOK, Wired, Deliver, Receive, server, OnRoomState, OnJoined, OnLeft,
           OnOffer, OnAnswer, OnIce
<1>2. \A d \in Clients \ {x}, e \in Clients : peer'[d][e] = peer[d][e]
    BY DEF TypeOK, Deliver, OnRoomState, OnJoined, OnLeft, OnOffer, OnAnswer, OnIce
<1>3. \A k, d : /\ From(down'[x], k, d) => From(down[x], k, d)
                /\ OnceFrom(down[x], k, d) => OnceFrom(down'[x], k, d)
    BY <1>1, TakenOnce
<1>4. ASSUME NEW a \in Clients, NEW b \in Clients
      PROVE  Thins(a, b)
    <2>1. CASE b = x
        BY <1>1, <1>3, <2>1 DEF Thins, InFlight, Once
    <2>2. CASE b # x
        BY <1>1, <2>2 DEF Thins, InFlight, Once
    <2> QED BY <2>1, <2>2
<1>5. ASSUME NEW a \in Clients, NEW b \in Clients, Dead(a, b)
      PROVE  Dead(a, b)'
    <2>1. CASE a # x
        BY <1>1, <1>2, <1>5, <2>1 DEF Dead
    <2>2. CASE a = x
        <3>1. /\ ~Known(peer[x][b]) /\ row[b] = "left" /\ ~Lists(down[x], b)
              /\ \A k : k # "room.state" => ~From(down[x], k, b)
            BY <1>1, <1>5, <2>2 DEF Dead
        <3>2. /\ ~Lists(down'[x], b)
              /\ \A k : k # "room.state" => ~From(down'[x], k, b)
            BY <1>1, <1>3, <3>1, Taken
        <3>3. ~Known(peer'[x][b])
            <4>1. CASE OnRoomState(x)
                <5>1. b \notin Head(down[x]).participants
                    BY <1>1, <3>1, <4>1 DEF OnRoomState, Receive, Lists
                <5> QED BY <3>1, <4>1, <5>1 DEF OnRoomState, TypeOK
            <4>2. CASE ~OnRoomState(x)
                <5> DEFINE e == Head(down[x]).who
                <5>1. Head(down[x]).type # "room.state"
                    BY <4>2 DEF Deliver, Receive, OnJoined, OnLeft, OnOffer, OnAnswer, OnIce
                <5>2. From(down[x], Head(down[x]).type, e)
                    BY <1>1, Taken
                <5>3. e # b
                    BY <3>1, <5>1, <5>2
                <5>4. e \in Clients
                    <6>1. Head(down[x]) \in FramesTo(x)
                        BY <1>1, HeadTailProperties DEF Channels
                    <6> QED BY <5>1, <6>1, Naming
                <5>5. \E q : peer' = [peer EXCEPT ![x][e] = q]
                    <6>1. CASE OnJoined(x)
                        BY <6>1 DEF OnJoined
                    <6>2. CASE OnLeft(x)
                        BY <6>2 DEF OnLeft
                    <6>3. CASE OnOffer(x)
                        BY <6>3 DEF OnOffer
                    <6>4. CASE OnAnswer(x)
                        BY <6>4 DEF OnAnswer
                    <6>5. CASE OnIce(x)
                        BY <6>5 DEF OnIce
                    <6> QED BY <4>2, <6>1, <6>2, <6>3, <6>4, <6>5 DEF Deliver
                <5> HIDE DEF e
                <5>6. peer'[x][b] = peer[x][b]
                    BY <5>3, <5>4, <5>5 DEF TypeOK
                <5> QED BY <3>1, <5>6
            <4> QED BY <4>1, <4>2
        <3> QED BY <1>1, <2>2, <3>1, <3>2, <3>3 DEF Dead
    <2> QED BY <2>1, <2>2
<1> QED BY <1>4, <1>5 DEF Stays

(* Sending adds the signal that is sent to one channel. *)
LEMMA Posting ==
    ASSUME TypeOK, NEW x \in Clients, NEW e \in Clients, NEW kind, Send(x, kind, e),
           down' = down
    PROVE  /\ \A a, b \in Clients : ~(a = x /\ b = e) => Thins(a, b)
           /\ kind = "ice" => Thins(x, e)
           /\ \A k \in {"offer", "answer"} \ {kind} :
                 /\ InFlight(k, x, e)' => InFlight(k, x, e)
                 /\ Once(k, x, e) => Once(k, x, e)'
           /\ Once(kind, x, e) /\ ~InFlight(kind, x, e) => Once(kind, x, e)'
<1> DEFINE s == [type |-> kind, to |-> e]
<1>1. /\ up[x] \in Seq(Signals) /\ up'[x] = Append(up[x], s)
      /\ \A a \in Clients \ {x} : up'[a] = up[a]
      /\ s.type = kind /\ s.to = e
    BY DEF Send, TypeOK
<1> HIDE DEF s
<1>2. \A k, d : /\ To(up'[x], k, d) <=> To(up[x], k, d) \/ (kind = k /\ e = d)
                /\ OnceTo(up[x], k, d) /\ ~(To(up[x], k, d) /\ kind = k /\ e = d)
                      => OnceTo(up'[x], k, d)
    BY <1>1, Sent
<1>3. ASSUME NEW a \in Clients, NEW b \in Clients, NEW k,
             ~(a = x /\ b = e) \/ k # kind
      PROVE  /\ InFlight(k, a, b)' => InFlight(k, a, b)
             /\ Once(k, a, b) => Once(k, a, b)'
    <2>1. CASE a = x
        BY <1>2, <1>3, <2>1 DEF InFlight, Once
    <2>2. CASE a # x
        BY <1>1, <2>2 DEF InFlight, Once
    <2> QED BY <2>1, <2>2
<1>4. Once(kind, x, e) /\ ~InFlight(kind, x, e) => Once(kind, x, e)'
    BY <1>2 DEF InFlight, Once
<1>5. \A a, b \in Clients : ~(a = x /\ b = e) => Thins(a, b)
    BY <1>3 DEF Thins
<1>6. kind = "ice" => Thins(x, e)
    BY <1>3 DEF Thins
<1> QED BY <1>3, <1>4, <1>5, <1>6

(* The steps of an exchange, as the two ends and the signals between them    *)
(* go through them; Both ends may be the one that offers.                    *)
Both(ph, in, ph2, in2, o12, a21, o21, a12) ==
    /\ Stages(ph, in, ph2, in2, o12, a21)
    /\ Stages(ph2, in2, ph, in, o21, a12)

LEMMA BothOf ==
    ASSUME NEW x, NEW e, Exchange(x, e), Exchange(e, x)
    PROVE  Both(peer[x][e].phase, peer[x][e].initiator,
                peer[e][x].phase, peer[e][x].initiator,
                InFlight("offer", x, e), InFlight("answer", e, x),
                InFlight("offer", e, x), InFlight("answer", x, e))
BY DEF Both, Exchange

(* A promise of x about e settles, or a candidate of x for e turns up. *)
LEMMA Advancing ==
    ASSUME TypeOK, Wired, NeverBothInitiate, Exchanges,
           NEW x \in Clients, NEW e \in Clients, x # e,
           Negotiate(x, e) \/ Trickle(x, e)
    PROVE  Exchanges'
<1> DEFINE p == peer[x][e]
<1>1. UNCHANGED <<row, link, down>>
    BY DEF Negotiate, Offered, Accepted, Answered, Applied, Trickle, server
<1>2. p \in Peers /\ Known(p)
    BY DEF TypeOK, Negotiate, Offered, Accepted, Answered, Applied, Trickle, HasLocal, Known
<1>3. \E r : peer' = [peer EXCEPT ![x][e] = r]
    BY DEF Negotiate, Offered, Accepted, Answered, Applied, Trickle
<1>4. \A a, b \in Clients : ~(a = x /\ b = e) => peer'[a][b] = peer[a][b]
    <2> HIDE DEF p
    <2> QED BY <1>3 DEF TypeOK
<1>5. \A a, b \in Clients : ~(a = x /\ b = e) => Thins(a, b)
    <2>1. CASE up' = up
        BY <1>1, <2>1 DEF Thins, InFlight, Once
    <2>2. CASE up' # up
        <3>1. \E kind : Send(x, kind, e)
            BY <2>2 DEF Negotiate, Offered, Accepted, Answered, Applied, Trickle
        <3> QED BY <1>1, <3>1, Posting
    <2> QED BY <2>1, <2>2
<1>6. \A a, b \in Clients : ~(a = x /\ b = e) => SameEnd(a, b) /\ Stays(a, b)
    BY <1>1, <1>4 DEF SameEnd, Stays, Dead
<1>7. ~Dead(x, e)
    BY <1>2 DEF Dead
<1>8. CASE Dead(e, x)
    <2>1. Dead(e, x)'
        BY <1>6, <1>8 DEF Stays
    <2> QED BY <1>5, <1>6, <2>1, PairMoves
<1>9. CASE ~Dead(e, x)
    <2>1. Exchange(x, e) /\ Exchange(e, x)
        BY <1>7, <1>9 DEF Exchanges
    <2> DEFINE ph == peer[x][e].phase
               in == peer[x][e].initiator
               ph2 == peer[e][x].phase
               in2 == peer[e][x].initiator
               o12 == InFlight("offer", x, e)
               a21 == InFlight("answer", e, x)
               o21 == InFlight("offer", e, x)
               a12 == InFlight("answer", x, e)
               nph == peer'[x][e].phase
               nin == peer'[x][e].initiator
               no12 == InFlight("offer", x, e)'
               na21 == InFlight("answer", e, x)'
               no21 == InFlight("offer", e, x)'
               na12 == InFlight("answer", x, e)'
    <2>2. Both(ph, in, ph2, in2, o12, a21, o21, a12)
        BY <2>1, BothOf
    <2>3. ~(in /\ in2)
        BY DEF NeverBothInitiate
    <2>4. peer'[e][x] = peer[e][x]
        BY <1>4
    <2>5. (na21 => a21) /\ (no21 => o21)
        BY <1>5 DEF Thins
    <2>6. Once("answer", e, x)' /\ Once("offer", e, x)'
        BY <1>5, <2>1 DEF Thins, Exchange
    <2>7. Once("offer", x, e) /\ Once("answer", x, e)
        BY <2>1 DEF Exchange
    <2>8. \/ /\ ph = "offering" /\ nph = "haveLocal" /\ Send(x, "offer", e)
          \/ /\ ph = "answering" /\ nph = "accepted" /\ up' = up
          \/ /\ ph = "accepted" /\ nph = "stable" /\ Send(x, "answer", e)
          \/ /\ ph = "applying" /\ nph = "stable" /\ up' = up
          \/ /\ nph = ph /\ Send(x, "ice", e)
        <3>1. CASE Offered(x, e)
            <4>1. peer' = [peer EXCEPT ![x][e] = [p EXCEPT !.phase = "haveLocal"]]
                BY <3>1 DEF Offered
            <4>2. peer'[x][e] = [p EXCEPT !.phase = "haveLocal"]
                BY <4>1 DEF TypeOK
            <4> HIDE DEF p
            <4>3. nph = "haveLocal"
                BY <1>2, <4>2 DEF Peers
            <4> QED BY <3>1, <4>3 DEF Offered
        <3>2. CASE Accepted(x, e)
            <4>1. peer' = [peer EXCEPT ![x][e] =
                              FlushCandidates([p EXCEPT !.phase = "accepted"])]
                BY <3>2 DEF Accepted
            <4>2. peer'[x][e] = FlushCandidates([p EXCEPT !.phase = "accepted"])
                BY <4>1 DEF TypeOK
            <4> HIDE DEF p
            <4>3. nph = "accepted"
                BY <1>2, <4>2 DEF Peers, FlushCandidates
            <4> QED BY <3>2, <4>3 DEF Accepted
        <3>3. CASE Answered(x, e)
            <4>1. peer' = [peer EXCEPT ![x][e] = [p EXCEPT !.phase = "stable"]]
                BY <3>3 DEF Answered
            <4>2. peer'[x][e] = [p EXCEPT !.phase = "stable"]
                BY <4>1 DEF TypeOK
            <4> HIDE DEF p
            <4>3. nph = "stable"
                BY <1>2, <4>2 DEF Peers
            <4> QED BY <3>3, <4>3 DEF Answered
        <3>4. CASE Applied(x, e)
            <4>1. peer' = [peer EXCEPT ![x][e] =
                              FlushCandidates([p EXCEPT !.phase = "stable"])]
                BY <3>4 DEF Applied
            <4>2. peer'[x][e] = FlushCandidates([p EXCEPT !.phase = "stable"])
                BY <4>1 DEF TypeOK
            <4> HIDE DEF p
            <4>3. nph = "stable"
                BY <1>2, <4>2 DEF Peers, FlushCandidates
            <4> QED BY <3>4, <4>3 DEF Applied
        <3>5. CASE Trickle(x, e)
            <4>1. peer' = [peer EXCEPT ![x][e] = [p EXCEPT !.trickled = TRUE]]
                BY <3>5 DEF Trickle
            <4>2. peer'[x][e] = [p EXCEPT !.trickled = TRUE]
                BY <4>1 DEF TypeOK
            <4>3. peer'[x][e].phase = p.phase
                <5> HIDE DEF p
                <5> QED BY <1>2, <4>2 DEF Peers
            <4> QED BY <3>5, <4>3 DEF Trickle
        <3> QED BY <3>1, <3>2, <3>3, <3>4, <3>5 DEF Negotiate
    <2>9. nin = in
        <3>1. \A r \in Peers, f \in Phases :
                 /\ [r EXCEPT !.phase = f].initiator = r.initiator
                 /\ FlushCandidates([r EXCEPT !.phase = f]).initiator = r.initiator
                 /\ [r EXCEPT !.trickled = TRUE].initiator = r.initiator
            BY DEF Peers, FlushCandidates
        <3>2. \E f \in Phases :
                 \/ peer' = [peer EXCEPT ![x][e] = [p EXCEPT !.phase = f]]
                 \/ peer' = [peer EXCEPT ![x][e] = FlushCandidates([p EXCEPT !.phase = f])]
                 \/ peer' = [peer EXCEPT ![x][e] = [p EXCEPT !.trickled = TRUE]]
            BY DEF Negotiate, Offered, Accepted, Answered, Applied, Trickle, Phases
        <3>3. \E f \in Phases :
                 \/ peer'[x][e] = [p EXCEPT !.phase = f]
                 \/ peer'[x][e] = FlushCandidates([p EXCEPT !.phase = f])
                 \/ peer'[x][e] = [p EXCEPT !.trickled = TRUE]
            <4>1. ASSUME NEW r, peer' = [peer EXCEPT ![x][e] = r]
                  PROVE  peer'[x][e] = r
                BY <4>1 DEF TypeOK
            <4> HIDE DEF p
            <4> QED BY <3>2, <4>1
        <3> HIDE DEF Phases
        <3> QED BY <1>2, <3>1, <3>3
    <2>10. /\ Send(x, "ice", e) \/ up' = up => Thins(x, e)
           /\ Send(x, "offer", e) => (na12 => a12) /\ (Once("answer", x, e) => Once("answer", x, e)')
                  /\ (Once("offer", x, e) /\ ~o12 => Once("offer", x, e)')
           /\ Send(x, "answer", e) => (no12 => o12) /\ (Once("offer", x, e) => Once("offer", x, e)')
                  /\ (Once("answer", x, e) /\ ~a12 => Once("answer", x, e)')
        <3>1. up' = up => Thins(x, e)
            BY <1>1 DEF Thins, InFlight, Once
        <3>2. Send(x, "ice", e) => Thins(x, e)
            BY <1>1, Posting
        <3>3. Send(x, "offer", e) =>
                 /\ \A k \in {"offer", "answer"} \ {"offer"} :
                       /\ InFlight(k, x, e)' => InFlight(k, x, e)
                       /\ Once(k, x, e) => Once(k, x, e)'
                 /\ Once("offer", x, e) /\ ~InFlight("offer", x, e) => Once("offer", x, e)'
            BY <1>1, Posting
        <3>4. Send(x, "answer", e) =>
                 /\ \A k \in {"offer", "answer"} \ {"answer"} :
                       /\ InFlight(k, x, e)' => InFlight(k, x, e)
                       /\ Once(k, x, e) => Once(k, x, e)'
                 /\ Once("answer", x, e) /\ ~InFlight("answer", x, e) => Once("answer", x, e)'
            BY <1>1, Posting
        <3> QED BY <3>1, <3>2, <3>3, <3>4
    <2>11. Thins(x, e) => (na12 => a12) /\ (no12 => o12)
                          /\ (Once("answer", x, e) => Once("answer", x, e)')
                          /\ (Once("offer", x, e) => Once("offer", x, e)')
        BY DEF Thins
    <2> DEFINE goal == /\ Once("offer", x, e)' /\ Once("answer", x, e)'
                       /\ Both(nph, nin, ph2, in2, no12, na21, no21, na12)
    <2>12. goal
        <3> HIDE DEF ph, in, ph2, in2, o12, a21, o21, a12, nph, nin, no12, na21, no21, na12
        <3>1. CASE ph = "offering" /\ nph = "haveLocal" /\ Send(x, "offer", e)
            <4>1. in /\ ~in2 /\ ~o12 /\ ~a21 /\ ph2 \in {"none", "new"}
                BY <2>2, <2>3, <3>1 DEF Both, Stages
            <4> QED BY <2>2, <2>5, <2>7, <2>9, <2>10, <3>1, <4>1 DEF Both, Stages
        <3>2. CASE ph = "answering" /\ nph = "accepted" /\ up' = up
            BY <2>2, <2>5, <2>7, <2>9, <2>10, <2>11, <3>2 DEF Both, Stages
        <3>3. CASE ph = "accepted" /\ nph = "stable" /\ Send(x, "answer", e)
            <4>1. ~in /\ in2 /\ ~a12 /\ ~o21 /\ ph2 = "haveLocal"
                BY <2>2, <2>3, <3>3 DEF Both, Stages
            <4> QED BY <2>2, <2>5, <2>7, <2>9, <2>10, <3>3, <4>1 DEF Both, Stages
        <3>4. CASE ph = "applying" /\ nph = "stable" /\ up' = up
            BY <2>2, <2>5, <2>7, <2>9, <2>10, <2>11, <3>4 DEF Both, Stages
        <3>5. CASE nph = ph /\ Send(x, "ice", e)
            BY <2>2, <2>5, <2>7, <2>9, <2>10, <2>11, <3>5 DEF Both, Stages
        <3> QED BY <2>8, <3>1, <3>2, <3>3, <3>4, <3>5
    <2>13. Exchange(x, e)' /\ Exchange(e, x)'
        BY <2>4, <2>6, <2>12 DEF Both, Exchange
    <2> QED BY <1>5, <1>6, <2>13, PairMoves
<1> QED BY <1>8, <1>9

(* The dispatch is given the next frame. *)
LEMMA Handling ==
    ASSUME TypeOK, Channels, Wired, OneWay, NeverBothInitiate, Exchanges,
           NEW x \in Clients, Deliver(x)
    PROVE  Exchanges'
<1>1. \A a, b \in Clients : Thins(a, b) /\ Stays(a, b)
    BY Delivered
<1>2. \A a \in Clients \ {x}, b \in Clients : peer'[a][b] = peer[a][b]
    BY DEF TypeOK, Deliver, OnRoomState, OnJoined, OnLeft, OnOffer, OnAnswer, OnIce
<1>3. \A b \in Clients : ~Known(peer[x][b]) =>
                            peer[x][b].phase = "none" /\ ~peer[x][b].initiator
    BY DEF Wired, Known
<1>4. CASE OnRoomState(x)
    <2>1. peer'[x] = [d \in Clients |-> IF d \in Head(down[x]).participants \ {x}
                         THEN AddPeer(peer[x][d], FALSE) ELSE peer[x][d]]
        BY <1>4 DEF OnRoomState, TypeOK
    <2>2. ASSUME NEW b \in Clients PROVE SameEnd(x, b)
        <3>1. peer'[x][b] = peer[x][b] \/ peer'[x][b] = AddPeer(peer[x][b], FALSE)
            BY <2>1
        <3>2. CASE peer'[x][b] = peer[x][b]
            BY <3>2 DEF SameEnd
        <3>3. CASE peer'[x][b] = AddPeer(peer[x][b], FALSE)
            <4>1. CASE Known(peer[x][b])
                BY <3>3, <4>1 DEF SameEnd, AddPeer
            <4>2. CASE ~Known(peer[x][b])
                <5>1. peer'[x][b].phase = "new" /\ peer'[x][b].initiator = FALSE
                    BY <3>3, <4>2 DEF AddPeer, CreatePeer, NoPeer
                <5>2. peer[x][b].initiator = FALSE
                    BY <1>3, <4>2 DEF TypeOK, Peers
                <5> QED BY <1>3, <4>2, <5>1, <5>2 DEF SameEnd
            <4> QED BY <4>1, <4>2
        <3> QED BY <3>1, <3>2, <3>3
    <2>3. \A a, b \in Clients : SameEnd(a, b)
        BY <1>2, <2>2 DEF SameEnd
    <2> QED BY <1>1, <2>3, Resting
<1>5. CASE ~OnRoomState(x)
    <2>1. /\ down[x] \in Seq(Frames) /\ down[x] # <<>> /\ WellOrdered(down[x])
          /\ link[x] = "up" /\ UNCHANGED <<row, link, up>>
          /\ down'[x] = Tail(down[x])
        BY DEF TypeOK, Wired, Deliver, Receive, server, OnRoomState, OnJoined, OnLeft,
               OnOffer, OnAnswer, OnIce
    <2> PICK e, t : e = Head(down[x]).who /\ t = Head(down[x]).type
        OBVIOUS
    <2> DEFINE p == peer[x][e]
    <2>2. t # "room.state"
        BY <1>5 DEF Deliver, Receive, OnJoined, OnLeft, OnOffer, OnAnswer, OnIce
    <2>3. e \in Clients /\ e # x
        <3>1. Head(down[x]) \in FramesTo(x)
            BY <2>1, HeadTailProperties DEF Channels
        <3> QED BY <2>2, <3>1, Naming
    <2>4. From(down[x], t, e)
        BY <2>1, Taken
    <2>5. ~Dead(x, e)
        BY <2>1, <2>2, <2>4 DEF Dead
    <2>6. \A k : From(down[x], k, e) /\ k = t /\ OnceFrom(down[x], k, e) => ~From(down'[x], k, e)
        BY <2>1, TakenOnce
    <2>7. ASSUME NEW q, peer' = [peer EXCEPT ![x][e] = q]
          PROVE  peer'[x][e] = q /\ \A d \in Clients \ {e} : peer'[x][d] = peer[x][d]
        <3> HIDE DEF p
        <3> QED BY <2>3, <2>7 DEF TypeOK
    <2>8. \E q : peer' = [peer EXCEPT ![x][e] = q]
        <3>1. CASE OnJoined(x)
            BY <3>1 DEF OnJoined
        <3>2. CASE OnLeft(x)
            BY <3>2 DEF OnLeft
        <3>3. CASE OnOffer(x)
            BY <3>3 DEF OnOffer
        <3>4. CASE OnAnswer(x)
            BY <3>4 DEF OnAnswer
        <3>5. CASE OnIce(x)
            BY <3>5 DEF OnIce
        <3> QED BY <1>5, <3>1, <3>2, <3>3, <3>4, <3>5 DEF Deliver
    <2>9. \A a, b \in Clients : ~(a = x /\ b = e) => peer'[a][b] = peer[a][b]
        <3>1. \A d \in Clients \ {e} : peer'[x][d] = peer[x][d]
            BY <2>7, <2>8
        <3> QED BY <1>2, <3>1
    <2>10. \A a, b \in Clients : ~(a = x /\ b = e) => SameEnd(a, b)
        BY <2>9 DEF SameEnd
    <2>11. p \in Peers /\ CreatePeer(FALSE) \in Peers
        BY <2>3, Creating DEF TypeOK, Sound
    <2>12. CASE OnLeft(x)
        <3>1. t = "peer.left" /\ peer' = [peer EXCEPT ![x][e] = NoPeer]
            BY <2>12 DEF OnLeft, Receive
        <3>2. ~Known(peer'[x][e])
            BY <2>7, <3>1 DEF NoPeer, Known
        <3>3. row[e] = "left"
            BY <2>3, <2>4, <3>1 DEF Wired, Leaves
        <3>4. /\ ~Lists(down'[x], e)
              /\ \A k : k # "room.state" => ~From(down'[x], k, e)
            <4>1. Head(down[x]).type = "peer.left" /\ Head(down[x]).who = e
                BY <3>1
            <4>2. /\ \A d \in Clients : ~Lists(Tail(down[x]), d)
                  /\ Head(down[x]).type = "peer.left" =>
                        \A k : k # "room.state" => ~From(Tail(down[x]), k, Head(down[x]).who)
                BY <2>1, Taken
            <4>3. \A k : k # "room.state" => ~From(Tail(down[x]), k, e)
                BY <4>1, <4>2
            <4> QED BY <2>1, <2>3, <4>2, <4>3
        <3>5. Dead(x, e)'
            BY <2>1, <3>2, <3>3, <3>4 DEF Dead
        <3> HIDE DEF p
        <3> QED BY <1>1, <2>3, <2>10, <3>5, PairMoves
    <2>13. CASE Dead(e, x)
        <3>1. Dead(e, x)'
            BY <1>1, <2>3, <2>13 DEF Stays
        <3> HIDE DEF p
        <3> QED BY <1>1, <2>3, <2>10, <3>1, PairMoves
    <2>14. CASE ~Dead(e, x) /\ ~OnLeft(x)
        <3>1. Exchange(x, e) /\ Exchange(e, x)
            BY <2>3, <2>5, <2>14 DEF Exchanges
        <3> DEFINE ph == peer[x][e].phase
                   in == peer[x][e].initiator
                   ph2 == peer[e][x].phase
                   in2 == peer[e][x].initiator
                   o12 == InFlight("offer", x, e)
                   a21 == InFlight("answer", e, x)
                   o21 == InFlight("offer", e, x)
                   a12 == InFlight("answer", x, e)
                   nph == peer'[x][e].phase
                   nin == peer'[x][e].initiator
                   no12 == InFlight("offer", x, e)'
                   na21 == InFlight("answer", e, x)'
                   no21 == InFlight("offer", e, x)'
                   na12 == InFlight("answer", x, e)'
        <3>2. Both(ph, in, ph2, in2, o12, a21, o21, a12)
            BY <3>1, BothOf
        <3>3. ~(in /\ in2)
            BY <2>3 DEF NeverBothInitiate
        <3>4. peer'[e][x] = peer[e][x]
            BY <2>3, <2>9
        <3>5. (no12 => o12) /\ (na21 => a21) /\ (no21 => o21) /\ (na12 => a12)
            BY <1>1, <2>3 DEF Thins
        <3>6. /\ Once("offer", x, e)' /\ Once("answer", e, x)'
              /\ Once("offer", e, x)' /\ Once("answer", x, e)'
            BY <1>1, <2>3, <3>1 DEF Thins, Exchange
        <3>7. t = "offer" => o21 /\ ~no21
            BY <2>1, <2>4, <2>6, <3>1 DEF Exchange, Once, InFlight
        <3>8. t = "answer" => a21 /\ ~na21
            BY <2>1, <2>4, <2>6, <3>1 DEF Exchange, Once, InFlight
        <3>9. ~Known(p) => ph = "none" /\ ~in
            BY <1>3, <2>3
        <3>10. Known(Signalled(p)) /\ Signalled(p) \in Peers
               /\ Signalled(p).phase \in {ph, "new"}
               /\ (Known(p) => Signalled(p) = p)
               /\ (Signalled(p).initiator => in)
               /\ (~Known(p) => Signalled(p).phase = "new" /\ ~Signalled(p).initiator)
            BY <2>11 DEF Signalled, CreatePeer, NoPeer, Known
        <3>11. \/ t = "offer" /\ (ph \in {"none", "new"} /\ ~in => nph = "answering" /\ ~nin)
               \/ t = "answer" /\ (ph = "haveLocal" => nph = "applying" /\ nin = in)
               \/ t = "ice" /\ nin = in /\ (nph = ph \/ (~in /\ ph = "none" /\ nph = "new"))
               \/ t = "peer.joined" /\ ((nin = in /\ nph = ph) \/
                     (ph = "none" /\ ~in /\ ~in2 /\ nph = "offering" /\ nin))
            <4>1. CASE OnOffer(x)
                <5> DEFINE q == Signalled(p)
                           n == IF OfferCollision(q) /\ q.initiator
                                   THEN q ELSE [q EXCEPT !.phase = "answering"]
                <5>1. t = "offer" /\ peer' = [peer EXCEPT ![x][e] = n]
                    BY <4>1 DEF OnOffer, Receive
                <5>2. peer'[x][e] = n
                    <6> HIDE DEF n
                    <6> QED BY <2>7, <5>1
                <5>3. q \in Peers /\ (~in => ~q.initiator)
                    BY <3>10
                <5> HIDE DEF q, p
                <5>4. ~in => nph = "answering" /\ ~nin
                    BY <5>2, <5>3 DEF Peers
                <5> QED BY <5>1, <5>4
            <4>2. CASE OnAnswer(x)
                <5> DEFINE q == Signalled(p)
                           n == IF q.phase = "haveLocal"
                                   THEN [q EXCEPT !.phase = "applying"] ELSE q
                <5>1. t = "answer" /\ peer' = [peer EXCEPT ![x][e] = n]
                    BY <4>2 DEF OnAnswer, Receive
                <5>2. peer'[x][e] = n
                    <6> HIDE DEF n
                    <6> QED BY <2>7, <5>1
                <5>3. ph = "haveLocal" => q = p
                    BY <3>10 DEF Known
                <5> HIDE DEF q
                <5>4. ph = "haveLocal" => nph = "applying" /\ nin = in
                    <6> SUFFICES ASSUME ph = "haveLocal"
                                 PROVE  nph = "applying" /\ nin = in
                        OBVIOUS
                    <6>1. peer'[x][e] = [p EXCEPT !.phase = "applying"]
                        BY <5>2, <5>3
                    <6>2. \A r \in Peers : /\ [r EXCEPT !.phase = "applying"].phase = "applying"
                                           /\ [r EXCEPT !.phase = "applying"].initiator = r.initiator
                        BY DEF Peers
                    <6> QED BY <2>11, <6>1, <6>2
                <5> QED BY <5>1, <5>4
            <4>3. CASE OnIce(x)
                <5> DEFINE q == Signalled(p)
                           n == [q EXCEPT !.pending = q.pending \/ ~HasRemote(q)]
                <5>1. t = "ice" /\ peer' = [peer EXCEPT ![x][e] = n]
                    BY <4>3 DEF OnIce, Receive
                <5>2. peer'[x][e] = n
                    <6> HIDE DEF n
                    <6> QED BY <2>7, <5>1
                <5>3. nph = q.phase /\ nin = q.initiator
                    <6>1. \A r \in Peers : \A b :
                              /\ [r EXCEPT !.pending = b].phase = r.phase
                              /\ [r EXCEPT !.pending = b].initiator = r.initiator
                        BY DEF Peers
                    <6> QED BY <3>10, <5>2, <6>1
                <5>4. CASE Known(p)
                    <6>1. q = p
                        BY <3>10, <5>4
                    <6>2. nph = ph /\ nin = in
                        BY <5>3, <6>1
                    <6>3. t = "ice"
                        BY <5>1
                    <6> HIDE DEF p, nph, nin, ph, in, in2
                    <6> QED BY <6>2, <6>3
                <5>5. CASE ~Known(p)
                    <6>1. in = FALSE /\ q.initiator = FALSE
                        <7>1. in \in BOOLEAN /\ q.initiator \in BOOLEAN
                            BY <2>11, <3>10 DEF Peers
                        <7> QED BY <3>9, <3>10, <5>5, <7>1
                    <6> QED BY <3>9, <3>10, <5>1, <5>3, <5>5, <6>1
                <5> QED BY <5>4, <5>5
            <4>4. CASE OnJoined(x)
                <5>1. t = "peer.joined" /\ peer' = [peer EXCEPT ![x][e] = AddPeer(p, TRUE)]
                    BY <4>4 DEF OnJoined, Receive
                <5>2. peer'[x][e] = AddPeer(p, TRUE)
                    BY <2>7, <5>1
                <5>3. CASE Known(p)
                    <6>1. peer'[x][e] = p
                        BY <5>2, <5>3 DEF AddPeer
                    <6>2. nph = ph /\ nin = in
                        BY <6>1
                    <6>3. t = "peer.joined"
                        BY <5>1
                    <6> HIDE DEF p, nph, nin, ph, in, in2
                    <6> QED BY <6>2, <6>3
                <5>4. CASE ~Known(p)
                    <6>1. nph = "offering" /\ nin
                        BY <5>2, <5>4 DEF AddPeer, CreatePeer, NoPeer
                    <6>2. CanInitiate(x, e)
                        BY <2>1, <2>2, <2>3, <2>4, <5>1, <5>4, Taken DEF CanInitiate, Joins
                    <6>3. ~in2
                        BY <2>3, <6>2 DEF OneWay, CanInitiate
                    <6> QED BY <3>9, <5>1, <5>4, <6>1, <6>3
                <5> QED BY <5>3, <5>4
            <4> QED BY <1>5, <2>14, <4>1, <4>2, <4>3, <4>4 DEF Deliver
        <3>12. Both(nph, nin, ph2, in2, no12, na21, no21, na12)
            <4> HIDE DEF p, ph, in, ph2, in2, o12, a21, o21, a12, nph, nin, no12, na21,
                         no21, na12
            <4>1. CASE t = "offer" /\ (ph \in {"none", "new"} /\ ~in => nph = "answering" /\ ~nin)
                <5>1. in2 /\ ~in /\ ph2 = "haveLocal" /\ ph \in {"none", "new"}
                    BY <3>2, <3>3, <3>7, <4>1 DEF Both, Stages
                <5> QED BY <3>2, <3>5, <3>7, <4>1, <5>1 DEF Both, Stages
            <4>2. CASE t = "answer" /\ (ph = "haveLocal" => nph = "applying" /\ nin = in)
                <5>1. in /\ ph = "haveLocal" /\ ph2 = "stable" /\ ~in2
                    BY <3>2, <3>8, <4>2 DEF Both, Stages
                <5> QED BY <3>2, <3>5, <3>8, <4>2, <5>1 DEF Both, Stages
            <4>3. CASE nin = in /\ (nph = ph \/ (~in /\ ph = "none" /\ nph = "new"))
                BY <3>2, <3>5, <4>3 DEF Both, Stages
            <4>4. CASE ph = "none" /\ ~in /\ ~in2 /\ nph = "offering" /\ nin
                BY <3>2, <3>5, <4>4 DEF Both, Stages
            <4> QED BY <3>11, <4>1, <4>2, <4>3, <4>4
        <3>13. Exchange(x, e)' /\ Exchange(e, x)'
            BY <3>4, <3>6, <3>12 DEF Both, Exchange
        <3> HIDE DEF p
        <3> QED BY <1>1, <2>3, <2>10, <3>13, PairMoves
    <2> QED BY <2>12, <2>13, <2>14
<1> QED BY <1>4, <1>5

(* leave is the end of every exchange of the client. *)
LEMMA Leaving ==
    ASSUME TypeOK, Exchanges, NEW x \in Clients, Leave(x)
    PROVE  Exchanges'
<1>1. /\ UNCHANGED row /\ link'[x] = "closed" /\ down'[x] = <<>>
      /\ up'[x] = <<>> \/ up'[x] = up[x]
      /\ \A a \in Clients \ {x} : /\ link'[a] = link[a] /\ down'[a] = down[a]
                                  /\ up'[a] = up[a] /\ peer'[a] = peer[a]
      /\ \A d \in Clients : peer'[x][d] = NoPeer
    BY DEF Leave, TypeOK, server
<1>2. \A d \in Clients : Dead(x, d)'
    BY <1>1 DEF Dead, NoPeer, Known
<1>3. \A a, b \in Clients : Thins(a, b)
    BY <1>1, EmptiedOnce DEF Thins, InFlight, Once
<1>4. \A a, b \in Clients : a # x => SameEnd(a, b) /\ Stays(a, b)
    BY <1>1 DEF SameEnd, Stays, Dead
<1>5. ASSUME NEW c \in Clients, NEW d \in Clients, c # d, c # x, d # x
      PROVE  Dead(c, d)' \/ Dead(d, c)' \/ Exchange(c, d)'
    <2>1. Dead(c, d) \/ Dead(d, c) \/ Exchange(c, d)
        BY <1>5 DEF Exchanges
    <2>2. CASE Exchange(c, d)
        BY <1>3, <1>4, <1>5, <2>2, Quiet
    <2> QED BY <1>4, <1>5, <2>1, <2>2 DEF Stays
<1> QED BY <1>2, <1>5 DEF Exchanges

(* What a broadcast does to the exchanges. *)
LEMMA ToldOnce ==
    ASSUME TypeOK, NEW S, NEW f, Broadcast(S, f)
    PROVE  \A c \in Clients : \A k, d :
              OnceFrom(down[c], k, d) /\ ~(From(down[c], k, d) /\ f.type = k /\ f.who = d)
                 => OnceFrom(down'[c], k, d)
<1> TAKE c \in Clients
<1>1. down[c] \in Seq(Frames)
    BY DEF TypeOK
<1>2. down'[c] = Append(down[c], f) \/ down'[c] = down[c]
    BY DEF Broadcast
<1> QED BY <1>1, <1>2, AppendedOnce

LEMMA Told ==
    ASSUME TypeOK, Wired, NEW S \in SUBSET Clients, NEW f \in Frames,
           f.type # "room.state", Broadcast(S, f),
           f.who \in Clients, row[f.who] = "open",
           f.type = "peer.left" => row'[f.who] = "left",
           \A d \in Clients : row[d] = "left" => row'[d] = "left",
           UNCHANGED <<link, peer>>
    PROVE  /\ \A a, b \in Clients : Stays(a, b)
           /\ \A a, b \in Clients : SameEnd(a, b)
           /\ \A c \in Clients : \A k, d :
                 k # f.type \/ d # f.who =>
                    /\ From(down'[c], k, d) <=> From(down[c], k, d)
                    /\ OnceFrom(down[c], k, d) => OnceFrom(down'[c], k, d)
<1>1. \A c \in Clients :
         /\ \A d \in Clients : Lists(down'[c], d) <=> Lists(down[c], d)
         /\ \A k, d : From(down'[c], k, d) <=>
                         \/ From(down[c], k, d)
                         \/ /\ f.type = k /\ f.who = d
                            /\ c \in S /\ link[c] = "up"
    BY Telling
<1>2. \A c \in Clients : \A k, d :
         OnceFrom(down[c], k, d) /\ ~(From(down[c], k, d) /\ f.type = k /\ f.who = d)
            => OnceFrom(down'[c], k, d)
    BY ToldOnce
<1>3. ASSUME NEW a \in Clients, NEW b \in Clients, Dead(a, b)
      PROVE  Dead(a, b)'
    <2>1. CASE link[a] = "closed"
        BY <1>3, <2>1 DEF Dead
    <2>2. CASE link[a] # "closed"
        <3>1. row[b] = "left" /\ row'[b] = "left" /\ b # f.who
            BY <1>3, <2>2 DEF Dead
        <3>2. ~Lists(down'[a], b) /\ \A k : k # "room.state" => ~From(down'[a], k, b)
            BY <1>1, <1>3, <2>2, <3>1 DEF Dead
        <3> QED BY <1>3, <3>1, <3>2 DEF Dead
    <2> QED BY <2>1, <2>2
<1>4. \A a, b \in Clients : Stays(a, b)
    BY <1>3 DEF Stays
<1>5. \A a, b \in Clients : SameEnd(a, b)
    BY DEF SameEnd
<1>6. ASSUME NEW c \in Clients, NEW k, NEW d, k # f.type \/ d # f.who
      PROVE  /\ From(down'[c], k, d) <=> From(down[c], k, d)
             /\ OnceFrom(down[c], k, d) => OnceFrom(down'[c], k, d)
    BY <1>1, <1>2, <1>6
<1> QED BY <1>4, <1>5, <1>6

(* The network and the server carry signals and add none. *)
LEMMA Carrying ==
    ASSUME TypeOK, Channels, Wired, Exchanges, NEW x \in Clients,
           Join(x) \/ Open(x) \/ Announce(x) \/ Relay(x) \/ Teardown(x)
              \/ Drop(x) \/ Refused(x)
    PROVE  Exchanges'
<1>1. CASE Join(x)
    <2>1. /\ UNCHANGED <<link, down, up, peer>>
          /\ \A d \in Clients : row[d] = "left" => row'[d] = "left"
        BY <1>1 DEF Join, TypeOK
    <2>2. \A a, b \in Clients : Thins(a, b) /\ SameEnd(a, b) /\ Stays(a, b)
        BY <2>1 DEF Thins, InFlight, Once, SameEnd, Stays, Dead
    <2> QED BY <2>2, Resting
<1>2. CASE Open(x)
    <2> DEFINE f == [type |-> "room.state", participants |-> {d \in Clients : row[d] = "open"}]
    <2>1. /\ UNCHANGED <<row, up, peer>> /\ down'[x] = <<f>>
          /\ link[x] # "closed"
          /\ \A d \in Clients \ {x} : down'[d] = down[d] /\ link'[d] = link[d]
        BY <1>2 DEF Open, TypeOK
    <2>2. /\ Len(<<f>>) = 1 /\ <<f>>[1] = f /\ Head(<<f>>) = f
          /\ \A i \in 1..1 : i = 1
          /\ f.type = "room.state" /\ f.participants = {d \in Clients : row[d] = "open"}
        OBVIOUS
    <2>3. \A d \in Clients : row[d] = "left" => ~Lists(<<f>>, d)
        BY <2>2 DEF Lists
    <2>4. \A k, d : k # "room.state" => ~From(<<f>>, k, d) /\ OnceFrom(<<f>>, k, d)
        BY <2>2 DEF From, OnceFrom
    <2> HIDE DEF f
    <2>5. ASSUME NEW a \in Clients, NEW b \in Clients
          PROVE  Thins(a, b) /\ SameEnd(a, b) /\ Stays(a, b)
        <3>1. Thins(a, b)
            <4>1. CASE b = x
                BY <2>1, <2>4, <4>1 DEF Thins, InFlight, Once
            <4>2. CASE b # x
                BY <2>1, <4>2 DEF Thins, InFlight, Once
            <4> QED BY <4>1, <4>2
        <3>2. SameEnd(a, b)
            BY <2>1 DEF SameEnd
        <3>3. Stays(a, b)
            <4>1. CASE a = x
                BY <2>1, <2>3, <2>4, <4>1 DEF Stays, Dead
            <4>2. CASE a # x
                BY <2>1, <4>2 DEF Stays, Dead
            <4> QED BY <4>1, <4>2
        <3> QED BY <3>1, <3>2, <3>3
    <2> QED BY <2>5, Resting
<1>3. CASE Announce(x) \/ Teardown(x)
    <2>1. PICK f \in Frames, S \in SUBSET Clients :
             /\ f.type \in {"peer.joined", "peer.left"} /\ f.who = x
             /\ f.type = "peer.left" => row'[x] = "left"
             /\ Broadcast(S, f)
        <3>1. CASE Announce(x)
            <4> DEFINE f == [type |-> "peer.joined", who |-> x]
            <4>1. f \in Frames /\ f.type = "peer.joined" /\ f.who = x
                BY DEF Frames
            <4>2. Broadcast(InRoom \ {x}, f)
                BY <3>1 DEF Announce
            <4> HIDE DEF f
            <4> QED BY <4>1, <4>2 DEF InRoom
        <3>2. CASE Teardown(x)
            <4> DEFINE f == [type |-> "peer.left", who |-> x]
            <4>1. f \in Frames /\ f.type = "peer.left" /\ f.who = x
                BY DEF Frames
            <4>2. Broadcast(InRoom \ {x}, f) /\ row'[x] = "left"
                BY <3>2 DEF Teardown, TypeOK
            <4> HIDE DEF f
            <4> QED BY <4>1, <4>2 DEF InRoom
        <3> QED BY <1>3, <3>1, <3>2
    <2>2. /\ UNCHANGED <<link, peer>> /\ row[x] = "open"
          /\ \A a \in Clients : up'[a] = up[a] \/ up'[a] = <<>>
          /\ \A d \in Clients : row[d] = "left" => row'[d] = "left"
        BY <1>3 DEF Announce, Teardown, server, Wired, TypeOK
    <2>3. /\ f.type # "room.state" /\ f.who \in Clients /\ row[f.who] = "open"
          /\ f.type = "peer.left" => row'[f.who] = "left"
          /\ f.type # "offer" /\ f.type # "answer" /\ Broadcast(S, f)
        BY <2>1, <2>2
    <2>4. /\ \A a, b \in Clients : Stays(a, b)
          /\ \A a, b \in Clients : SameEnd(a, b)
          /\ \A c \in Clients : \A k, d :
                k # f.type \/ d # f.who =>
                   /\ From(down'[c], k, d) <=> From(down[c], k, d)
                   /\ OnceFrom(down[c], k, d) => OnceFrom(down'[c], k, d)
        BY <2>2, <2>3, Told
    <2>5. \A a, b \in Clients : Thins(a, b)
        BY <2>2, <2>3, <2>4, EmptiedOnce DEF Thins, InFlight, Once
    <2> QED BY <2>4, <2>5, Resting
<1>4. CASE Relay(x)
    <2> PICK k0, e : k0 = Head(up[x]).type /\ e = Head(up[x]).to
        OBVIOUS
    <2> DEFINE f == [type |-> k0, who |-> x]
    <2>1. /\ up[x] \in Seq(Signals) /\ up[x] # <<>> /\ up'[x] = Tail(up[x])
          /\ \A a \in Clients \ {x} : up'[a] = up[a]
          /\ UNCHANGED <<row, link, peer>> /\ row[x] = "open"
          /\ Broadcast(InRoom \intersect {e}, f)
        BY <1>4 DEF Relay, TypeOK, server, Wired
    <2>2. k0 \in SignalKinds
        <3>1. Head(up[x]) \in SignalsOf(x)
            BY <2>1, HeadTailProperties DEF Channels
        <3> QED BY <3>1 DEF SignalsOf, Signals
    <2>3. /\ f \in Frames /\ f.type = k0 /\ f.who = x
          /\ f.type # "room.state" /\ f.type # "peer.left"
        BY <2>2 DEF Frames, SignalKinds
    <2>4. InRoom \intersect {e} \in SUBSET Clients
        BY DEF InRoom
    <2>5. \A b \in Clients : b # e => down'[b] = down[b]
        BY <2>1 DEF Broadcast
    <2> HIDE DEF f
    <2>6. f.who \in Clients /\ row[f.who] = "open"
        BY <2>1, <2>3
    <2>7. /\ \A a, b \in Clients : Stays(a, b)
          /\ \A a, b \in Clients : SameEnd(a, b)
          /\ \A c \in Clients : \A k, d :
                k # f.type \/ d # f.who =>
                   /\ From(down'[c], k, d) <=> From(down[c], k, d)
                   /\ OnceFrom(down[c], k, d) => OnceFrom(down'[c], k, d)
        BY <2>1, <2>3, <2>4, <2>6, Told
    <2>8. \A c \in Clients : \A k, d :
             OnceFrom(down[c], k, d) /\ ~(From(down[c], k, d) /\ f.type = k /\ f.who = d)
                => OnceFrom(down'[c], k, d)
        BY <2>1, ToldOnce
    <2>9. \A k, d :
             /\ To(up'[x], k, d) => To(up[x], k, d)
             /\ OnceTo(up[x], k, d) => OnceTo(up'[x], k, d)
             /\ k0 = k /\ e = d =>
                   To(up[x], k, d) /\ (OnceTo(up[x], k, d) => ~To(up'[x], k, d))
        <3>1. \A k, d :
                 /\ To(Tail(up[x]), k, d) => To(up[x], k, d)
                 /\ OnceTo(up[x], k, d) => OnceTo(Tail(up[x]), k, d)
                 /\ Head(up[x]).type = k /\ Head(up[x]).to = d =>
                       To(up[x], k, d) /\ (OnceTo(up[x], k, d) => ~To(Tail(up[x]), k, d))
            BY <2>1, Shipped
        <3> QED BY <2>1, <3>1
    <2>10. ASSUME NEW a \in Clients, NEW b \in Clients, NEW k \in {"offer", "answer"}
           PROVE  /\ InFlight(k, a, b)' => InFlight(k, a, b)
                  /\ Once(k, a, b) => Once(k, a, b)'
        <3>1. CASE a # x
            BY <2>1, <2>3, <2>7, <3>1 DEF InFlight, Once
        <3>2. CASE a = x /\ b # e
            BY <2>5, <2>9, <3>2 DEF InFlight, Once
        <3>3. CASE a = x /\ b = e /\ k # k0
            BY <2>3, <2>7, <2>9, <3>3 DEF InFlight, Once
        <3>4. CASE a = x /\ b = e /\ k = k0
            BY <2>3, <2>8, <2>9, <3>4 DEF InFlight, Once
        <3> QED BY <3>1, <3>2, <3>3, <3>4
    <2>11. \A a, b \in Clients : Thins(a, b)
        BY <2>10 DEF Thins
    <2> QED BY <2>7, <2>11, Resting
<1>5. CASE Drop(x) \/ Refused(x)
    <2>1. /\ UNCHANGED <<row, peer>>
          /\ \A a \in Clients : /\ up'[a] = up[a] \/ up'[a] = <<>>
                                /\ down'[a] = down[a] \/ down'[a] = <<>>
                                /\ link[a] = "closed" => link'[a] = "closed"
        BY <1>5 DEF Drop, Refused, TypeOK, server
    <2>2. \A a, b \in Clients : Thins(a, b)
        BY <2>1, EmptiedOnce DEF Thins, InFlight, Once
    <2>3. \A a, b \in Clients : SameEnd(a, b) /\ Stays(a, b)
        BY <2>1, Emptied DEF SameEnd, Stays, Dead
    <2> QED BY <2>2, <2>3, Resting
<1> QED BY <1>1, <1>2, <1>3, <1>4, <1>5

LEMMA ExchangesStep ==
    ASSUME IInv, RolesInv, Exchanges, [Next]_vars
    PROVE  Exchanges'
<1>1. TypeOK /\ Channels /\ Wired /\ OneWay
    BY DEF IInv, RolesInv
<1>2. NeverBothInitiate
    BY NoGlareInv
<1>3. ASSUME NEW c \in Clients, Join(c) \/ Open(c) \/ Announce(c) \/ Relay(c)
                \/ Teardown(c) \/ Drop(c) \/ Refused(c)
      PROVE  Exchanges'
    BY <1>1, <1>3, Carrying
<1>4. ASSUME NEW c \in Clients, Leave(c) PROVE Exchanges'
    BY <1>1, <1>4, Leaving
<1>5. ASSUME NEW c \in Clients, Deliver(c) PROVE Exchanges'
    BY <1>1, <1>2, <1>5, Handling
<1>6. ASSUME NEW c \in Clients, NEW d \in Clients, Negotiate(c, d) \/ Trickle(c, d)
      PROVE  Exchanges'
    <2>1. c # d
        BY <1>1, <1>6 DEF TypeOK, NoPeer, Negotiate, Offered, Accepted, Answered,
                          Applied, Trickle, HasLocal
    <2> QED BY <1>1, <1>2, <1>6, <2>1, Advancing
<1>7. CASE UNCHANGED vars
    <2>1. \A a, b \in Clients : Thins(a, b) /\ SameEnd(a, b) /\ Stays(a, b)
        BY <1>7 DEF vars, server, Thins, InFlight, Once, SameEnd, Stays, Dead
    <2> QED BY <2>1, Resting
<1> QED BY <1>3, <1>4, <1>5, <1>6, <1>7 DEF Next

(* Every exchange is where its two ends and its signals say it is, until    *)
(* one of the ends is dead to the other.                                     *)
THEOREM ExchangesInvariance == Spec => []Exchanges
<1>1. Init => Exchanges
    <2> SUFFICES ASSUME Init, NEW c \in Clients, NEW d \in Clients
                 PROVE  Exchange(c, d)
        BY DEF Exchanges
    <2>1. \A a, b \in Clients : /\ peer[a][b].phase = "none" /\ peer[a][b].initiator = FALSE
                                /\ down[a] = <<>> /\ up[a] = <<>>
        BY DEF Init, NoPeer
    <2> QED BY <2>1, EmptiedOnce DEF Exchange, Once, InFlight, Stages
<1>2. IInv /\ RolesInv /\ Exchanges /\ [Next]_vars => Exchanges'
    BY ExchangesStep
<1> QED BY <1>1, <1>2, Invariance, RolesInvariance, PTL DEF Spec

(* Two clients that hold a connection to each other agree about it, however *)
(* the offer, the answer, drops, departures and returns overlap: when the    *)
(* initiator is done so is the other end, and who has answered was offered   *)
(* to by an initiator that waits for the answer, is setting it or is done    *)
(* (handleSignal, handleOffer).                                              *)
THEOREM AgreementOfEnds == Spec => []EndsAgree
<1>1. IInv /\ Exchanges => EndsAgree
    <2> SUFFICES ASSUME IInv, Exchanges, NEW c \in Clients, NEW d \in Clients,
                        Known(peer[c][d]), Known(peer[d][c]),
                        peer[c][d].phase = "stable"
                 PROVE  IF peer[c][d].initiator
                           THEN peer[d][c].phase = "stable"
                           ELSE peer[d][c].phase \in {"haveLocal", "applying", "stable"}
        BY DEF EndsAgree
    <2>1. c # d
        BY DEF IInv, TypeOK, NoPeer
    <2>2. Exchange(c, d) /\ Exchange(d, c)
        BY <2>1 DEF Exchanges, Dead
    <2>3. CASE peer[c][d].initiator
        BY <2>2, <2>3 DEF Exchange, Stages
    <2>4. CASE ~peer[c][d].initiator
        BY <2>2, <2>4 DEF Exchange, Stages
    <2> QED BY <2>3, <2>4
<1> QED BY <1>1, Invariance, ExchangesInvariance, PTL
=============================================================================
