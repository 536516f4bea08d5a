---------------------------- MODULE MeetingStore ----------------------------
(***************************************************************************)
(* The store of the meeting page: one per browser tab, which every visit   *)
(* to a meeting writes to and clears when it goes.  Its operations are     *)
(* functions from one store to the next.                                   *)
(*                                                                         *)
(* A participant is the id of its row: the flags are in Media.  Remote     *)
(* streams and connection states are entered and dropped with it and left  *)
(* out.                                                                    *)
(***************************************************************************)
EXTENDS Integers, Sequences

NoOne == 0

initialState ==
    [self |-> NoOne, participants |-> {}, messages |-> <<>>, localStream |-> 0]

setRoomState(s, self, rows) ==
    [s EXCEPT !.self = self, !.participants = rows]

upsertParticipant(s, id) == [s EXCEPT !.participants = @ \union {id}]

removeParticipant(s, id) == [s EXCEPT !.participants = @ \ {id}]

setLocalStream(s, stream) == [s EXCEPT !.localStream = stream]

addMessage(s, message) ==
    IF \E i \in DOMAIN s.messages : s.messages[i] = message THEN s
    ELSE [s EXCEPT !.messages = Append(@, message)]

setMessages(s, list) == [s EXCEPT !.messages = list]

(* What selectOrderedParticipants computes: oneself, then the others. *)
ordered(s) == <<s.participants \intersect {s.self}, s.participants \ {s.self}>>
=============================================================================
