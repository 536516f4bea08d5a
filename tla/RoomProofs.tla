------------------------------ MODULE RoomProofs ------------------------------
(***************************************************************************)
(* The safety of Room, for every set of rows, sockets and requests and     *)
(* every MaxMesh.  None of the invariants of Room is inductive alone: a    *)
(* row is safely bound to a socket only because that socket's handler      *)
(* knows its participant (WhoOK), rosters stay complete only because a     *)
(* host.remove in progress is about a row already closed (TargetOK) and a  *)
(* join in progress about a row nobody has seen (ReqOK), and the newest    *)
(* socket is the newest because ranks only grow (EntryOK).  IInv joins     *)
(* them.                                                                   *)
(***************************************************************************)
EXTENDS Room, TLAPS, FiniteSetTheorems

(* A socket past authenticate belongs to a row that exists. *)
WhoOK ==
    \A c \in Sockets :
        pc[c] \in Serving \union {"accepting"} =>
            who[c] \in Participants /\ row[who[c]] # "none"

(* The row a host.remove is about was closed before its first await. *)
TargetOK ==
    \A c \in Sockets :
        pc[c] \in {"removeTelling", "removeClosing"} =>
            target[c] \in Participants /\ row[target[c]] = "left"

(* A row about to be inserted is known to one request only and to nobody    *)
(* else; a row about to be removed exists.                                   *)
ReqOK ==
    \A t \in Threads :
        /\ req[t].op \in {"join", "remove"} => req[t].p \in Participants
        /\ req[t].op = "join" =>
             /\ row[req[t].p] = "none"
             /\ \A u \in Threads \ {t} : req[u].p # req[t].p
        /\ req[t].op = "remove" => row[req[t].p] # "none"

(* A row is bound to a socket only once it exists. *)
OwnerRow == \A p \in Participants : row[p] = "none" => owner[p] = None

(* Ranks are handed out in increasing order. *)
EntryOK == \A c \in Sockets : entry[c] <= added

(* RosterComplete, and a client shows itself before it is announced. *)
RosterInv ==
    \A c, d \in room :
        (pc[d] # "greeting" \/ d = c) /\ row[who[d]] = "open"
            => who[d] \in roster[c]

(* A client is told nothing before room.state. *)
RosterEmpty ==
    \A c \in Sockets : pc[c] \in {"idle", "accepting"} => roster[c] = {}

IInv == /\ TypeOK
        /\ WhoOK /\ TargetOK /\ ReqOK /\ OwnerRow
        /\ EntryOK /\ NoLeak /\ OwnerServed /\ OwnerIsNewest
        /\ RosterInv /\ RosterEmpty

USE DEF Places, Serving, Statuses

LEMMA RequestType ==
    ASSUME NEW op \in {"none", "join", "start", "end", "cancel", "remove"}
    PROVE  Request(op) \in Requests
BY DEF Request, Requests

LEMMA InitIInv == Init => IInv
<1> SUFFICES ASSUME Init PROVE IInv
  OBVIOUS
<1>1. TypeOK
  BY RequestType DEF Init, TypeOK, NoRequest
<1>2. WhoOK /\ TargetOK /\ ReqOK /\ OwnerRow
  BY DEF Init, WhoOK, TargetOK, ReqOK, OwnerRow, NoRequest, Request
<1>3. EntryOK /\ NoLeak /\ OwnerServed /\ OwnerIsNewest
  BY RoomAssumption DEF Init, EntryOK, NoLeak, OwnerServed, OwnerIsNewest, room
<1>4. RosterInv /\ RosterEmpty
  BY DEF Init, RosterInv, RosterEmpty, room
<1> QED BY <1>1, <1>2, <1>3, <1>4 DEF IInv

-----------------------------------------------------------------------------
(* Every step preserves each part of IInv. *)

LEMMA TypeStep == ASSUME TypeOK, WhoOK, ReqOK, [Next]_vars PROVE TypeOK'
<1>1. CASE \E t \in Threads, p \in Participants : JoinCheck(t, p)
  BY RequestType, <1>1
     DEF TypeOK, WhoOK, ReqOK, NoRequest, JoinCheck, Requests, Receive, Open,
         meeting, rows, sockets, registry
<1>2. CASE \E t \in Threads, p \in Participants : RemoveCheck(t, p)
  BY RequestType, <1>2
     DEF TypeOK, WhoOK, ReqOK, NoRequest, RemoveCheck, Requests, Receive,
         meeting, rows, sockets, registry
<1>3. CASE \E t \in Threads : StartCheck(t)
  BY RequestType, <1>3
     DEF TypeOK, WhoOK, ReqOK, NoRequest, StartCheck, Requests, Receive,
         meeting, rows, sockets, registry
<1>4. CASE \E t \in Threads : CancelCheck(t)
  BY RequestType, <1>4
     DEF TypeOK, WhoOK, ReqOK, NoRequest, CancelCheck, Receive, meeting, rows,
         sockets, registry
<1>5. CASE \E t \in Threads : EndCheck(t)
  BY RequestType, <1>5
     DEF TypeOK, WhoOK, ReqOK, NoRequest, EndCheck, Receive, meeting, rows,
         sockets, registry
<1>6. CASE \E t \in Threads : JoinCommit(t)
  <2> SUFFICES ASSUME NEW t \in Threads, JoinCommit(t) PROVE TypeOK'
    BY <1>6
  <2>1. req' \in [Threads -> Requests]
    BY RequestType DEF TypeOK, JoinCommit, Answer, NoRequest
  <2>2. row' \in [Participants -> {"none", "open", "left"}]
    BY DEF ReqOK, JoinCommit, TypeOK
  <2>3. status' \in Statuses /\ ended' \in BOOLEAN
    BY DEF JoinCommit, GoLive, TypeOK
  <2> QED BY <2>1, <2>2, <2>3 DEF TypeOK, JoinCommit, sockets, registry
<1>7. CASE \E t \in Threads : StartCommit(t)
  BY RequestType, <1>7
     DEF TypeOK, WhoOK, ReqOK, NoRequest, StartCommit, GoLive, Answer, rows,
         sockets, registry
<1>8. CASE \E t \in Threads : CancelCommit(t)
  BY RequestType, <1>8
     DEF TypeOK, WhoOK, ReqOK, NoRequest, CancelCommit, Answer, rows, sockets,
         registry
<1>9. CASE \E t \in Threads : EndCommit(t)
  BY RequestType, <1>9
     DEF TypeOK, WhoOK, ReqOK, NoRequest, EndCommit, EvictAll, Open, Answer,
         sockets, registry
<1>10. CASE \E t \in Threads : RemoveCommit(t)
  <2> SUFFICES ASSUME NEW t \in Threads, RemoveCommit(t) PROVE TypeOK'
    BY <1>10
  <2>1. req' \in [Threads -> Requests]
    BY RequestType DEF TypeOK, RemoveCommit, Answer, NoRequest
  <2>2. req[t].p \in Participants
    BY DEF ReqOK, RemoveCommit
  <2>3. row' \in [Participants -> {"none", "open", "left"}]
    BY <2>2 DEF RemoveCommit, TypeOK
  <2>4. owner' \in [Participants -> Sockets \union {None}]
    BY <2>2 DEF RemoveCommit, TypeOK
  <2> QED
    BY <2>1, <2>3, <2>4 DEF TypeOK, RemoveCommit, meeting, sockets, registry
<1>11. CASE \E c \in Sockets, p \in Participants : Connect(c, p)
  BY RequestType, <1>11
     DEF TypeOK, WhoOK, ReqOK, NoRequest, Connect, Goto, meeting, rows,
         registry
<1>12. CASE \E c \in Sockets, p \in Participants : HostRemove(c, p)
  BY RequestType, <1>12
     DEF TypeOK, WhoOK, ReqOK, NoRequest, HostRemove, Handle, MarkLeft, Goto,
         meeting, registry
<1>13. CASE \E c \in Sockets : Refuse(c)
  BY RequestType, <1>13
     DEF TypeOK, WhoOK, ReqOK, NoRequest, Refuse, HasSpace, Goto, meeting,
         rows, registry
<1>14. CASE \E c \in Sockets : Admit(c)
  BY RequestType, <1>14
     DEF TypeOK, WhoOK, ReqOK, NoRequest, Admit, HasSpace, Open, Goto, meeting
<1>15. CASE \E c \in Sockets : Announce(c)
  BY RequestType, <1>15
     DEF TypeOK, WhoOK, ReqOK, NoRequest, Announce, TellJoined, room, Goto,
         meeting, rows, registry
<1>16. CASE \E c \in Sockets : Teardown(c)
  BY RequestType, <1>16
     DEF TypeOK, WhoOK, ReqOK, NoRequest, Teardown, ToldOfLeaving, Releases,
         Deregister,
         MarkLeft, room, Goto, meeting, rows
<1>17. CASE \E c \in Sockets : HostRemoveAnnounce(c)
  BY RequestType, <1>17
     DEF TypeOK, WhoOK, ReqOK, NoRequest, HostRemoveAnnounce, TellLeft, room,
         Goto, meeting, rows, registry
<1>18. CASE \E c \in Sockets : HostRemoveClose(c)
  BY RequestType, <1>18
     DEF TypeOK, WhoOK, ReqOK, NoRequest, HostRemoveClose, Close, Deregister,
         Goto, meeting, rows, registry
<1>19. CASE \E c \in Sockets : HostEnd(c)
  BY RequestType, <1>19
     DEF TypeOK, WhoOK, ReqOK, NoRequest, HostEnd, Handle, EvictAll, Open,
         Goto, registry
<1>20. CASE \E c \in Sockets : HostEndList(c)
  BY RequestType, <1>20
     DEF TypeOK, WhoOK, ReqOK, NoRequest, HostEndList, room, Goto, meeting,
         rows, registry
<1>21. CASE \E c \in Sockets : HostEndClose(c)
  BY RequestType, <1>21
     DEF TypeOK, WhoOK, ReqOK, NoRequest, HostEndClose, Close, Deregister,
         meeting, rows
<1>22. CASE \E c \in Sockets : HostEndDone(c)
  BY RequestType, <1>22
     DEF TypeOK, WhoOK, ReqOK, NoRequest, HostEndDone, Goto, meeting, rows,
         registry
<1>23. CASE Restart
  BY RequestType, <1>23
     DEF TypeOK, WhoOK, ReqOK, NoRequest, Restart, meeting, rows
<1>24. CASE UNCHANGED vars
  BY RequestType, <1>24
     DEF TypeOK, WhoOK, ReqOK, NoRequest, vars, meeting, rows, sockets,
         registry
<1> QED
  BY <1>1, <1>2, <1>3, <1>4, <1>5, <1>6, <1>7, <1>8, <1>9, <1>10, <1>11,
     <1>12, <1>13, <1>14, <1>15, <1>16, <1>17, <1>18, <1>19, <1>20, <1>21,
     <1>22, <1>23, <1>24
     DEF Next, RestNext, SocketNext

LEMMA RowsStep ==
    ASSUME TypeOK, WhoOK, TargetOK, ReqOK, [Next]_vars
    PROVE  WhoOK' /\ TargetOK' /\ ReqOK'
<1>1. CASE \E t \in Threads, p \in Participants : JoinCheck(t, p)
  BY RoomAssumption, <1>1
     DEF TypeOK, WhoOK, TargetOK, ReqOK, NoRequest, Request, Requests,
         JoinCheck, Requests, Receive, Open, meeting, rows, sockets, registry
<1>2. CASE \E t \in Threads, p \in Participants : RemoveCheck(t, p)
  BY RoomAssumption, <1>2
     DEF TypeOK, WhoOK, TargetOK, ReqOK, NoRequest, Request, Requests,
         RemoveCheck, Requests, Receive, meeting, rows, sockets, registry
<1>3. CASE \E t \in Threads : StartCheck(t)
  BY RoomAssumption, <1>3
     DEF TypeOK, WhoOK, TargetOK, ReqOK, NoRequest, Request, Requests,
         StartCheck, Requests, Receive, meeting, rows, sockets, registry
<1>4. CASE \E t \in Threads : CancelCheck(t)
  BY RoomAssumption, <1>4
     DEF TypeOK, WhoOK, TargetOK, ReqOK, NoRequest, Request, Requests,
         CancelCheck, Receive, meeting, rows, sockets, registry
<1>5. CASE \E t \in Threads : EndCheck(t)
  BY RoomAssumption, <1>5
     DEF TypeOK, WhoOK, TargetOK, ReqOK, NoRequest, Request, Requests,
         EndCheck, Receive, meeting, rows, sockets, registry
<1>6. CASE \E t \in Threads : JoinCommit(t)
  <2> SUFFICES ASSUME NEW t \in Threads, JoinCommit(t)
               PROVE  WhoOK' /\ TargetOK' /\ ReqOK'
    BY <1>6
  <2>1. /\ req[t].p \in Participants
        /\ row[req[t].p] = "none"
        /\ \A u \in Threads \ {t} : req[u].p # req[t].p
    BY DEF ReqOK, JoinCommit
  <2>2. WhoOK' /\ TargetOK'
    BY <2>1 DEF JoinCommit, TypeOK, WhoOK, TargetOK, sockets, registry
  <2>3. ReqOK'
    <3> SUFFICES ASSUME NEW u \in Threads PROVE ReqOK!(u)'
      BY DEF ReqOK
    <3>1. CASE u = t
      BY <3>1 DEF TypeOK, JoinCommit, Answer, NoRequest, Request
    <3>2. CASE u # t
      <4>1. /\ req'[u] = req[u]
            /\ req'[t] = NoRequest
            /\ \A v \in Threads : v # t => req'[v] = req[v]
        BY <3>2 DEF TypeOK, JoinCommit, Answer
      <4>2. \A p \in Participants : p # req[t].p => row'[p] = row[p]
        BY DEF TypeOK, JoinCommit
      <4> QED
        BY <2>1, <3>2, <4>1, <4>2, RoomAssumption DEF ReqOK, NoRequest, Request
    <3> QED BY <3>1, <3>2
  <2> QED BY <2>2, <2>3
<1>7. CASE \E t \in Threads : StartCommit(t)
  BY RoomAssumption, <1>7
     DEF TypeOK, WhoOK, TargetOK, ReqOK, NoRequest, Request, Requests,
         StartCommit, GoLive, Answer, rows, sockets, registry
<1>8. CASE \E t \in Threads : CancelCommit(t)
  BY RoomAssumption, <1>8
     DEF TypeOK, WhoOK, TargetOK, ReqOK, NoRequest, Request, Requests,
         CancelCommit, Answer, rows, sockets, registry
<1>9. CASE \E t \in Threads : EndCommit(t)
  BY RoomAssumption, <1>9
     DEF TypeOK, WhoOK, TargetOK, ReqOK, NoRequest, Request, Requests,
         EndCommit, EvictAll, Open, Answer, sockets, registry
<1>10. CASE \E t \in Threads : RemoveCommit(t)
  BY RoomAssumption, <1>10
     DEF TypeOK, WhoOK, TargetOK, ReqOK, NoRequest, Request, Requests,
         RemoveCommit, Answer, meeting, sockets, registry
<1>11. CASE \E c \in Sockets, p \in Participants : Connect(c, p)
  BY RoomAssumption, <1>11
     DEF TypeOK, WhoOK, TargetOK, ReqOK, NoRequest, Request, Requests,
         Connect, Goto, meeting, rows, registry
<1>12. CASE \E c \in Sockets, p \in Participants : HostRemove(c, p)
  BY RoomAssumption, <1>12
     DEF TypeOK, WhoOK, TargetOK, ReqOK, NoRequest, Request, Requests,
         HostRemove, Handle, MarkLeft, Goto, meeting, registry
<1>13. CASE \E c \in Sockets : Refuse(c)
  BY RoomAssumption, <1>13
     DEF TypeOK, WhoOK, TargetOK, ReqOK, NoRequest, Request, Requests, Refuse,
         HasSpace, Goto, meeting, rows, registry
<1>14. CASE \E c \in Sockets : Admit(c)
  BY RoomAssumption, <1>14
     DEF TypeOK, WhoOK, TargetOK, ReqOK, NoRequest, Request, Requests, Admit,
         HasSpace, Open, Goto, meeting
<1>15. CASE \E c \in Sockets : Announce(c)
  BY RoomAssumption, <1>15
     DEF TypeOK, WhoOK, TargetOK, ReqOK, NoRequest, Request, Requests,
         Announce, TellJoined, room, Goto, meeting, rows, registry
<1>16. CASE \E c \in Sockets : Teardown(c)
  BY RoomAssumption, <1>16
     DEF TypeOK, WhoOK, TargetOK, ReqOK, NoRequest, Request, Requests,
         Teardown, ToldOfLeaving, Releases, Deregister, MarkLeft, room, Goto,
         meeting, rows
<1>17. CASE \E c \in Sockets : HostRemoveAnnounce(c)
  BY RoomAssumption, <1>17
     DEF TypeOK, WhoOK, TargetOK, ReqOK, NoRequest, Request, Requests,
         HostRemoveAnnounce, TellLeft, room, Goto, meeting, rows, registry
<1>18. CASE \E c \in Sockets : HostRemoveClose(c)
  BY RoomAssumption, <1>18
     DEF TypeOK, WhoOK, TargetOK, ReqOK, NoRequest, Request, Requests,
         HostRemoveClose, Close, Deregister, Goto, meeting, rows, registry
<1>19. CASE \E c \in Sockets : HostEnd(c)
  BY RoomAssumption, <1>19
     DEF TypeOK, WhoOK, TargetOK, ReqOK, NoRequest, Request, Requests,
         HostEnd, Handle, EvictAll, Open, Goto, registry
<1>20. CASE \E c \in Sockets : HostEndList(c)
  BY RoomAssumption, <1>20
     DEF TypeOK, WhoOK, TargetOK, ReqOK, NoRequest, Request, Requests,
         HostEndList, room, Goto, meeting, rows, registry
<1>21. CASE \E c \in Sockets : HostEndClose(c)
  BY RoomAssumption, <1>21
     DEF TypeOK, WhoOK, TargetOK, ReqOK, NoRequest, Request, Requests,
         HostEndClose, Close, Deregister, meeting, rows
<1>22. CASE \E c \in Sockets : HostEndDone(c)
  BY RoomAssumption, <1>22
     DEF TypeOK, WhoOK, TargetOK, ReqOK, NoRequest, Request, Requests,
         HostEndDone, Goto, meeting, rows, registry
<1>23. CASE Restart
  BY RoomAssumption, <1>23
     DEF TypeOK, WhoOK, TargetOK, ReqOK, NoRequest, Request, Requests,
         Restart, meeting, rows
<1>24. CASE UNCHANGED vars
  BY RoomAssumption, <1>24
     DEF TypeOK, WhoOK, TargetOK, ReqOK, NoRequest, Request, Requests, vars,
         meeting, rows, sockets, registry
<1> QED
  BY <1>1, <1>2, <1>3, <1>4, <1>5, <1>6, <1>7, <1>8, <1>9, <1>10, <1>11,
     <1>12, <1>13, <1>14, <1>15, <1>16, <1>17, <1>18, <1>19, <1>20, <1>21,
     <1>22, <1>23, <1>24
     DEF Next, RestNext, SocketNext

LEMMA OwnerRowStep ==
    ASSUME TypeOK, WhoOK, OwnerRow, [Next]_vars PROVE OwnerRow'
<1>1. ASSUME NEW t \in Threads, RestNext(t) PROVE OwnerRow'
  <2>1. CASE UNCHANGED rows
    BY <2>1 DEF OwnerRow, rows
  <2>2. CASE JoinCommit(t)
    BY <2>2 DEF TypeOK, OwnerRow, JoinCommit
  <2>3. CASE EndCommit(t)
    BY <2>3 DEF TypeOK, OwnerRow, EndCommit, EvictAll, Open
  <2>4. CASE RemoveCommit(t)
    BY <2>4 DEF TypeOK, OwnerRow, RemoveCommit
  <2> QED
    BY <1>1, <2>1, <2>2, <2>3, <2>4
       DEF RestNext, JoinCheck, RemoveCheck, StartCheck, CancelCheck,
           EndCheck, Receive, StartCommit, CancelCommit
<1>2. ASSUME NEW c \in Sockets, SocketNext(c) PROVE OwnerRow'
  <2>1. CASE UNCHANGED rows
    BY <2>1 DEF OwnerRow, rows
  <2>2. CASE Admit(c)
    BY <2>2 DEF TypeOK, WhoOK, OwnerRow, Admit
  <2>3. CASE Teardown(c)
    BY <2>3 DEF TypeOK, WhoOK, OwnerRow, Teardown, MarkLeft, rows
  <2>4. CASE \E p \in Participants : HostRemove(c, p)
    BY <2>4 DEF TypeOK, OwnerRow, HostRemove, MarkLeft
  <2>5. CASE HostEnd(c)
    BY <2>5 DEF TypeOK, OwnerRow, HostEnd, EvictAll, Open
  <2> QED
    BY <1>2, <2>1, <2>2, <2>3, <2>4, <2>5
       DEF SocketNext, Connect, Refuse, Announce, HostRemoveAnnounce,
           HostRemoveClose, HostEndList, HostEndClose, HostEndDone
<1>3. CASE Restart \/ UNCHANGED vars
  BY <1>3 DEF OwnerRow, Restart, vars, rows
<1> QED BY <1>1, <1>2, <1>3 DEF Next

LEMMA RegistryStep ==
    ASSUME TypeOK, WhoOK, EntryOK, NoLeak, OwnerServed, [Next]_vars
    PROVE  EntryOK' /\ NoLeak' /\ OwnerServed'
<1>1. CASE \E t \in Threads, p \in Participants : JoinCheck(t, p)
  BY <1>1
     DEF TypeOK, WhoOK, EntryOK, NoLeak, OwnerServed, room, JoinCheck,
         Requests, Receive, Open, meeting, rows, sockets, registry
<1>2. CASE \E t \in Threads, p \in Participants : RemoveCheck(t, p)
  BY <1>2
     DEF TypeOK, WhoOK, EntryOK, NoLeak, OwnerServed, room, RemoveCheck,
         Requests, Receive, meeting, rows, sockets, registry
<1>3. CASE \E t \in Threads : StartCheck(t)
  BY <1>3
     DEF TypeOK, WhoOK, EntryOK, NoLeak, OwnerServed, room, StartCheck,
         Requests, Receive, meeting, rows, sockets, registry
<1>4. CASE \E t \in Threads : CancelCheck(t)
  BY <1>4
     DEF TypeOK, WhoOK, EntryOK, NoLeak, OwnerServed, room, CancelCheck,
         Receive, meeting, rows, sockets, registry
<1>5. CASE \E t \in Threads : EndCheck(t)
  BY <1>5
     DEF TypeOK, WhoOK, EntryOK, NoLeak, OwnerServed, room, EndCheck, Receive,
         meeting, rows, sockets, registry
<1>6. CASE \E t \in Threads : JoinCommit(t)
  BY <1>6
     DEF TypeOK, WhoOK, EntryOK, NoLeak, OwnerServed, room, JoinCommit,
         GoLive, Answer, sockets, registry
<1>7. CASE \E t \in Threads : StartCommit(t)
  BY <1>7
     DEF TypeOK, WhoOK, EntryOK, NoLeak, OwnerServed, room, StartCommit,
         GoLive, Answer, rows, sockets, registry
<1>8. CASE \E t \in Threads : CancelCommit(t)
  BY <1>8
     DEF TypeOK, WhoOK, EntryOK, NoLeak, OwnerServed, room, CancelCommit,
         Answer, rows, sockets, registry
<1>9. CASE \E t \in Threads : EndCommit(t)
  BY <1>9
     DEF TypeOK, WhoOK, EntryOK, NoLeak, OwnerServed, room, EndCommit,
         EvictAll, Open, Answer, sockets, registry
<1>10. CASE \E t \in Threads : RemoveCommit(t)
  BY <1>10
     DEF TypeOK, WhoOK, EntryOK, NoLeak, OwnerServed, room, RemoveCommit,
         Answer, meeting, sockets, registry
<1>11. CASE \E c \in Sockets, p \in Participants : Connect(c, p)
  BY <1>11
     DEF TypeOK, WhoOK, EntryOK, NoLeak, OwnerServed, room, Connect, Goto,
         meeting, rows, registry
<1>12. CASE \E c \in Sockets, p \in Participants : HostRemove(c, p)
  BY <1>12
     DEF TypeOK, WhoOK, EntryOK, NoLeak, OwnerServed, room, HostRemove,
         Handle, MarkLeft, Goto, meeting, registry
<1>13. CASE \E c \in Sockets : Refuse(c)
  BY <1>13
     DEF TypeOK, WhoOK, EntryOK, NoLeak, OwnerServed, room, Refuse, HasSpace,
         Goto, meeting, rows, registry
<1>14. CASE \E c \in Sockets : Admit(c)
  BY <1>14
     DEF TypeOK, WhoOK, EntryOK, NoLeak, OwnerServed, room, Admit, HasSpace,
         Open, Goto, meeting
<1>15. CASE \E c \in Sockets : Announce(c)
  BY <1>15
     DEF TypeOK, WhoOK, EntryOK, NoLeak, OwnerServed, room, Announce,
         TellJoined, room, Goto, meeting, rows, registry
<1>16. CASE \E c \in Sockets : Teardown(c)
  BY <1>16
     DEF TypeOK, WhoOK, EntryOK, NoLeak, OwnerServed, room, Teardown,
         ToldOfLeaving, Releases, Deregister, MarkLeft, room, Goto, meeting,
         rows
<1>17. CASE \E c \in Sockets : HostRemoveAnnounce(c)
  BY <1>17
     DEF TypeOK, WhoOK, EntryOK, NoLeak, OwnerServed, room,
         HostRemoveAnnounce, TellLeft, room, Goto, meeting, rows, registry
<1>18. CASE \E c \in Sockets : HostRemoveClose(c)
  BY <1>18
     DEF TypeOK, WhoOK, EntryOK, NoLeak, OwnerServed, room, HostRemoveClose,
         Close, Deregister, Goto, meeting, rows, registry
<1>19. CASE \E c \in Sockets : HostEnd(c)
  BY <1>19
     DEF TypeOK, WhoOK, EntryOK, NoLeak, OwnerServed, room, HostEnd, Handle,
         EvictAll, Open, Goto, registry
<1>20. CASE \E c \in Sockets : HostEndList(c)
  BY <1>20
     DEF TypeOK, WhoOK, EntryOK, NoLeak, OwnerServed, room, HostEndList, room,
         Goto, meeting, rows, registry
<1>21. CASE \E c \in Sockets : HostEndClose(c)
  BY <1>21
     DEF TypeOK, WhoOK, EntryOK, NoLeak, OwnerServed, room, HostEndClose,
         Close, Deregister, meeting, rows
<1>22. CASE \E c \in Sockets : HostEndDone(c)
  BY <1>22
     DEF TypeOK, WhoOK, EntryOK, NoLeak, OwnerServed, room, HostEndDone, Goto,
         meeting, rows, registry
<1>23. CASE Restart
  BY <1>23
     DEF TypeOK, WhoOK, EntryOK, NoLeak, OwnerServed, room, Restart, meeting,
         rows
<1>24. CASE UNCHANGED vars
  BY <1>24
     DEF TypeOK, WhoOK, EntryOK, NoLeak, OwnerServed, room, vars, meeting,
         rows, sockets, registry
<1> QED
  BY <1>1, <1>2, <1>3, <1>4, <1>5, <1>6, <1>7, <1>8, <1>9, <1>10, <1>11,
     <1>12, <1>13, <1>14, <1>15, <1>16, <1>17, <1>18, <1>19, <1>20, <1>21,
     <1>22, <1>23, <1>24
     DEF Next, RestNext, SocketNext

LEMMA NewestStep ==
    ASSUME TypeOK, WhoOK, EntryOK, NoLeak, OwnerServed, OwnerIsNewest, [Next]_vars
    PROVE  OwnerIsNewest'
<1>1. CASE \E t \in Threads, p \in Participants : JoinCheck(t, p)
  BY RoomAssumption, <1>1
     DEF TypeOK, WhoOK, EntryOK, NoLeak, OwnerServed, OwnerIsNewest, IsNewest,
         room, JoinCheck, Requests, Receive, Open, meeting, rows, sockets,
         registry
<1>2. CASE \E t \in Threads, p \in Participants : RemoveCheck(t, p)
  BY RoomAssumption, <1>2
     DEF TypeOK, WhoOK, EntryOK, NoLeak, OwnerServed, OwnerIsNewest, IsNewest,
         room, RemoveCheck, Requests, Receive, meeting, rows, sockets, registry
<1>3. CASE \E t \in Threads : StartCheck(t)
  BY RoomAssumption, <1>3
     DEF TypeOK, WhoOK, EntryOK, NoLeak, OwnerServed, OwnerIsNewest, IsNewest,
         room, StartCheck, Requests, Receive, meeting, rows, sockets, registry
<1>4. CASE \E t \in Threads : CancelCheck(t)
  BY RoomAssumption, <1>4
     DEF TypeOK, WhoOK, EntryOK, NoLeak, OwnerServed, OwnerIsNewest, IsNewest,
         room, CancelCheck, Receive, meeting, rows, sockets, registry
<1>5. CASE \E t \in Threads : EndCheck(t)
  BY RoomAssumption, <1>5
     DEF TypeOK, WhoOK, EntryOK, NoLeak, OwnerServed, OwnerIsNewest, IsNewest,
         room, EndCheck, Receive, meeting, rows, sockets, registry
<1>6. CASE \E t \in Threads : JoinCommit(t)
  BY RoomAssumption, <1>6
     DEF TypeOK, WhoOK, EntryOK, NoLeak, OwnerServed, OwnerIsNewest, IsNewest,
         room, JoinCommit, GoLive, Answer, sockets, registry
<1>7. CASE \E t \in Threads : StartCommit(t)
  BY RoomAssumption, <1>7
     DEF TypeOK, WhoOK, EntryOK, NoLeak, OwnerServed, OwnerIsNewest, IsNewest,
         room, StartCommit, GoLive, Answer, rows, sockets, registry
<1>8. CASE \E t \in Threads : CancelCommit(t)
  BY RoomAssumption, <1>8
     DEF TypeOK, WhoOK, EntryOK, NoLeak, OwnerServed, OwnerIsNewest, IsNewest,
         room, CancelCommit, Answer, rows, sockets, registry
<1>9. CASE \E t \in Threads : EndCommit(t)
  BY RoomAssumption, <1>9
     DEF TypeOK, WhoOK, EntryOK, NoLeak, OwnerServed, OwnerIsNewest, IsNewest,
         room, EndCommit, EvictAll, Open, Answer, sockets, registry
<1>10. CASE \E t \in Threads : RemoveCommit(t)
  BY RoomAssumption, <1>10
     DEF TypeOK, WhoOK, EntryOK, NoLeak, OwnerServed, OwnerIsNewest, IsNewest,
         room, RemoveCommit, Answer, meeting, sockets, registry
<1>11. CASE \E c \in Sockets, p \in Participants : Connect(c, p)
  BY RoomAssumption, <1>11
     DEF TypeOK, WhoOK, EntryOK, NoLeak, OwnerServed, OwnerIsNewest, IsNewest,
         room, Connect, Goto, meeting, rows, registry
<1>12. CASE \E c \in Sockets, p \in Participants : HostRemove(c, p)
  BY RoomAssumption, <1>12
     DEF TypeOK, WhoOK, EntryOK, NoLeak, OwnerServed, OwnerIsNewest, IsNewest,
         room, HostRemove, Handle, MarkLeft, Goto, meeting, registry
<1>13. CASE \E c \in Sockets : Refuse(c)
  BY RoomAssumption, <1>13
     DEF TypeOK, WhoOK, EntryOK, NoLeak, OwnerServed, OwnerIsNewest, IsNewest,
         room, Refuse, HasSpace, Goto, meeting, rows, registry
<1>14. CASE \E c \in Sockets : Admit(c)
  BY RoomAssumption, <1>14
     DEF TypeOK, WhoOK, EntryOK, NoLeak, OwnerServed, OwnerIsNewest, IsNewest,
         room, Admit, HasSpace, Open, Goto, meeting
<1>15. CASE \E c \in Sockets : Announce(c)
  BY RoomAssumption, <1>15
     DEF TypeOK, WhoOK, EntryOK, NoLeak, OwnerServed, OwnerIsNewest, IsNewest,
         room, Announce, TellJoined, room, Goto, meeting, rows, registry
<1>16. CASE \E c \in Sockets : Teardown(c)
  BY RoomAssumption, <1>16
     DEF TypeOK, WhoOK, EntryOK, NoLeak, OwnerServed, OwnerIsNewest, IsNewest,
         room, Teardown, ToldOfLeaving, Releases, Deregister, MarkLeft, room,
         Goto, meeting,
         rows
<1>17. CASE \E c \in Sockets : HostRemoveAnnounce(c)
  BY RoomAssumption, <1>17
     DEF TypeOK, WhoOK, EntryOK, NoLeak, OwnerServed, OwnerIsNewest, IsNewest,
         room, HostRemoveAnnounce, TellLeft, room, Goto, meeting, rows,
         registry
<1>18. CASE \E c \in Sockets : HostRemoveClose(c)
  BY RoomAssumption, <1>18
     DEF TypeOK, WhoOK, EntryOK, NoLeak, OwnerServed, OwnerIsNewest, IsNewest,
         room, HostRemoveClose, Close, Deregister, Goto, meeting, rows,
         registry
<1>19. CASE \E c \in Sockets : HostEnd(c)
  BY RoomAssumption, <1>19
     DEF TypeOK, WhoOK, EntryOK, NoLeak, OwnerServed, OwnerIsNewest, IsNewest,
         room, HostEnd, Handle, EvictAll, Open, Goto, registry
<1>20. CASE \E c \in Sockets : HostEndList(c)
  BY RoomAssumption, <1>20
     DEF TypeOK, WhoOK, EntryOK, NoLeak, OwnerServed, OwnerIsNewest, IsNewest,
         room, HostEndList, room, Goto, meeting, rows, registry
<1>21. CASE \E c \in Sockets : HostEndClose(c)
  BY RoomAssumption, <1>21
     DEF TypeOK, WhoOK, EntryOK, NoLeak, OwnerServed, OwnerIsNewest, IsNewest,
         room, HostEndClose, Close, Deregister, meeting, rows
<1>22. CASE \E c \in Sockets : HostEndDone(c)
  BY RoomAssumption, <1>22
     DEF TypeOK, WhoOK, EntryOK, NoLeak, OwnerServed, OwnerIsNewest, IsNewest,
         room, HostEndDone, Goto, meeting, rows, registry
<1>23. CASE Restart
  BY RoomAssumption, <1>23
     DEF TypeOK, WhoOK, EntryOK, NoLeak, OwnerServed, OwnerIsNewest, IsNewest,
         room, Restart, meeting, rows
<1>24. CASE UNCHANGED vars
  BY RoomAssumption, <1>24
     DEF TypeOK, WhoOK, EntryOK, NoLeak, OwnerServed, OwnerIsNewest, IsNewest,
         room, vars, meeting, rows, sockets, registry
<1> QED
  BY <1>1, <1>2, <1>3, <1>4, <1>5, <1>6, <1>7, <1>8, <1>9, <1>10, <1>11,
     <1>12, <1>13, <1>14, <1>15, <1>16, <1>17, <1>18, <1>19, <1>20, <1>21,
     <1>22, <1>23, <1>24
     DEF Next, RestNext, SocketNext

LEMMA RosterStep ==
    ASSUME TypeOK, WhoOK, TargetOK, ReqOK, NoLeak, RosterInv, [Next]_vars
    PROVE  RosterInv'
<1>1. CASE \E t \in Threads, p \in Participants : JoinCheck(t, p)
  BY <1>1
     DEF TypeOK, WhoOK, TargetOK, ReqOK, NoLeak, RosterInv, room, JoinCheck,
         Requests, Receive, Open, meeting, rows, sockets, registry
<1>2. CASE \E t \in Threads, p \in Participants : RemoveCheck(t, p)
  BY <1>2
     DEF TypeOK, WhoOK, TargetOK, ReqOK, NoLeak, RosterInv, room, RemoveCheck,
         Requests, Receive, meeting, rows, sockets, registry
<1>3. CASE \E t \in Threads : StartCheck(t)
  BY <1>3
     DEF TypeOK, WhoOK, TargetOK, ReqOK, NoLeak, RosterInv, room, StartCheck,
         Requests, Receive, meeting, rows, sockets, registry
<1>4. CASE \E t \in Threads : CancelCheck(t)
  BY <1>4
     DEF TypeOK, WhoOK, TargetOK, ReqOK, NoLeak, RosterInv, room, CancelCheck,
         Receive, meeting, rows, sockets, registry
<1>5. CASE \E t \in Threads : EndCheck(t)
  BY <1>5
     DEF TypeOK, WhoOK, TargetOK, ReqOK, NoLeak, RosterInv, room, EndCheck,
         Receive, meeting, rows, sockets, registry
<1>6. CASE \E t \in Threads : JoinCommit(t)
  BY <1>6
     DEF TypeOK, WhoOK, TargetOK, ReqOK, NoLeak, RosterInv, room, JoinCommit,
         GoLive, Answer, sockets, registry
<1>7. CASE \E t \in Threads : StartCommit(t)
  BY <1>7
     DEF TypeOK, WhoOK, TargetOK, ReqOK, NoLeak, RosterInv, room, StartCommit,
         GoLive, Answer, rows, sockets, registry
<1>8. CASE \E t \in Threads : CancelCommit(t)
  BY <1>8
     DEF TypeOK, WhoOK, TargetOK, ReqOK, NoLeak, RosterInv, room,
         CancelCommit, Answer, rows, sockets, registry
<1>9. CASE \E t \in Threads : EndCommit(t)
  BY <1>9
     DEF TypeOK, WhoOK, TargetOK, ReqOK, NoLeak, RosterInv, room, EndCommit,
         EvictAll, Open, Answer, sockets, registry
<1>10. CASE \E t \in Threads : RemoveCommit(t)
  BY <1>10
     DEF TypeOK, WhoOK, TargetOK, ReqOK, NoLeak, RosterInv, room,
         RemoveCommit, Answer, meeting, sockets, registry
<1>11. CASE \E c \in Sockets, p \in Participants : Connect(c, p)
  BY <1>11
     DEF TypeOK, WhoOK, TargetOK, ReqOK, NoLeak, RosterInv, room, Connect,
         Goto, meeting, rows, registry
<1>12. CASE \E c \in Sockets, p \in Participants : HostRemove(c, p)
  BY <1>12
     DEF TypeOK, WhoOK, TargetOK, ReqOK, NoLeak, RosterInv, room, HostRemove,
         Handle, MarkLeft, Goto, meeting, registry
<1>13. CASE \E c \in Sockets : Refuse(c)
  BY <1>13
     DEF TypeOK, WhoOK, TargetOK, ReqOK, NoLeak, RosterInv, room, Refuse,
         HasSpace, Goto, meeting, rows, registry
<1>14. CASE \E c \in Sockets : Admit(c)
  BY <1>14
     DEF TypeOK, WhoOK, TargetOK, ReqOK, NoLeak, RosterInv, room, Admit,
         HasSpace, Open, Goto, meeting
<1>15. CASE \E c \in Sockets : Announce(c)
  BY <1>15
     DEF TypeOK, WhoOK, TargetOK, ReqOK, NoLeak, RosterInv, room, Announce,
         TellJoined, room, Goto, meeting, rows, registry
<1>16. CASE \E c \in Sockets : Teardown(c)
  BY <1>16
     DEF TypeOK, WhoOK, TargetOK, ReqOK, NoLeak, RosterInv, room, Teardown,
         ToldOfLeaving, Releases, Deregister, MarkLeft, room, Goto, meeting,
         rows
<1>17. CASE \E c \in Sockets : HostRemoveAnnounce(c)
  BY <1>17
     DEF TypeOK, WhoOK, TargetOK, ReqOK, NoLeak, RosterInv, room,
         HostRemoveAnnounce, TellLeft, room, Goto, meeting, rows, registry
<1>18. CASE \E c \in Sockets : HostRemoveClose(c)
  BY <1>18
     DEF TypeOK, WhoOK, TargetOK, ReqOK, NoLeak, RosterInv, room,
         HostRemoveClose, Close, Deregister, Goto, meeting, rows, registry
<1>19. CASE \E c \in Sockets : HostEnd(c)
  BY <1>19
     DEF TypeOK, WhoOK, TargetOK, ReqOK, NoLeak, RosterInv, room, HostEnd,
         Handle, EvictAll, Open, Goto, registry
<1>20. CASE \E c \in Sockets : HostEndList(c)
  BY <1>20
     DEF TypeOK, WhoOK, TargetOK, ReqOK, NoLeak, RosterInv, room, HostEndList,
         room, Goto, meeting, rows, registry
<1>21. CASE \E c \in Sockets : HostEndClose(c)
  BY <1>21
     DEF TypeOK, WhoOK, TargetOK, ReqOK, NoLeak, RosterInv, room,
         HostEndClose, Close, Deregister, meeting, rows
<1>22. CASE \E c \in Sockets : HostEndDone(c)
  BY <1>22
     DEF TypeOK, WhoOK, TargetOK, ReqOK, NoLeak, RosterInv, room, HostEndDone,
         Goto, meeting, rows, registry
<1>23. CASE Restart
  BY <1>23
     DEF TypeOK, WhoOK, TargetOK, ReqOK, NoLeak, RosterInv, room, Restart,
         meeting, rows
<1>24. CASE UNCHANGED vars
  BY <1>24
     DEF TypeOK, WhoOK, TargetOK, ReqOK, NoLeak, RosterInv, room, vars,
         meeting, rows, sockets, registry
<1> QED
  BY <1>1, <1>2, <1>3, <1>4, <1>5, <1>6, <1>7, <1>8, <1>9, <1>10, <1>11,
     <1>12, <1>13, <1>14, <1>15, <1>16, <1>17, <1>18, <1>19, <1>20, <1>21,
     <1>22, <1>23, <1>24
     DEF Next, RestNext, SocketNext

LEMMA RosterEmptyStep ==
    ASSUME TypeOK, NoLeak, RosterEmpty, [Next]_vars
    PROVE  RosterEmpty'
<1>1. CASE \E t \in Threads, p \in Participants : JoinCheck(t, p)
  BY <1>1
     DEF TypeOK, NoLeak, RosterEmpty, room, JoinCheck, Requests, Receive,
         Open, meeting, rows, sockets, registry
<1>2. CASE \E t \in Threads, p \in Participants : RemoveCheck(t, p)
  BY <1>2
     DEF TypeOK, NoLeak, RosterEmpty, room, RemoveCheck, Requests, Receive,
         meeting, rows, sockets, registry
<1>3. CASE \E t \in Threads : StartCheck(t)
  BY <1>3
     DEF TypeOK, NoLeak, RosterEmpty, room, StartCheck, Requests, Receive,
         meeting, rows, sockets, registry
<1>4. CASE \E t \in Threads : CancelCheck(t)
  BY <1>4
     DEF TypeOK, NoLeak, RosterEmpty, room, CancelCheck, Receive, meeting,
         rows, sockets, registry
<1>5. CASE \E t \in Threads : EndCheck(t)
  BY <1>5
     DEF TypeOK, NoLeak, RosterEmpty, room, EndCheck, Receive, meeting, rows,
         sockets, registry
<1>6. CASE \E t \in Threads : JoinCommit(t)
  BY <1>6
     DEF TypeOK, NoLeak, RosterEmpty, room, JoinCommit, GoLive, Answer,
         sockets, registry
<1>7. CASE \E t \in Threads : StartCommit(t)
  BY <1>7
     DEF TypeOK, NoLeak, RosterEmpty, room, StartCommit, GoLive, Answer, rows,
         sockets, registry
<1>8. CASE \E t \in Threads : CancelCommit(t)
  BY <1>8
     DEF TypeOK, NoLeak, RosterEmpty, room, CancelCommit, Answer, rows,
         sockets, registry
<1>9. CASE \E t \in Threads : EndCommit(t)
  BY <1>9
     DEF TypeOK, NoLeak, RosterEmpty, room, EndCommit, EvictAll, Open, Answer,
         sockets, registry
<1>10. CASE \E t \in Threads : RemoveCommit(t)
  BY <1>10
     DEF TypeOK, NoLeak, RosterEmpty, room, RemoveCommit, Answer, meeting,
         sockets, registry
<1>11. CASE \E c \in Sockets, p \in Participants : Connect(c, p)
  BY <1>11
     DEF TypeOK, NoLeak, RosterEmpty, room, Connect, Goto, meeting, rows,
         registry
<1>12. CASE \E c \in Sockets, p \in Participants : HostRemove(c, p)
  BY <1>12
     DEF TypeOK, NoLeak, RosterEmpty, room, HostRemove, Handle, MarkLeft,
         Goto, meeting, registry
<1>13. CASE \E c \in Sockets : Refuse(c)
  BY <1>13
     DEF TypeOK, NoLeak, RosterEmpty, room, Refuse, HasSpace, Goto, meeting,
         rows, registry
<1>14. CASE \E c \in Sockets : Admit(c)
  BY <1>14
     DEF TypeOK, NoLeak, RosterEmpty, room, Admit, HasSpace, Open, Goto,
         meeting
<1>15. CASE \E c \in Sockets : Announce(c)
  BY <1>15
     DEF TypeOK, NoLeak, RosterEmpty, room, Announce, TellJoined, room, Goto,
         meeting, rows, registry
<1>16. CASE \E c \in Sockets : Teardown(c)
  BY <1>16
     DEF TypeOK, NoLeak, RosterEmpty, room, Teardown, ToldOfLeaving, Releases,
         Deregister,
         MarkLeft, room, Goto, meeting, rows
<1>17. CASE \E c \in Sockets : HostRemoveAnnounce(c)
  BY <1>17
     DEF TypeOK, NoLeak, RosterEmpty, room, HostRemoveAnnounce, TellLeft,
         room, Goto, meeting, rows, registry
<1>18. CASE \E c \in Sockets : HostRemoveClose(c)
  BY <1>18
     DEF TypeOK, NoLeak, RosterEmpty, room, HostRemoveClose, Close,
         Deregister, Goto, meeting, rows, registry
<1>19. CASE \E c \in Sockets : HostEnd(c)
  BY <1>19
     DEF TypeOK, NoLeak, RosterEmpty, room, HostEnd, Handle, EvictAll, Open,
         Goto, registry
<1>20. CASE \E c \in Sockets : HostEndList(c)
  BY <1>20
     DEF TypeOK, NoLeak, RosterEmpty, room, HostEndList, room, Goto, meeting,
         rows, registry
<1>21. CASE \E c \in Sockets : HostEndClose(c)
  BY <1>21
     DEF TypeOK, NoLeak, RosterEmpty, room, HostEndClose, Close, Deregister,
         meeting, rows
<1>22. CASE \E c \in Sockets : HostEndDone(c)
  BY <1>22
     DEF TypeOK, NoLeak, RosterEmpty, room, HostEndDone, Goto, meeting, rows,
         registry
<1>23. CASE Restart
  BY <1>23 DEF TypeOK, NoLeak, RosterEmpty, room, Restart, meeting, rows
<1>24. CASE UNCHANGED vars
  BY <1>24
     DEF TypeOK, NoLeak, RosterEmpty, room, vars, meeting, rows, sockets,
         registry
<1> QED
  BY <1>1, <1>2, <1>3, <1>4, <1>5, <1>6, <1>7, <1>8, <1>9, <1>10, <1>11,
     <1>12, <1>13, <1>14, <1>15, <1>16, <1>17, <1>18, <1>19, <1>20, <1>21,
     <1>22, <1>23, <1>24
     DEF Next, RestNext, SocketNext

LEMMA StepIInv == IInv /\ [Next]_vars => IInv'
BY TypeStep, RowsStep, OwnerRowStep, RegistryStep, NewestStep, RosterStep,
   RosterEmptyStep
   DEF IInv

LEMMA Inductive == Spec => []IInv
<1>1. Init => IInv
  BY InitIInv
<1>2. IInv /\ [Next]_vars => IInv'
  BY StepIInv
<1> QED BY <1>1, <1>2, PTL DEF Spec

-----------------------------------------------------------------------------
(* Invariants *)

(* Type correctness. *)
THEOREM TypeCorrect == Spec => []TypeOK
<1>1. IInv => TypeOK
  BY DEF IInv
<1> QED BY <1>1, Inductive, PTL

(* No socket stays registered after its handler ended, and none is before *)
(* it was admitted (registry.add, registry.remove).                          *)
THEOREM RegistryClean == Spec => []NoLeak
<1>1. IInv => NoLeak
  BY DEF IInv
<1> QED BY <1>1, Inductive, PTL

(* Whatever requests and sockets do, a row is bound only to a socket of its *)
(* participant whose handler will still release it: short of a crash no row  *)
(* stays present for a socket that is gone (release_connection).             *)
THEOREM OwnersServed == Spec => []OwnerServed
<1>1. IInv => OwnerServed
  BY DEF IInv
<1> QED BY <1>1, Inductive, PTL

(* A bound socket that is registered is the newest of its participant, the  *)
(* one registry.find answers.                                                *)
THEOREM OwnersNewest == Spec => []OwnerIsNewest
<1>1. IInv => OwnerIsNewest
  BY DEF IInv
<1> QED BY <1>1, Inductive, PTL

(* Nobody who is present and was announced is missing from a connected      *)
(* client's roster, in any interleaving of admissions, departures, removals  *)
(* and REST requests.                                                        *)
THEOREM RostersComplete == Spec => []RosterComplete
<1>1. IInv => RosterComplete
  BY DEF IInv, RosterInv, RosterComplete
<1> QED BY <1>1, Inductive, PTL

-----------------------------------------------------------------------------
(* The promise of Seats *)

(* A step of Seats or a stutter, in the terms of Room. *)
SeatsMove ==
    \/ Gone \subseteq Gone' /\ Seated' = Seated \ Gone'
    \/ \E p \in Participants \ (Seated \union Gone) :
          /\ Gone' = Gone
          /\ Seated' = Seated \union {p}
          /\ Cardinality(Seated \union {p}) <= MaxMesh

(* The only step that seats somebody: the count of assert_room_has_space is *)
(* over all rows present, the one to be bound among them, so it bounds the   *)
(* seats even when racing joins made it larger than join_meeting allows.     *)
LEMMA SeatsAdmit ==
    ASSUME TypeOK, WhoOK, OwnerServed, NEW c \in Sockets, Admit(c)
    PROVE  SeatsMove
<1> DEFINE p == who[c]
<1>1. p \in Participants /\ c # None
  BY RoomAssumption DEF WhoOK, Admit
<1>2. owner' = [owner EXCEPT ![p] = c] /\ row' = row
  BY DEF Admit
<1>3. Gone' = Gone
  BY <1>2 DEF Gone
<1>4. CASE p \notin Open
  <2>1. Seated' = Seated
    BY <1>1, <1>2, <1>4 DEF Seated, Open, TypeOK
  <2>2. Seated \intersect Gone = {}
    BY DEF Seated, Open, Gone
  <2> QED BY <1>3, <2>1, <2>2 DEF SeatsMove
<1>5. CASE p \in Seated
  <2>1. Seated' = Seated
    BY <1>1, <1>2, <1>5 DEF Seated, Open, TypeOK
  <2>2. Seated \intersect Gone = {}
    BY DEF Seated, Open, Gone
  <2> QED BY <1>3, <2>1, <2>2 DEF SeatsMove
<1>6. CASE p \in Open /\ p \notin Seated
  <2>1. Seated' = Seated \union {p}
    BY <1>1, <1>2, <1>6 DEF Seated, Open, TypeOK
  <2>2. p \notin Gone
    BY <1>6 DEF Open, Gone
  <2>3. Cardinality(Seated \union {p}) <= MaxMesh
    <3>1. Seated \union {p} \subseteq Open /\ Open \subseteq Participants
      BY <1>6 DEF Seated, Open
    <3>2. IsFiniteSet(Open)
      BY <3>1, FS_Subset, RoomAssumption
    <3>3. /\ IsFiniteSet(Seated \union {p})
          /\ Cardinality(Seated \union {p}) <= Cardinality(Open)
      BY <3>1, <3>2, FS_Subset
    <3>4. Cardinality(Open) <= MaxMesh
      BY DEF Admit, HasSpace
    <3>5. Cardinality(Open) \in Nat /\ Cardinality(Seated \union {p}) \in Nat
      BY <3>2, <3>3, FS_CardinalityType
    <3> QED BY <3>3, <3>4, <3>5, RoomAssumption
  <2> QED BY <1>1, <1>3, <1>6, <2>1, <2>2, <2>3 DEF SeatsMove
<1> QED BY <1>4, <1>5, <1>6

LEMMA SeatsStep ==
    ASSUME TypeOK, WhoOK, TargetOK, ReqOK, OwnerRow, OwnerServed, [Next]_vars
    PROVE  SeatsMove
<1>1. CASE \E t \in Threads, p \in Participants : JoinCheck(t, p)
  BY RoomAssumption, <1>1
     DEF TypeOK, WhoOK, ReqOK, OwnerServed, SeatsMove, Seated, Gone, Open,
         JoinCheck, Requests, Receive, meeting, rows, sockets, registry
<1>2. CASE \E t \in Threads, p \in Participants : RemoveCheck(t, p)
  BY RoomAssumption, <1>2
     DEF TypeOK, WhoOK, ReqOK, OwnerServed, SeatsMove, Seated, Gone, Open,
         RemoveCheck, Requests, Receive, meeting, rows, sockets, registry
<1>3. CASE \E t \in Threads : StartCheck(t)
  BY RoomAssumption, <1>3
     DEF TypeOK, WhoOK, ReqOK, OwnerServed, SeatsMove, Seated, Gone, Open,
         StartCheck, Requests, Receive, meeting, rows, sockets, registry
<1>4. CASE \E t \in Threads : CancelCheck(t)
  BY RoomAssumption, <1>4
     DEF TypeOK, WhoOK, ReqOK, OwnerServed, SeatsMove, Seated, Gone, Open,
         CancelCheck, Receive, meeting, rows, sockets, registry
<1>5. CASE \E t \in Threads : EndCheck(t)
  BY RoomAssumption, <1>5
     DEF TypeOK, WhoOK, ReqOK, OwnerServed, SeatsMove, Seated, Gone, Open,
         EndCheck, Receive, meeting, rows, sockets, registry
<1>6. CASE \E t \in Threads : JoinCommit(t)
  BY RoomAssumption, <1>6
     DEF TypeOK, WhoOK, ReqOK, OwnerRow, OwnerServed, SeatsMove, Seated, Gone,
         Open,
         JoinCommit, GoLive, Answer, sockets, registry
<1>7. CASE \E t \in Threads : StartCommit(t)
  BY RoomAssumption, <1>7
     DEF TypeOK, WhoOK, ReqOK, OwnerServed, SeatsMove, Seated, Gone, Open,
         StartCommit, GoLive, Answer, rows, sockets, registry
<1>8. CASE \E t \in Threads : CancelCommit(t)
  BY RoomAssumption, <1>8
     DEF TypeOK, WhoOK, ReqOK, OwnerServed, SeatsMove, Seated, Gone, Open,
         CancelCommit, Answer, rows, sockets, registry
<1>9. CASE \E t \in Threads : EndCommit(t)
  BY RoomAssumption, <1>9
     DEF TypeOK, WhoOK, ReqOK, OwnerServed, SeatsMove, Seated, Gone, Open,
         EndCommit, EvictAll, Answer, sockets, registry
<1>10. CASE \E t \in Threads : RemoveCommit(t)
  BY RoomAssumption, <1>10
     DEF TypeOK, WhoOK, ReqOK, OwnerServed, SeatsMove, Seated, Gone, Open,
         RemoveCommit, Answer, meeting, sockets, registry
<1>11. CASE \E c \in Sockets, p \in Participants : Connect(c, p)
  BY RoomAssumption, <1>11
     DEF TypeOK, WhoOK, ReqOK, OwnerServed, SeatsMove, Seated, Gone, Open,
         Connect, Goto, meeting, rows, registry
<1>12. CASE \E c \in Sockets, p \in Participants : HostRemove(c, p)
  BY RoomAssumption, <1>12
     DEF TypeOK, WhoOK, ReqOK, OwnerServed, SeatsMove, Seated, Gone, Open,
         HostRemove, Handle, MarkLeft, Goto, meeting, registry
<1>13. CASE \E c \in Sockets : Refuse(c)
  BY RoomAssumption, <1>13
     DEF TypeOK, WhoOK, ReqOK, OwnerServed, SeatsMove, Seated, Gone, Open,
         Refuse, HasSpace, Goto, meeting, rows, registry
<1>14. CASE \E c \in Sockets : Admit(c)
  BY <1>14, SeatsAdmit
<1>15. CASE \E c \in Sockets : Announce(c)
  BY RoomAssumption, <1>15
     DEF TypeOK, WhoOK, ReqOK, OwnerServed, SeatsMove, Seated, Gone, Open,
         Announce, TellJoined, room, Goto, meeting, rows, registry
<1>16. CASE \E c \in Sockets : Teardown(c)
  BY RoomAssumption, <1>16
     DEF TypeOK, WhoOK, ReqOK, OwnerServed, SeatsMove, Seated, Gone, Open,
         Teardown, ToldOfLeaving, Releases, Deregister, MarkLeft, room, Goto,
         meeting, rows
<1>17. CASE \E c \in Sockets : HostRemoveAnnounce(c)
  BY RoomAssumption, <1>17
     DEF TypeOK, WhoOK, ReqOK, OwnerServed, SeatsMove, Seated, Gone, Open,
         HostRemoveAnnounce, TellLeft, room, Goto, meeting, rows, registry
<1>18. CASE \E c \in Sockets : HostRemoveClose(c)
  BY RoomAssumption, <1>18
     DEF TypeOK, WhoOK, ReqOK, OwnerServed, SeatsMove, Seated, Gone, Open,
         HostRemoveClose, Close, Deregister, Goto, meeting, rows, registry
<1>19. CASE \E c \in Sockets : HostEnd(c)
  BY RoomAssumption, <1>19
     DEF TypeOK, WhoOK, ReqOK, OwnerServed, SeatsMove, Seated, Gone, Open,
         HostEnd, Handle, EvictAll, Goto, registry
<1>20. CASE \E c \in Sockets : HostEndList(c)
  BY RoomAssumption, <1>20
     DEF TypeOK, WhoOK, ReqOK, OwnerServed, SeatsMove, Seated, Gone, Open,
         HostEndList, room, Goto, meeting, rows, registry
<1>21. CASE \E c \in Sockets : HostEndClose(c)
  BY RoomAssumption, <1>21
     DEF TypeOK, WhoOK, ReqOK, OwnerServed, SeatsMove, Seated, Gone, Open,
         HostEndClose, Close, Deregister, meeting, rows
<1>22. CASE \E c \in Sockets : HostEndDone(c)
  BY RoomAssumption, <1>22
     DEF TypeOK, WhoOK, ReqOK, OwnerServed, SeatsMove, Seated, Gone, Open,
         HostEndDone, Goto, meeting, rows, registry
<1>23. CASE Restart
  BY RoomAssumption, <1>23
     DEF TypeOK, WhoOK, ReqOK, OwnerServed, SeatsMove, Seated, Gone, Open,
         Restart, meeting, rows
<1>24. CASE UNCHANGED vars
  BY RoomAssumption, <1>24
     DEF TypeOK, WhoOK, ReqOK, OwnerServed, SeatsMove, Seated, Gone, Open,
         vars, meeting, rows, sockets, registry
<1> QED
  BY <1>1, <1>2, <1>3, <1>4, <1>5, <1>6, <1>7, <1>8, <1>9, <1>10, <1>11,
     <1>12, <1>13, <1>14, <1>15, <1>16, <1>17, <1>18, <1>19, <1>20, <1>21,
     <1>22, <1>23, <1>24
     DEF Next, RestNext, SocketNext

LEMMA MeshStep ==
    ASSUME MeshBounded, SeatsMove PROVE MeshBounded'
<1>1. CASE Gone \subseteq Gone' /\ Seated' = Seated \ Gone'
  <2>1. Seated \subseteq Participants
    BY DEF Seated, Open
  <2>2. IsFiniteSet(Seated)
    BY <2>1, FS_Subset, RoomAssumption
  <2>3. /\ IsFiniteSet(Seated')
        /\ Cardinality(Seated') <= Cardinality(Seated)
    BY <1>1, <2>2, FS_Subset
  <2>4. Cardinality(Seated) \in Nat /\ Cardinality(Seated') \in Nat
    BY <2>2, <2>3, FS_CardinalityType
  <2> QED BY <2>3, <2>4, RoomAssumption DEF MeshBounded
<1>2. CASE \E p \in Participants \ (Seated \union Gone) :
              /\ Seated' = Seated \union {p}
              /\ Cardinality(Seated \union {p}) <= MaxMesh
  BY <1>2 DEF MeshBounded
<1> QED BY <1>1, <1>2 DEF SeatsMove

(* However many joins race past the count of join_meeting, the mesh never   *)
(* has more than MaxMesh participants present and connected.                 *)
THEOREM MeshIsBounded == Spec => []MeshBounded
<1>1. Init => MeshBounded
  <2> SUFFICES ASSUME Init PROVE MeshBounded
    OBVIOUS
  <2>1. Seated = {}
    BY DEF Init, Seated, Open
  <2> QED BY <2>1, FS_EmptySet, RoomAssumption DEF MeshBounded
<1>2. IInv /\ MeshBounded /\ [Next]_vars => MeshBounded'
  BY SeatsStep, MeshStep DEF IInv
<1> QED BY <1>1, <1>2, Inductive, PTL DEF Spec

(* The room implements Seats: seats are bounded, taken one at a time, and   *)
(* never taken again by a row that left.                                     *)
THEOREM PromiseKept == Spec => KeepsPromise
<1>1. Init => Promise!Init
  BY DEF Init, Promise!Init, Seated, Gone, Open
<1>2. IInv /\ [Next]_vars => [Promise!Next]_<<Seated, Gone>>
  <2> SUFFICES ASSUME IInv, [Next]_vars
               PROVE  [Promise!Next]_<<Seated, Gone>>
    OBVIOUS
  <2>1. SeatsMove
    BY SeatsStep DEF IInv
  <2>2. CASE Gone \subseteq Gone' /\ Seated' = Seated \ Gone'
    <3> DEFINE S == Gone' \ Gone
    <3>1. S \in SUBSET Participants /\ S \intersect Gone = {}
      BY DEF Gone
    <3>2. Seated' = Seated \ S /\ Gone' = Gone \union S
      BY <2>2 DEF Seated, Gone, Open
    <3>3. Promise!Leave(S)
      BY <3>1, <3>2 DEF Promise!Leave
    <3> QED BY <3>1, <3>3 DEF Promise!Next
  <2>3. CASE \E p \in Participants \ (Seated \union Gone) :
                /\ Gone' = Gone
                /\ Seated' = Seated \union {p}
                /\ Cardinality(Seated \union {p}) <= MaxMesh
    <3>1. PICK p \in Participants \ (Seated \union Gone) :
                /\ Gone' = Gone
                /\ Seated' = Seated \union {p}
                /\ Cardinality(Seated \union {p}) <= MaxMesh
      BY <2>3
    <3>2. Promise!Cardinality(Seated \union {p})
            = Cardinality(Seated \union {p})
      BY DEF Promise!Cardinality, Cardinality
    <3>3. Promise!Take(p)
      BY <3>1, <3>2 DEF Promise!Take
    <3> QED BY <3>3 DEF Promise!Next
  <2> QED BY <2>1, <2>2, <2>3 DEF SeatsMove
<1> QED BY <1>1, <1>2, Inductive, PTL DEF Spec, KeepsPromise, Promise!Spec

-----------------------------------------------------------------------------
(* Departures *)

FalseDeparture ==
    \E c \in Sockets, p \in Participants :
        p \in roster[c] \ roster'[c] /\ c \in room' /\ row'[p] # "left"

LEMMA DepartureStep ==
    ASSUME TypeOK, TargetOK, NoLeak, OwnerServed, RosterEmpty, [Next]_vars
    PROVE  ~FalseDeparture
<1>1. CASE \E t \in Threads, p \in Participants : JoinCheck(t, p)
  BY <1>1
     DEF TypeOK, TargetOK, NoLeak, OwnerServed, RosterEmpty, FalseDeparture,
         room, JoinCheck, Requests, Receive, Open, meeting, rows, sockets,
         registry
<1>2. CASE \E t \in Threads, p \in Participants : RemoveCheck(t, p)
  BY <1>2
     DEF TypeOK, TargetOK, NoLeak, OwnerServed, RosterEmpty, FalseDeparture,
         room, RemoveCheck, Requests, Receive, meeting, rows, sockets, registry
<1>3. CASE \E t \in Threads : StartCheck(t)
  BY <1>3
     DEF TypeOK, TargetOK, NoLeak, OwnerServed, RosterEmpty, FalseDeparture,
         room, StartCheck, Requests, Receive, meeting, rows, sockets, registry
<1>4. CASE \E t \in Threads : CancelCheck(t)
  BY <1>4
     DEF TypeOK, TargetOK, NoLeak, OwnerServed, RosterEmpty, FalseDeparture,
         room, CancelCheck, Receive, meeting, rows, sockets, registry
<1>5. CASE \E t \in Threads : EndCheck(t)
  BY <1>5
     DEF TypeOK, TargetOK, NoLeak, OwnerServed, RosterEmpty, FalseDeparture,
         room, EndCheck, Receive, meeting, rows, sockets, registry
<1>6. CASE \E t \in Threads : JoinCommit(t)
  BY <1>6
     DEF TypeOK, TargetOK, NoLeak, OwnerServed, RosterEmpty, FalseDeparture,
         room, JoinCommit, GoLive, Answer, sockets, registry
<1>7. CASE \E t \in Threads : StartCommit(t)
  BY <1>7
     DEF TypeOK, TargetOK, NoLeak, OwnerServed, RosterEmpty, FalseDeparture,
         room, StartCommit, GoLive, Answer, rows, sockets, registry
<1>8. CASE \E t \in Threads : CancelCommit(t)
  BY <1>8
     DEF TypeOK, TargetOK, NoLeak, OwnerServed, RosterEmpty, FalseDeparture,
         room, CancelCommit, Answer, rows, sockets, registry
<1>9. CASE \E t \in Threads : EndCommit(t)
  BY <1>9
     DEF TypeOK, TargetOK, NoLeak, OwnerServed, RosterEmpty, FalseDeparture,
         room, EndCommit, EvictAll, Open, Answer, sockets, registry
<1>10. CASE \E t \in Threads : RemoveCommit(t)
  BY <1>10
     DEF TypeOK, TargetOK, NoLeak, OwnerServed, RosterEmpty, FalseDeparture,
         room, RemoveCommit, Answer, meeting, sockets, registry
<1>11. CASE \E c \in Sockets, p \in Participants : Connect(c, p)
  BY <1>11
     DEF TypeOK, TargetOK, NoLeak, OwnerServed, RosterEmpty, FalseDeparture,
         room, Connect, Goto, meeting, rows, registry
<1>12. CASE \E c \in Sockets, p \in Participants : HostRemove(c, p)
  BY <1>12
     DEF TypeOK, TargetOK, NoLeak, OwnerServed, RosterEmpty, FalseDeparture,
         room, HostRemove, Handle, MarkLeft, Goto, meeting, registry
<1>13. CASE \E c \in Sockets : Refuse(c)
  BY <1>13
     DEF TypeOK, TargetOK, NoLeak, OwnerServed, RosterEmpty, FalseDeparture,
         room, Refuse, HasSpace, Goto, meeting, rows, registry
<1>14. CASE \E c \in Sockets : Admit(c)
  BY <1>14
     DEF TypeOK, TargetOK, NoLeak, OwnerServed, RosterEmpty, FalseDeparture,
         room, Admit, HasSpace, Open, Goto, meeting
<1>15. CASE \E c \in Sockets : Announce(c)
  BY <1>15
     DEF TypeOK, TargetOK, NoLeak, OwnerServed, RosterEmpty, FalseDeparture,
         room, Announce, TellJoined, room, Goto, meeting, rows, registry
<1>16. CASE \E c \in Sockets : Teardown(c)
  BY <1>16
     DEF TypeOK, TargetOK, NoLeak, OwnerServed, RosterEmpty, FalseDeparture,
         room, Teardown, ToldOfLeaving, Releases, Deregister, MarkLeft, room,
         Goto, meeting,
         rows
<1>17. CASE \E c \in Sockets : HostRemoveAnnounce(c)
  BY <1>17
     DEF TypeOK, TargetOK, NoLeak, OwnerServed, RosterEmpty, FalseDeparture,
         room, HostRemoveAnnounce, TellLeft, room, Goto, meeting, rows,
         registry
<1>18. CASE \E c \in Sockets : HostRemoveClose(c)
  BY <1>18
     DEF TypeOK, TargetOK, NoLeak, OwnerServed, RosterEmpty, FalseDeparture,
         room, HostRemoveClose, Close, Deregister, Goto, meeting, rows,
         registry
<1>19. CASE \E c \in Sockets : HostEnd(c)
  BY <1>19
     DEF TypeOK, TargetOK, NoLeak, OwnerServed, RosterEmpty, FalseDeparture,
         room, HostEnd, Handle, EvictAll, Open, Goto, registry
<1>20. CASE \E c \in Sockets : HostEndList(c)
  BY <1>20
     DEF TypeOK, TargetOK, NoLeak, OwnerServed, RosterEmpty, FalseDeparture,
         room, HostEndList, room, Goto, meeting, rows, registry
<1>21. CASE \E c \in Sockets : HostEndClose(c)
  BY <1>21
     DEF TypeOK, TargetOK, NoLeak, OwnerServed, RosterEmpty, FalseDeparture,
         room, HostEndClose, Close, Deregister, meeting, rows
<1>22. CASE \E c \in Sockets : HostEndDone(c)
  BY <1>22
     DEF TypeOK, TargetOK, NoLeak, OwnerServed, RosterEmpty, FalseDeparture,
         room, HostEndDone, Goto, meeting, rows, registry
<1>23. CASE Restart
  BY <1>23
     DEF TypeOK, TargetOK, NoLeak, OwnerServed, RosterEmpty, FalseDeparture,
         room, Restart, meeting, rows
<1>24. CASE UNCHANGED vars
  BY <1>24
     DEF TypeOK, TargetOK, NoLeak, OwnerServed, RosterEmpty, FalseDeparture,
         room, vars, meeting, rows, sockets, registry
<1> QED
  BY <1>1, <1>2, <1>3, <1>4, <1>5, <1>6, <1>7, <1>8, <1>9, <1>10, <1>11,
     <1>12, <1>13, <1>14, <1>15, <1>16, <1>17, <1>18, <1>19, <1>20, <1>21,
     <1>22, <1>23, <1>24
     DEF Next, RestNext, SocketNext

(* A participant is dropped from the roster of a connected client only when *)
(* its row is closed: the disconnect of a socket that was replaced in time   *)
(* is never announced as a departure (release_connection).                   *)
THEOREM DeparturesReal == Spec => NoFalseDeparture
<1>1. IInv /\ [Next]_vars =>
        [\A c \in Sockets, p \in Participants :
                       p \in roster[c] \ roster'[c] /\ c \in room' => row'[p] = "left"]_vars
  BY DepartureStep DEF IInv, FalseDeparture
<1> QED BY <1>1, Inductive, PTL DEF Spec, NoFalseDeparture

-----------------------------------------------------------------------------
(* The stamp of an ended meeting *)

LEMMA StampStep ==
    ASSUME EndedIsStamped, [Next]_vars
    PROVE  EndedIsStamped'
<1>1. CASE UNCHANGED meeting
  BY <1>1 DEF EndedIsStamped, meeting
<1>2. ASSUME NEW r, GoLive(r) PROVE EndedIsStamped'
  BY <1>2 DEF EndedIsStamped, GoLive
<1>3. CASE EvictAll
  BY <1>3 DEF EndedIsStamped, EvictAll
<1>4. ASSUME NEW t \in Threads, RestNext(t) PROVE EndedIsStamped'
  <2>1. CASE JoinCommit(t)
    BY <1>2, <2>1 DEF JoinCommit
  <2>2. CASE StartCommit(t)
    BY <1>2, <2>2 DEF StartCommit
  <2>3. CASE CancelCommit(t)
    BY <2>3 DEF CancelCommit, EndedIsStamped
  <2>4. CASE EndCommit(t)
    BY <1>3, <2>4 DEF EndCommit
  <2>5. CASE RemoveCommit(t)
    BY <1>1, <2>5 DEF RemoveCommit
  <2>6. CASE \E p \in Participants : JoinCheck(t, p) \/ RemoveCheck(t, p)
    BY <1>1, <2>6 DEF JoinCheck, RemoveCheck, Receive
  <2>7. CASE StartCheck(t) \/ CancelCheck(t) \/ EndCheck(t)
    BY <1>1, <2>7 DEF StartCheck, CancelCheck, EndCheck, Receive
  <2> QED BY <1>4, <2>1, <2>2, <2>3, <2>4, <2>5, <2>6, <2>7 DEF RestNext
<1>5. ASSUME NEW c \in Sockets, SocketNext(c) PROVE EndedIsStamped'
  <2>1. CASE HostEnd(c)
    BY <1>3, <2>1 DEF HostEnd
  <2>2. CASE \E p \in Participants : Connect(c, p) \/ HostRemove(c, p)
    BY <1>1, <2>2 DEF Connect, HostRemove
  <2>3. CASE Refuse(c) \/ Admit(c) \/ Announce(c) \/ Teardown(c)
    BY <1>1, <2>3 DEF Refuse, Admit, Announce, Teardown
  <2>4. CASE HostRemoveAnnounce(c) \/ HostRemoveClose(c)
    BY <1>1, <2>4 DEF HostRemoveAnnounce, HostRemoveClose
  <2>5. CASE HostEndList(c) \/ HostEndClose(c) \/ HostEndDone(c)
    BY <1>1, <2>5 DEF HostEndList, HostEndClose, HostEndDone
  <2> QED BY <1>5, <2>1, <2>2, <2>3, <2>4, <2>5 DEF SocketNext
<1>6. CASE Restart
  BY <1>1, <1>6 DEF Restart
<1>7. CASE UNCHANGED vars
  BY <1>1, <1>7 DEF vars
<1> QED BY <1>4, <1>5, <1>6, <1>7 DEF Next

(* An ended meeting bears its stamp, however many starts, joins and ends      *)
(* overlap (start_meeting, end_meeting, join_meeting).                         *)
THEOREM EndedStamped == Spec => []EndedIsStamped
<1>1. Init => EndedIsStamped
  BY DEF Init, EndedIsStamped
<1>2. EndedIsStamped /\ [Next]_vars => EndedIsStamped'
  BY StampStep
<1> QED BY <1>1, <1>2, PTL DEF Spec
=============================================================================
