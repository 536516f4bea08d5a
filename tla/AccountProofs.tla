--------------------------- MODULE AccountProofs ---------------------------
(***************************************************************************)
(* Proofs about Account, for any tabs and tokens: its types, that every    *)
(* tab follows the stored session, and that the settings never show what   *)
(* was asked for with another token.                                       *)
(***************************************************************************)
EXTENDS Account, TLAPS

-----------------------------------------------------------------------------
(* The inductive invariant *)

(* A request that was not given up is of the token the dialog shows.         *)
AskedByDialog ==
    \A t \in Tabs : \A u \in Tokens :
        <<u, TRUE>> \in loads[t] => dialog[t].open /\ dialog[t].token = u

Inv == TypeOK /\ AskedByDialog /\ SessionFollows

Requested == SUBSET (Tokens \X BOOLEAN)

-----------------------------------------------------------------------------
(* One dialog *)

(* Rendering keeps the type of a dialog and what else it holds. *)
LEMMA ShownIs ==
    ASSUME NEW d \in Dialogs, NEW s \in Sessions
    PROVE  /\ Shown(d, s) \in Dialogs
           /\ Shown(d, s).open = d.open /\ Shown(d, s).prefs = d.prefs
           /\ d.open => Shown(d, s).token = s
BY DEF Shown, Dialogs

(* The cleanup gives up every request. *)
LEMMA CleanupIs ==
    ASSUME NEW reqs \in Requested
    PROVE  /\ Cleanup(reqs) \in Requested
           /\ \A u \in Tokens : <<u, TRUE>> \notin Cleanup(reqs)
<1>1. ASSUME NEW r \in Cleanup(reqs) PROVE r \in Tokens \X BOOLEAN /\ r[2] = FALSE
  <2>1. PICK req \in reqs : r = <<req[1], FALSE>>
    BY DEF Cleanup
  <2>2. req[1] \in Tokens
    BY DEF Requested
  <2> QED BY <2>1, <2>2
<1>2. \A u \in Tokens : <<u, TRUE>>[2] # FALSE
  OBVIOUS
<1> QED BY <1>1, <1>2 DEF Requested

(* A new run of the effect leaves the one request for the token it is run with. *)
LEMMA BegunIs ==
    ASSUME NEW reqs \in Requested, NEW s \in Sessions
    PROVE  /\ Begun(reqs, s) \in Requested
           /\ \A u \in Tokens : <<u, TRUE>> \in Begun(reqs, s) => u = s
<1>1. CASE s = Nobody
  BY <1>1, CleanupIs DEF Begun, Requested
<1>2. CASE s # Nobody
  <2>1. s \in Tokens /\ Begun(reqs, s) = Cleanup(reqs) \union {<<s, TRUE>>}
    BY <1>2 DEF Sessions, Begun
  <2>2. <<s, TRUE>> \in Tokens \X BOOLEAN
    BY <2>1
  <2>3. Begun(reqs, s) \in Requested
    BY <2>1, <2>2, CleanupIs DEF Requested
  <2>4. ASSUME NEW u \in Tokens, <<u, TRUE>> \in Begun(reqs, s) PROVE u = s
    <3>1. <<u, TRUE>> = <<s, TRUE>>
      BY <2>1, <2>4, CleanupIs
    <3> QED BY <3>1
  <2> QED BY <2>3, <2>4
<1> QED BY <1>1, <1>2

(* Rendering with s leaves only requests for s that are not given up. *)
LEMMA RunningIs ==
    ASSUME NEW d \in Dialogs, NEW s \in Sessions, NEW reqs \in Requested,
           \A u \in Tokens : <<u, TRUE>> \in reqs => d.open /\ d.token = u
    PROVE  /\ Running(d, reqs, s) \in Requested
           /\ \A u \in Tokens : <<u, TRUE>> \in Running(d, reqs, s) => d.open /\ s = u
<1>1. CASE d.open /\ d.token # s
  BY <1>1, BegunIs DEF Running
<1>2. CASE ~(d.open /\ d.token # s)
  BY <1>2 DEF Running
<1> QED BY <1>1, <1>2

-----------------------------------------------------------------------------
(* The steps *)

(* A step that only renders the dialog of a tab, after a change that leaves it *)
(* open or closed and drops requests at most, keeps the invariant.               *)
LEMMA RenderKeeps ==
    ASSUME Inv, NEW t \in Tabs, NEW d \in Dialogs, NEW reqs \in SUBSET loads[t],
           d.open = dialog[t].open, d.token = dialog[t].token,
           Render(t, d, reqs),
           UNCHANGED <<stored, cookie, leaving, seen, pending, signing>>
    PROVE  Inv'
<1> USE DEF Inv
<1>1. reqs \in Requested /\ stored \in Sessions
  BY DEF TypeOK, Requested
<1>2. \A u \in Tokens : <<u, TRUE>> \in reqs => d.open /\ d.token = u
  BY DEF AskedByDialog
<1>3. /\ dialog' = [dialog EXCEPT ![t] = Shown(d, stored)]
      /\ loads' = [loads EXCEPT ![t] = Running(d, reqs, stored)]
  BY DEF Render
<1>4. TypeOK'
  BY <1>1, <1>2, <1>3, ShownIs, RunningIs DEF TypeOK, Requested
<1>5. AskedByDialog'
  <2> SUFFICES ASSUME NEW v \in Tabs, NEW u \in Tokens, <<u, TRUE>> \in loads'[v]
               PROVE  dialog'[v].open /\ dialog'[v].token = u
    BY DEF AskedByDialog
  <2>1. CASE v = t
    <3>1. dialog'[t] = Shown(d, stored) /\ loads'[t] = Running(d, reqs, stored)
      BY <1>3, <2>1 DEF TypeOK
    <3>2. \A w \in Tokens : <<w, TRUE>> \in Running(d, reqs, stored) => d.open /\ stored = w
      BY <1>1, <1>2, RunningIs
    <3>3. Shown(d, stored).open = d.open /\ (d.open => Shown(d, stored).token = stored)
      BY <1>1, <1>2, ShownIs
    <3> QED BY <2>1, <3>1, <3>2, <3>3
  <2>2. CASE v # t
    <3>1. dialog'[v] = dialog[v] /\ loads'[v] = loads[v]
      BY <1>3, <2>2 DEF TypeOK
    <3> QED BY <3>1 DEF AskedByDialog
  <2> QED BY <2>1, <2>2
<1>6. SessionFollows'
  BY <1>1, <1>3, ShownIs DEF TypeOK, SessionFollows
<1> QED BY <1>4, <1>5, <1>6

(* Writing the session tells every tab: here at once, elsewhere by an event. *)
LEMMA SetSessionKeeps ==
    ASSUME Inv, NEW t \in Tabs, NEW s \in Sessions, setSession(t, s),
           cookie' \in Sessions, leaving' \in BOOLEAN,
           signing' \in [Tabs -> 0..MaxSignIns]
    PROVE  Inv'
<1> USE DEF Inv
<1>1. dialog[t] \in Dialogs /\ loads[t] \in Requested
  BY DEF TypeOK, Requested
<1>2. \A u \in Tokens : <<u, TRUE>> \in loads[t] => dialog[t].open /\ dialog[t].token = u
  BY DEF AskedByDialog
<1>3. /\ stored' = s /\ seen' = [seen EXCEPT ![t] = s]
      /\ pending' = [u \in Tabs |-> pending[u] \/ (u # t /\ s # stored)]
      /\ dialog' = [dialog EXCEPT ![t] = Shown(dialog[t], s)]
      /\ loads' = [loads EXCEPT ![t] = Running(dialog[t], loads[t], s)]
  BY DEF setSession, notify, TypeOK
<1>4. pending' \in [Tabs -> BOOLEAN]
  <2>1. \A u \in Tabs : (pending[u] \/ (u # t /\ s # stored)) \in BOOLEAN
    OBVIOUS
  <2> QED BY <1>3, <2>1
<1>5. TypeOK'
  <2>1. dialog' \in [Tabs -> Dialogs]
    BY <1>1, <1>3, ShownIs DEF TypeOK
  <2>2. loads' \in [Tabs -> SUBSET (Tokens \X BOOLEAN)]
    BY <1>1, <1>2, <1>3, RunningIs DEF TypeOK, Requested
  <2>3. seen' \in [Tabs -> Sessions] /\ stored' \in Sessions
    BY <1>3 DEF TypeOK
  <2> QED BY <1>4, <2>1, <2>2, <2>3 DEF TypeOK
<1>6. AskedByDialog'
  <2> SUFFICES ASSUME NEW v \in Tabs, NEW u \in Tokens, <<u, TRUE>> \in loads'[v]
               PROVE  dialog'[v].open /\ dialog'[v].token = u
    BY DEF AskedByDialog
  <2>1. CASE v = t
    <3>1. dialog'[t] = Shown(dialog[t], s) /\ loads'[t] = Running(dialog[t], loads[t], s)
      BY <1>3, <2>1 DEF TypeOK
    <3>2. \A w \in Tokens : <<w, TRUE>> \in Running(dialog[t], loads[t], s) => dialog[t].open /\ s = w
      BY <1>1, <1>2, RunningIs
    <3>3. Shown(dialog[t], s).open = dialog[t].open /\ (dialog[t].open => Shown(dialog[t], s).token = s)
      BY <1>1, <1>2, ShownIs
    <3> QED BY <2>1, <3>1, <3>2, <3>3
  <2>2. CASE v # t
    <3>1. dialog'[v] = dialog[v] /\ loads'[v] = loads[v]
      BY <1>3, <2>2 DEF TypeOK
    <3> QED BY <3>1 DEF AskedByDialog
  <2> QED BY <2>1, <2>2
<1>7. SessionFollows'
  <2> SUFFICES ASSUME NEW u \in Tabs,
                      seen'[u] # s \/ (dialog'[u].open /\ dialog'[u].token # s)
               PROVE  pending[u] \/ (u # t /\ s # stored)
    BY <1>3 DEF SessionFollows
  <2>1. u # t
    <3>1. seen'[t] = s /\ dialog'[t] = Shown(dialog[t], s)
      BY <1>3 DEF TypeOK
    <3> QED BY <1>1, <3>1, ShownIs
  <2>2. seen'[u] = seen[u] /\ dialog'[u] = dialog[u]
    BY <1>3, <2>1 DEF TypeOK
  <2> QED BY <2>1, <2>2 DEF SessionFollows
<1> QED BY <1>5, <1>6, <1>7

(* The requests of a tab that are left after an answer, and the dialog with the *)
(* fields an answer can set.                                                      *)
LEMMA AnswerIs ==
    ASSUME Inv, NEW t \in Tabs, NEW req \in loads[t]
    PROVE  /\ req[1] \in Tokens /\ req[2] \in BOOLEAN
           /\ loads[t] \ {req} \in SUBSET loads[t]
           /\ \A b \in BOOLEAN :
                  [dialog[t] EXCEPT !.prefs = req[1], !.listing = b] \in Dialogs
           /\ [dialog[t] EXCEPT !.error = TRUE] \in Dialogs
           /\ dialog[t] \in Dialogs
<1>1. req \in Tokens \X BOOLEAN /\ dialog[t] \in Dialogs
  BY DEF Inv, TypeOK
<1>2. req[1] \in Tokens /\ req[1] \in Sessions /\ req[2] \in BOOLEAN
  BY <1>1 DEF Sessions
<1> QED BY <1>1, <1>2 DEF Dialogs

(* Every step keeps the invariant. *)
LEMMA InvStep == Inv /\ [Next]_vars => Inv'
<1> SUFFICES ASSUME Inv, [Next]_vars PROVE Inv'
  OBVIOUS
<1>1. CASE UNCHANGED vars
  BY <1>1 DEF Inv, TypeOK, AskedByDialog, SessionFollows, vars
<1>2. CASE SignOutAnswered
  <2>1. TypeOK'
    BY <1>2 DEF Inv, SignOutAnswered, TypeOK, Sessions
  <2> QED BY <1>2, <2>1 DEF Inv, SignOutAnswered, AskedByDialog, SessionFollows
<1>3. ASSUME NEW t \in Tabs, StorageEvent(t) PROVE Inv'
  <2> USE <1>3 DEF Inv
  <2>1. dialog[t] \in Dialogs /\ loads[t] \in Requested /\ stored \in Sessions
    BY DEF TypeOK, Requested
  <2>2. \A u \in Tokens : <<u, TRUE>> \in loads[t] => dialog[t].open /\ dialog[t].token = u
    BY DEF AskedByDialog
  <2>3. /\ dialog' = [dialog EXCEPT ![t] = Shown(dialog[t], stored)]
        /\ loads' = [loads EXCEPT ![t] = Running(dialog[t], loads[t], stored)]
        /\ pending' = [pending EXCEPT ![t] = FALSE]
        /\ seen' = [seen EXCEPT ![t] = stored]
        /\ UNCHANGED <<stored, cookie, leaving, signing>>
    BY DEF StorageEvent, Render
  <2>4. TypeOK'
    BY <2>1, <2>2, <2>3, ShownIs, RunningIs DEF TypeOK, Requested
  <2>5. AskedByDialog'
    <3> SUFFICES ASSUME NEW v \in Tabs, NEW u \in Tokens, <<u, TRUE>> \in loads'[v]
                 PROVE  dialog'[v].open /\ dialog'[v].token = u
      BY DEF AskedByDialog
    <3>1. CASE v = t
      <4>1. dialog'[t] = Shown(dialog[t], stored) /\ loads'[t] = Running(dialog[t], loads[t], stored)
        BY <2>3, <3>1 DEF TypeOK
      <4>2. \A w \in Tokens : <<w, TRUE>> \in Running(dialog[t], loads[t], stored) => dialog[t].open /\ stored = w
        BY <2>1, <2>2, RunningIs
      <4>3. Shown(dialog[t], stored).open = dialog[t].open /\ (dialog[t].open => Shown(dialog[t], stored).token = stored)
        BY <2>1, <2>2, ShownIs
      <4> QED BY <3>1, <4>1, <4>2, <4>3
    <3>2. CASE v # t
      <4>1. dialog'[v] = dialog[v] /\ loads'[v] = loads[v]
        BY <2>3, <3>2 DEF TypeOK
      <4> QED BY <4>1 DEF AskedByDialog
    <3> QED BY <3>1, <3>2
  <2>6. SessionFollows'
    <3>1. seen'[t] = stored /\ dialog'[t] = Shown(dialog[t], stored)
      BY <2>3 DEF TypeOK
    <3>2. \A v \in Tabs : v # t => /\ seen'[v] = seen[v] /\ dialog'[v] = dialog[v]
                                  /\ pending'[v] = pending[v]
      BY <2>3 DEF TypeOK
    <3> QED BY <2>1, <2>3, <3>1, <3>2, ShownIs DEF SessionFollows
  <2> QED BY <2>4, <2>5, <2>6
<1>4. ASSUME NEW t \in Tabs, Rerender(t) PROVE Inv'
  <2>1. TypeOK' /\ AskedByDialog'
    BY <1>4 DEF Inv, Rerender, TypeOK, AskedByDialog
  <2>2. SessionFollows'
    BY <1>4 DEF Inv, Rerender, TypeOK, SessionFollows
  <2> QED BY <2>1, <2>2 DEF Inv
<1>5. ASSUME NEW t \in Tabs, signIn(t) \/ SignInFailed(t) PROVE Inv'
  <2>1. signing' \in [Tabs -> 0..MaxSignIns]
    BY <1>5, BoundAssumption DEF Inv, TypeOK, signIn, SignInFailed
  <2> QED BY <1>5, <2>1
          DEF Inv, signIn, SignInFailed, TypeOK, AskedByDialog, SessionFollows
<1>6. ASSUME NEW t \in Tabs, NEW token \in Tokens, SignInAnswered(t, token) PROVE Inv'
  <2>1. signing' \in [Tabs -> 0..MaxSignIns]
    BY <1>6, BoundAssumption DEF Inv, TypeOK, SignInAnswered
  <2>2. cookie' \in Sessions /\ leaving' \in BOOLEAN /\ token \in Sessions
    BY <1>6 DEF Inv, TypeOK, SignInAnswered, Sessions
  <2> QED BY <1>6, <2>1, <2>2, SetSessionKeeps DEF SignInAnswered
<1>7. ASSUME NEW t \in Tabs, NEW token \in Tokens, GoogleReturns(t, token) PROVE Inv'
  <2>1. TypeOK'
    BY <1>7, BoundAssumption DEF Inv, GoogleReturns, TypeOK, Closed, Dialogs, Sessions
  <2>2. AskedByDialog'
    BY <1>7 DEF Inv, GoogleReturns, TypeOK, AskedByDialog
  <2>3. SessionFollows'
    BY <1>7 DEF Inv, GoogleReturns, TypeOK, SessionFollows, Closed
  <2> QED BY <2>1, <2>2, <2>3 DEF Inv
<1>8. ASSUME NEW t \in Tabs, AppSessionBridge(t) PROVE Inv'
  BY <1>8, SetSessionKeeps DEF Inv, TypeOK, AppSessionBridge
<1>9. ASSUME NEW t \in Tabs, signOut(t) PROVE Inv'
  <2>1. Nobody \in Sessions
    BY DEF Sessions
  <2> QED BY <1>9, <2>1, SetSessionKeeps DEF Inv, TypeOK, signOut
<1>10. ASSUME NEW t \in Tabs, openSettings(t) PROVE Inv'
  <2> USE <1>10 DEF Inv
  <2>1. /\ loads[t] \in Requested /\ stored \in Sessions
        /\ (stored = Nobody) \in BOOLEAN
    BY DEF TypeOK, Requested
  <2> DEFINE fresh == [Closed EXCEPT !.open = TRUE, !.token = stored,
                                     !.error = (stored = Nobody)]
  <2>2. fresh \in Dialogs /\ fresh.open /\ fresh.token = stored
    BY <2>1 DEF Closed, Dialogs, Sessions
  <2>3. /\ dialog' = [dialog EXCEPT ![t] = fresh]
        /\ loads' = [loads EXCEPT ![t] = Begun(loads[t], stored)]
        /\ UNCHANGED <<stored, cookie, leaving, seen, pending, signing>>
    BY DEF openSettings
  <2> HIDE DEF fresh
  <2>4. TypeOK'
    BY <2>1, <2>2, <2>3, BegunIs DEF TypeOK, Requested
  <2>5. AskedByDialog'
    BY <2>1, <2>2, <2>3, BegunIs DEF TypeOK, AskedByDialog
  <2>6. SessionFollows'
    BY <2>2, <2>3 DEF TypeOK, SessionFollows
  <2> QED BY <2>4, <2>5, <2>6
<1>11. ASSUME NEW t \in Tabs, closeSettings(t) PROVE Inv'
  <2> USE <1>11 DEF Inv
  <2>1. loads[t] \in Requested /\ Closed \in Dialogs /\ ~Closed.open
    BY DEF TypeOK, Requested, Closed, Dialogs, Sessions
  <2>2. /\ dialog' = [dialog EXCEPT ![t] = Closed]
        /\ loads' = [loads EXCEPT ![t] = Cleanup(loads[t])]
        /\ UNCHANGED <<stored, cookie, leaving, seen, pending, signing>>
    BY DEF closeSettings
  <2>3. TypeOK'
    BY <2>1, <2>2, CleanupIs DEF TypeOK, Requested
  <2>4. AskedByDialog'
    BY <2>1, <2>2, CleanupIs DEF TypeOK, AskedByDialog
  <2>5. SessionFollows'
    BY <2>1, <2>2 DEF TypeOK, SessionFollows
  <2> QED BY <2>3, <2>4, <2>5
<1>12. ASSUME NEW t \in Tabs, NEW req \in loads[t], LoadAnswered(t, req) PROVE Inv'
  <2>1. PICK b \in BOOLEAN :
            Render(t, [dialog[t] EXCEPT !.prefs = req[1], !.listing = b], loads[t] \ {req})
    BY <1>12 DEF LoadAnswered
  <2> DEFINE d == [dialog[t] EXCEPT !.prefs = req[1], !.listing = b]
  <2>2. d \in Dialogs /\ d.open = dialog[t].open /\ d.token = dialog[t].token
    <3>1. d \in Dialogs /\ dialog[t] \in Dialogs
      BY AnswerIs
    <3> QED BY <3>1 DEF Dialogs
  <2>3. /\ Render(t, d, loads[t] \ {req})
        /\ UNCHANGED <<stored, cookie, leaving, seen, pending, signing>>
    BY <1>12, <2>1 DEF LoadAnswered
  <2> HIDE DEF d
  <2> QED BY <2>2, <2>3, AnswerIs, RenderKeeps
<1>13. ASSUME NEW t \in Tabs, NEW req \in loads[t], LoadFailed(t, req) PROVE Inv'
  <2> DEFINE d == [dialog[t] EXCEPT !.error = TRUE]
  <2>1. d \in Dialogs /\ d.open = dialog[t].open /\ d.token = dialog[t].token
    BY AnswerIs DEF Dialogs
  <2>2. /\ Render(t, d, loads[t] \ {req})
        /\ UNCHANGED <<stored, cookie, leaving, seen, pending, signing>>
    BY <1>13 DEF LoadFailed
  <2> HIDE DEF d
  <2> QED BY <2>1, <2>2, AnswerIs, RenderKeeps
<1>18. ASSUME NEW t \in Tabs, NEW req \in loads[t], LoadIgnored(t, req) PROVE Inv'
  BY <1>18 DEF Inv, LoadIgnored, TypeOK, AskedByDialog, SessionFollows
<1>19. ASSUME NEW t \in Tabs, NEW failed \in BOOLEAN, DevicesListed(t, failed) PROVE Inv'
  <2> DEFINE d == [dialog[t] EXCEPT !.listing = FALSE,
                                    !.error = IF failed THEN TRUE ELSE @]
  <2>1. d \in Dialogs /\ d.open = dialog[t].open /\ d.token = dialog[t].token
    BY DEF Inv, TypeOK, Dialogs
  <2>2. Render(t, d, loads[t])
    BY <1>19 DEF DevicesListed
  <2> HIDE DEF d
  <2> QED BY <1>19, <2>1, <2>2, RenderKeeps DEF DevicesListed
<1>14. ASSUME NEW t \in Tabs, patch(t) PROVE Inv'
  BY <1>14, RenderKeeps DEF Inv, TypeOK, patch
<1>15. ASSUME NEW t \in Tabs, save(t) PROVE Inv'
  <2> DEFINE d == [dialog[t] EXCEPT !.saving = dialog[t].token, !.error = FALSE]
  <2>1. d \in Dialogs /\ d.open = dialog[t].open /\ d.token = dialog[t].token
    BY DEF Inv, TypeOK, Dialogs
  <2>2. Render(t, d, loads[t])
    BY <1>15 DEF save
  <2> HIDE DEF d
  <2> QED BY <1>15, <2>1, <2>2, RenderKeeps DEF save
<1>16. ASSUME NEW t \in Tabs, SaveAnswered(t) PROVE Inv'
  <2> DEFINE d == [dialog[t] EXCEPT !.saving = Nobody, !.prefs = dialog[t].saving]
  <2>1. d \in Dialogs /\ d.open = dialog[t].open /\ d.token = dialog[t].token
    BY DEF Inv, TypeOK, Dialogs, Sessions
  <2>2. Render(t, d, loads[t])
    BY <1>16 DEF SaveAnswered
  <2> HIDE DEF d
  <2> QED BY <1>16, <2>1, <2>2, RenderKeeps DEF SaveAnswered
<1>17. ASSUME NEW t \in Tabs, SaveFailed(t) PROVE Inv'
  <2> DEFINE d == [dialog[t] EXCEPT !.saving = Nobody, !.error = TRUE]
  <2>1. d \in Dialogs /\ d.open = dialog[t].open /\ d.token = dialog[t].token
    BY DEF Inv, TypeOK, Dialogs, Sessions
  <2>2. Render(t, d, loads[t])
    BY <1>17 DEF SaveFailed
  <2> HIDE DEF d
  <2> QED BY <1>17, <2>1, <2>2, RenderKeeps DEF SaveFailed
<1> QED BY <1>1, <1>2, <1>3, <1>4, <1>5, <1>6, <1>7, <1>8, <1>9, <1>10, <1>11, <1>12,
           <1>13, <1>14, <1>15, <1>16, <1>17, <1>18, <1>19 DEF Next

(* At the start every tab shows the stored session. *)
LEMMA InvInit == Init => Inv
<1> SUFFICES ASSUME Init PROVE Inv
  OBVIOUS
<1>1. Closed \in Dialogs
  BY DEF Closed, Dialogs, Sessions
<1>2. TypeOK
  <2>1. 0 \in 0..MaxSignIns
    BY BoundAssumption
  <2>2. stored \in Sessions /\ cookie \in Sessions /\ leaving \in BOOLEAN
    BY DEF Init, Sessions
  <2> QED BY <1>1, <2>1, <2>2 DEF Init, TypeOK
<1> QED BY <1>2 DEF Init, Inv, AskedByDialog, SessionFollows, Closed

-----------------------------------------------------------------------------
(* The theorems *)

(* The invariant holds in every reachable state. *)
THEOREM InvHolds == Spec => []Inv
BY InvInit, InvStep, PTL DEF Spec

(* The types of the session's state (session.ts, SettingsModal.tsx). *)
THEOREM TypesHold == Spec => []TypeOK
<1>1. Inv => TypeOK
  BY DEF Inv
<1> QED BY <1>1, InvHolds, PTL

(* A tab that shows another session than the stored one is about to be told. *)
THEOREM SessionFollowsHolds == Spec => []SessionFollows
<1>1. Inv => SessionFollows
  BY DEF Inv
<1> QED BY <1>1, InvHolds, PTL

(* Preferences that appear in the settings are of the token shown, or saved. *)
LEMMA PrefsOfToken ==
    ASSUME Inv, Next, NEW t \in Tabs, dialog'[t].prefs # dialog[t].prefs
    PROVE  dialog'[t].prefs \in {Nobody, dialog[t].token, dialog[t].saving}
<1> DEFINE OK == dialog'[t].prefs \in {Nobody, dialog[t].token, dialog[t].saving}
<1> USE DEF Inv
<1>0. /\ dialog \in [Tabs -> Dialogs] /\ stored \in Sessions /\ cookie \in Sessions
      /\ Nobody \in Sessions
  BY DEF TypeOK, Sessions
<1>1. ASSUME NEW u \in Tabs, NEW d \in Dialogs, NEW s \in Sessions,
             dialog' = [dialog EXCEPT ![u] = Shown(d, s)], d.prefs = dialog[u].prefs
      PROVE  FALSE
  BY <1>0, <1>1, ShownIs
<1>2. ASSUME NEW u \in Tabs, NEW s \in Sessions, setSession(u, s) PROVE FALSE
  <2>1. dialog' = [dialog EXCEPT ![u] = Shown(dialog[u], s)]
    BY <1>0, <1>2 DEF setSession, notify
  <2> QED BY <1>0, <1>1, <2>1
<1>3. CASE UNCHANGED dialog
  BY <1>3
<1>4. ASSUME NEW u \in Tabs, dialog' = [dialog EXCEPT ![u] = Closed] PROVE OK
  BY <1>0, <1>4 DEF Closed
<1>5. ASSUME NEW u \in Tabs, openSettings(u) PROVE OK
  BY <1>0, <1>5 DEF openSettings, Closed
<1>6. ASSUME NEW u \in Tabs, NEW req \in loads[u], LoadAnswered(u, req) PROVE OK
  <2>1. PICK b \in BOOLEAN :
            Render(u, [dialog[u] EXCEPT !.prefs = req[1], !.listing = b], loads[u] \ {req})
    BY <1>6 DEF LoadAnswered
  <2> DEFINE d == [dialog[u] EXCEPT !.prefs = req[1], !.listing = b]
  <2>2. d \in Dialogs /\ d.prefs = req[1]
    <3>1. d \in Dialogs /\ dialog[u] \in Dialogs
      BY <1>0, AnswerIs
    <3> QED BY <3>1 DEF Dialogs
  <2>3. dialog' = [dialog EXCEPT ![u] = Shown(d, stored)]
    BY <2>1 DEF Render
  <2> HIDE DEF d
  <2>4. u = t /\ dialog'[t].prefs = req[1]
    BY <1>0, <2>2, <2>3, ShownIs
  <2>5. req[1] \in Tokens /\ req = <<req[1], TRUE>>
    <3>1. req \in Tokens \X BOOLEAN
      BY DEF TypeOK
    <3>2. PICK w \in Tokens, c \in BOOLEAN : req = <<w, c>>
      BY <3>1
    <3>3. c = TRUE
      BY <1>6, <3>2 DEF LoadAnswered
    <3> QED BY <3>2, <3>3
  <2>6. dialog[u].token = req[1]
    BY <2>5 DEF AskedByDialog
  <2> QED BY <2>4, <2>6
<1>7. ASSUME NEW u \in Tabs, NEW req \in loads[u], LoadFailed(u, req) PROVE FALSE
  <2> DEFINE d == [dialog[u] EXCEPT !.error = TRUE]
  <2>1. d \in Dialogs /\ d.prefs = dialog[u].prefs
    BY <1>0, AnswerIs DEF Dialogs
  <2>2. dialog' = [dialog EXCEPT ![u] = Shown(d, stored)]
    BY <1>7 DEF LoadFailed, Render
  <2> HIDE DEF d
  <2> QED BY <1>0, <1>1, <2>1, <2>2
<1>19. ASSUME NEW u \in Tabs, NEW failed \in BOOLEAN, DevicesListed(u, failed) PROVE FALSE
  <2> DEFINE d == [dialog[u] EXCEPT !.listing = FALSE,
                                    !.error = IF failed THEN TRUE ELSE @]
  <2>1. d \in Dialogs /\ d.prefs = dialog[u].prefs
    BY <1>0 DEF Dialogs
  <2>2. dialog' = [dialog EXCEPT ![u] = Shown(d, stored)]
    BY <1>19 DEF DevicesListed, Render
  <2> HIDE DEF d
  <2> QED BY <1>0, <1>1, <2>1, <2>2
<1>20. ASSUME NEW u \in Tabs, NEW req \in loads[u], LoadIgnored(u, req) PROVE OK
  BY <1>3, <1>20 DEF LoadIgnored
<1>8. ASSUME NEW u \in Tabs, StorageEvent(u) \/ patch(u) PROVE FALSE
  BY <1>0, <1>1, <1>8 DEF StorageEvent, patch, Render
<1>9. ASSUME NEW u \in Tabs, save(u) PROVE FALSE
  <2> DEFINE d == [dialog[u] EXCEPT !.saving = dialog[u].token, !.error = FALSE]
  <2>1. d \in Dialogs /\ d.prefs = dialog[u].prefs
    BY <1>0 DEF Dialogs
  <2>2. dialog' = [dialog EXCEPT ![u] = Shown(d, stored)]
    BY <1>9 DEF save, Render
  <2> HIDE DEF d
  <2> QED BY <1>0, <1>1, <2>1, <2>2
<1>10. ASSUME NEW u \in Tabs, SaveFailed(u) PROVE FALSE
  <2> DEFINE d == [dialog[u] EXCEPT !.saving = Nobody, !.error = TRUE]
  <2>1. d \in Dialogs /\ d.prefs = dialog[u].prefs
    BY <1>0 DEF Dialogs
  <2>2. dialog' = [dialog EXCEPT ![u] = Shown(d, stored)]
    BY <1>10 DEF SaveFailed, Render
  <2> HIDE DEF d
  <2> QED BY <1>0, <1>1, <2>1, <2>2
<1>11. ASSUME NEW u \in Tabs, SaveAnswered(u) PROVE OK
  <2> DEFINE d == [dialog[u] EXCEPT !.saving = Nobody, !.prefs = dialog[u].saving]
  <2>1. d \in Dialogs /\ d.prefs = dialog[u].saving
    BY <1>0 DEF Dialogs
  <2>2. dialog' = [dialog EXCEPT ![u] = Shown(d, stored)]
    BY <1>11 DEF SaveAnswered, Render
  <2> HIDE DEF d
  <2> QED BY <1>0, <2>1, <2>2, ShownIs
<1>12. ASSUME NEW u \in Tabs, NEW token \in Tokens, SignInAnswered(u, token) PROVE FALSE
  BY <1>2, <1>12 DEF SignInAnswered, Sessions
<1>13. ASSUME NEW u \in Tabs, AppSessionBridge(u) PROVE FALSE
  BY <1>0, <1>2, <1>13 DEF AppSessionBridge
<1>14. ASSUME NEW u \in Tabs, signOut(u) PROVE FALSE
  BY <1>0, <1>2, <1>14 DEF signOut
<1>15. ASSUME NEW u \in Tabs, closeSettings(u) PROVE OK
  BY <1>4, <1>15 DEF closeSettings
<1>16. ASSUME NEW u \in Tabs, NEW token \in Tokens, GoogleReturns(u, token) PROVE OK
  BY <1>4, <1>16 DEF GoogleReturns
<1>17. ASSUME NEW u \in Tabs, Rerender(u) \/ signIn(u) \/ SignInFailed(u) PROVE OK
  BY <1>3, <1>17 DEF Rerender, signIn, SignInFailed
<1>18. CASE SignOutAnswered
  BY <1>3, <1>18 DEF SignOutAnswered
<1> QED BY <1>5, <1>6, <1>7, <1>8, <1>9, <1>10, <1>11, <1>12, <1>13, <1>14, <1>15, <1>16,
           <1>17, <1>18, <1>19, <1>20 DEF Next

(* The settings show no answer to a request they gave up. *)
THEOREM LoadIsCurrentHolds == Spec => LoadIsCurrent
<1> DEFINE Step == \A t \in Tabs :
                dialog'[t].prefs # dialog[t].prefs =>
                    dialog'[t].prefs \in {Nobody, dialog[t].token, dialog[t].saving}
<1>1. Inv /\ [Next]_vars => [Step]_vars
  BY PrefsOfToken
<1> QED BY <1>1, InvHolds, PTL DEF Spec, LoadIsCurrent
=============================================================================
