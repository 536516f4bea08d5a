------------------------------ MODULE Account ------------------------------
(***************************************************************************)
(* Who is signed in, in the tabs of one browser: the token in localStorage *)
(* and those that follow it (lib/session.ts), the bridge from the cookie   *)
(* of Auth.js (AuthProvider.tsx), the account menu and the settings dialog *)
(* (AccountMenu.tsx, SettingsModal.tsx).                                   *)
(*                                                                         *)
(* Token and user are written together, and a tab hears of a write by      *)
(* another tab some time later.  A tab reads localStorage whenever it      *)
(* renders, and the menu and the pages of a tab render together.  Of the   *)
(* preferences it is kept which token they were read with; of a save that  *)
(* outlives the dialog, nothing.  The answer of a sign-in in this page is  *)
(* a guest's or, in development, the seeded host's.  Themes, panes,        *)
(* devices, the camera preview and the microphone test are left out.       *)
(***************************************************************************)
EXTENDS Integers

CONSTANTS
    Tabs,
    Tokens,
    MaxSignIns,     \* bound: sign-ins under way in a tab
    SettingsTabs    \* bound: the tabs in which the settings are opened

Nobody == "nobody"
ASSUME TokensAssumption == Nobody \notin Tokens
ASSUME BoundAssumption == MaxSignIns \in Nat /\ SettingsTabs \subseteq Tabs

VARIABLES
    stored,         \* the token in localStorage
    cookie,         \* the token the Auth.js session would give
    leaving,        \* the cookie is being removed
    seen,           \* per tab: the session the page shows
    pending,        \*   a storage event that has not been delivered
    signing,        \*   sign-ins under way
    dialog,         \*   the settings
    loads           \*   the requests for preferences: <<token, not given up>>

vars == <<stored, cookie, leaving, seen, pending, signing, dialog, loads>>

Sessions == Tokens \union {Nobody}

Closed == [open |-> FALSE, token |-> Nobody, prefs |-> Nobody, error |-> FALSE,
           saving |-> Nobody, listing |-> FALSE]

Dialogs == [open : BOOLEAN, token : Sessions, prefs : Sessions,
            error : BOOLEAN, saving : Sessions,
            listing : BOOLEAN]  \* the last load waits for the list of devices

TypeOK ==
    /\ stored \in Sessions /\ cookie \in Sessions /\ leaving \in BOOLEAN
    /\ seen \in [Tabs -> Sessions] /\ pending \in [Tabs -> BOOLEAN]
    /\ signing \in [Tabs -> 0..MaxSignIns]
    /\ dialog \in [Tabs -> Dialogs]
    /\ loads \in [Tabs -> SUBSET (Tokens \X BOOLEAN)]

Init ==
    /\ stored \in Sessions /\ cookie \in {Nobody, stored} /\ leaving = FALSE
    /\ seen = [t \in Tabs |-> stored] /\ pending = [t \in Tabs |-> FALSE]
    /\ signing = [t \in Tabs |-> 0]
    /\ dialog = [t \in Tabs |-> Closed] /\ loads = [t \in Tabs |-> {}]

-----------------------------------------------------------------------------
(* Rendering of the settings *)

(* The cleanup of the effect that loads; the faulty one forgets it. *)
ForgetsCleanup(reqs) == reqs
Cleanup(reqs) == {<<req[1], FALSE>> : req \in reqs}

Begun(reqs, token) ==
    Cleanup(reqs) \union (IF token = Nobody THEN {} ELSE {<<token, TRUE>>})

(* The dialog of tab t becomes d, and renders with the token s; if it is a new  *)
(* one, the cleanup also gives up a list of devices that is awaited.             *)
Shown(d, s) ==
    IF d.open THEN [d EXCEPT !.token = s,
                             !.listing = IF d.token = s THEN @ ELSE FALSE]
              ELSE d

Running(d, reqs, s) ==
    IF d.open /\ d.token # s THEN Begun(reqs, s) ELSE reqs

Render(t, d, reqs) ==
    /\ dialog' = [dialog EXCEPT ![t] = Shown(d, stored)]
    /\ loads' = [loads EXCEPT ![t] = Running(d, reqs, stored)]

-----------------------------------------------------------------------------
(* The session *)

(* The tab's own listeners run at once, those of the other tabs by an event; *)
(* the faulty one leaves out its own.                                          *)
TellsOthers(t, s) ==
    /\ seen' = seen
    /\ pending' = [u \in Tabs |-> pending[u] \/ (u # t /\ s # stored)]
    /\ UNCHANGED <<dialog, loads>>

notify(t, s) ==
    /\ seen' = [seen EXCEPT ![t] = s]
    /\ pending' = [u \in Tabs |-> pending[u] \/ (u # t /\ s # stored)]
    /\ dialog' = [dialog EXCEPT ![t] = Shown(@, s)]
    /\ loads' = [loads EXCEPT ![t] = Running(dialog[t], @, s)]

setSession(t, s) == stored' = s /\ notify(t, s)

StorageEvent(t) ==
    /\ pending[t]
    /\ pending' = [pending EXCEPT ![t] = FALSE]
    /\ seen' = [seen EXCEPT ![t] = stored]
    /\ Render(t, dialog[t], loads[t])
    /\ UNCHANGED <<stored, cookie, leaving, signing>>

(* Something else renders: the menu opens or closes, a page loads. *)
Rerender(t) ==
    /\ seen[t] # stored
    /\ seen' = [seen EXCEPT ![t] = stored]
    /\ UNCHANGED <<stored, cookie, leaving, pending, signing, dialog, loads>>

(* Of the menu or the settings of one who is not signed in, or as a guest on a *)
(* page that asks for a name.                                                   *)
signIn(t) ==
    /\ \/ seen[t] = Nobody
       \/ dialog[t].open /\ dialog[t].token = Nobody /\ dialog[t].error
    /\ signing[t] < MaxSignIns
    /\ signing' = [signing EXCEPT ![t] = @ + 1]
    /\ UNCHANGED <<stored, cookie, leaving, seen, pending, dialog, loads>>

SignInAnswered(t, token) ==
    /\ signing[t] > 0
    /\ signing' = [signing EXCEPT ![t] = @ - 1]
    /\ setSession(t, token)
    /\ UNCHANGED <<cookie, leaving>>

SignInFailed(t) ==
    /\ signing[t] > 0
    /\ signing' = [signing EXCEPT ![t] = @ - 1]
    /\ UNCHANGED <<stored, cookie, leaving, seen, pending, dialog, loads>>

(* Google sends the tab back to /home with a cookie: all of it is new. *)
GoogleReturns(t, token) ==
    /\ signing[t] > 0
    /\ cookie' = token
    /\ signing' = [signing EXCEPT ![t] = 0]
    /\ seen' = [seen EXCEPT ![t] = stored]
    /\ pending' = [pending EXCEPT ![t] = FALSE]
    /\ dialog' = [dialog EXCEPT ![t] = Closed]
    /\ loads' = [loads EXCEPT ![t] = {}]
    /\ UNCHANGED <<stored, leaving>>

(* Auth.js reads its cookie, on return to the tab too, and hands out a new    *)
(* object each time, so that the effect runs.                                   *)
AppSessionBridge(t) ==
    /\ cookie # Nobody /\ stored # cookie
    /\ setSession(t, cookie)
    /\ UNCHANGED <<cookie, leaving, signing>>

signOut(t) ==
    /\ seen[t] # Nobody
    /\ setSession(t, Nobody)
    /\ leaving' = TRUE
    /\ UNCHANGED <<cookie, signing>>

SignOutAnswered ==
    /\ leaving /\ leaving' = FALSE
    /\ cookie' \in {Nobody, cookie}
    /\ UNCHANGED <<stored, seen, pending, signing, dialog, loads>>

-----------------------------------------------------------------------------
(* The settings *)

openSettings(t) ==
    /\ t \in SettingsTabs /\ ~dialog[t].open
    /\ dialog' = [dialog EXCEPT ![t] =
           [Closed EXCEPT !.open = TRUE, !.token = stored, !.error = (stored = Nobody)]]
    /\ loads' = [loads EXCEPT ![t] = Begun(@, stored)]
    /\ UNCHANGED <<stored, cookie, leaving, seen, pending, signing>>

closeSettings(t) ==
    /\ dialog[t].open
    /\ dialog' = [dialog EXCEPT ![t] = Closed]
    /\ loads' = [loads EXCEPT ![t] = Cleanup(@)]
    /\ UNCHANGED <<stored, cookie, leaving, seen, pending, signing>>

(* The preferences are set, and the devices listed if the browser can. *)
LoadAnswered(t, req) ==
    /\ req \in loads[t] /\ req[2]
    /\ \E listing \in BOOLEAN :
           Render(t, [dialog[t] EXCEPT !.prefs = req[1], !.listing = listing],
                  loads[t] \ {req})
    /\ UNCHANGED <<stored, cookie, leaving, seen, pending, signing>>

LoadFailed(t, req) ==
    /\ req \in loads[t] /\ req[2]
    /\ Render(t, [dialog[t] EXCEPT !.error = TRUE], loads[t] \ {req})
    /\ UNCHANGED <<stored, cookie, leaving, seen, pending, signing>>

(* The end of one that was given up. *)
LoadIgnored(t, req) ==
    /\ req \in loads[t] /\ ~req[2]
    /\ loads' = [loads EXCEPT ![t] = @ \ {req}]
    /\ UNCHANGED <<stored, cookie, leaving, seen, pending, signing, dialog>>

(* The same try holds the listing of the devices: if that fails, the error is  *)
(* shown beside the preferences.                                                *)
DevicesListed(t, failed) ==
    /\ dialog[t].listing
    /\ Render(t, [dialog[t] EXCEPT !.listing = FALSE,
                                   !.error = IF failed THEN TRUE ELSE @],
              loads[t])
    /\ UNCHANGED <<stored, cookie, leaving, seen, pending, signing>>

(* A change of a preference, of the pane, of a local choice. *)
patch(t) ==
    /\ dialog[t].open
    /\ Render(t, dialog[t], loads[t])
    /\ UNCHANGED <<stored, cookie, leaving, seen, pending, signing>>

canSave(d) == d.open /\ d.prefs # Nobody /\ d.saving = Nobody /\ d.token # Nobody

(* What is shown is sent with the token of the last rendering. *)
save(t) ==
    /\ canSave(dialog[t])
    /\ Render(t, [dialog[t] EXCEPT !.saving = dialog[t].token, !.error = FALSE], loads[t])
    /\ UNCHANGED <<stored, cookie, leaving, seen, pending, signing>>

SaveAnswered(t) ==
    /\ dialog[t].saving # Nobody
    /\ Render(t, [dialog[t] EXCEPT !.saving = Nobody, !.prefs = dialog[t].saving],
              loads[t])
    /\ UNCHANGED <<stored, cookie, leaving, seen, pending, signing>>

SaveFailed(t) ==
    /\ dialog[t].saving # Nobody
    /\ Render(t, [dialog[t] EXCEPT !.saving = Nobody, !.error = TRUE], loads[t])
    /\ UNCHANGED <<stored, cookie, leaving, seen, pending, signing>>

Next ==
    \/ SignOutAnswered
    \/ \E t \in Tabs :
        \/ StorageEvent(t) \/ Rerender(t) \/ AppSessionBridge(t)
        \/ signIn(t) \/ SignInFailed(t) \/ signOut(t)
        \/ \E token \in Tokens : SignInAnswered(t, token) \/ GoogleReturns(t, token)
        \/ openSettings(t) \/ closeSettings(t) \/ patch(t)
        \/ save(t) \/ SaveAnswered(t) \/ SaveFailed(t)
        \/ \E req \in loads[t] : LoadAnswered(t, req) \/ LoadFailed(t, req) \/ LoadIgnored(t, req)
        \/ \E failed \in BOOLEAN : DevicesListed(t, failed)

Spec == Init /\ [][Next]_vars

-----------------------------------------------------------------------------
(* Properties *)

(* A tab that shows another session than the stored one, on its page or in its *)
(* settings, is about to be told: no sequence of sign-ins, sign-outs and        *)
(* restored cookies in several tabs leaves it showing a session that is gone    *)
(* ("Together they keep every tab consistent", subscribe).                       *)
SessionFollows ==
    \A t \in Tabs :
        seen[t] # stored \/ (dialog[t].open /\ dialog[t].token # stored) => pending[t]

(* Preferences that arrive in the settings are those of the session the dialog *)
(* was showing, or the answer to its save: one that was asked for with an      *)
(* earlier token, or by a dialog since closed, is not shown.                    *)
LoadIsCurrent ==
    [][\A t \in Tabs :
        dialog'[t].prefs # dialog[t].prefs =>
            dialog'[t].prefs \in {Nobody, dialog[t].token, dialog[t].saving}]_vars
=============================================================================
