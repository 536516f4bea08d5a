----------------------------- MODULE HostPages -----------------------------
(***************************************************************************)
(* The pages of a host in one browser tab: the tiles of /home              *)
(* (ActionTiles.tsx), the lists of /meetings with their detail pane and    *)
(* the confirmation of a deletion (MeetingsView.tsx, MeetingDetail.tsx,    *)
(* PersonalRoom.tsx, Tabs.tsx) and the form of /schedule                   *)
(* (ScheduleForm.tsx).                                                     *)
(*                                                                         *)
(* A request outlives the page that made it.  Then it changes no page, but *)
(* the server still acts, and its answer still pushes another page; only   *)
(* lookups (the list of a tab, the meeting to edit, the refresh) end with  *)
(* it.  The server acts when it answers, or when its answer is lost.  The  *)
(* host's meetings are numbered; a row is a meeting and the status it had  *)
(* when the list was read.  Of the form its origin and its time are kept.  *)
(* Texts, what is shown while a list loads or cannot be had, copying of    *)
(* links, the order of rows, and the pushed view of small screens are left *)
(* out.                                                                    *)
(***************************************************************************)
EXTENDS Datetime, FiniteSets

CONSTANTS
    Meetings,       \* numbers the host's meetings can get
    Given,          \* the time of each that was scheduled before
    Clock,          \* bound: moments at which a new form is opened
    Options,        \* bound: choices made on the controls of the time
    Requests        \* bound: requests in flight at a time

NoMeeting == 0

ASSUME HostPagesAssumption ==
    /\ Meetings \subseteq Nat \ {NoMeeting}
    /\ DOMAIN Given \subseteq Meetings
    /\ \A m \in DOMAIN Given : Given[m] \in Moments
    /\ Clock \subseteq Moments /\ Options \subseteq halfHourOptions

VARIABLES
    status,         \* of each meeting, on the server
    scheduled_start, \*   its scheduled_start, 0 if it has none
    user,           \* somebody with an account is signed in
    page,           \* which page is shown
    creating,       \* of the tiles
    view,           \* the state of MeetingsView
    form,           \*   and of ScheduleForm
    request

vars == <<status, scheduled_start, user, page, creating, view, form, request>>

Statuses == {"none", "scheduled", "live", "ended", "cancelled"}
Tabs     == {"upcoming", "previous", "personal"}
Optional == Meetings \union {NoMeeting}

NoRows == [m \in Meetings |-> "none"]

NoView == [tab |-> "upcoming", rows |-> NoRows, selectedId |-> NoMeeting,
           requested |-> NoMeeting, pendingDelete |-> NoMeeting, busy |-> FALSE]

(* editing is the meeting that was read.  For the properties, read is its     *)
(* scheduled_start as it was read, until the user touches the time of the     *)
(* form, and goes along with a save.                                           *)
NotRead == -1

NoForm == [edit |-> NoMeeting, gate |-> "loading", editing |-> NoMeeting,
           read |-> NotRead, when |-> splitDateAndTime(0), saving |-> FALSE]

Idle == [op |-> "idle", of |-> NoMeeting, tab |-> "upcoming",
         time |-> 0, read |-> NotRead, live |-> FALSE]

Ops == {"idle", "list", "refresh", "start", "cancel", "create", "read", "save",
        "redirect"}

Views == [tab : Tabs, rows : [Meetings -> Statuses], selectedId : Optional,
          requested : Optional, pendingDelete : Optional, busy : BOOLEAN]

Forms == [edit : Optional, gate : {"loading", "failed", "form"},
          editing : Optional, read : Moments \union {NotRead}, when : Whens,
          saving : BOOLEAN]

Calls == [op : Ops, of : Optional, tab : Tabs,
          time : Moments, read : Moments \union {NotRead}, live : BOOLEAN]

TypeOK ==
    /\ status \in [Meetings -> Statuses] /\ scheduled_start \in [Meetings -> Moments]
    /\ user \in BOOLEAN
    /\ page \in {"home", "meetings", "schedule", "elsewhere"}
    /\ creating \in BOOLEAN
    /\ view \in Views /\ form \in Forms
    /\ request \in [Requests -> Calls]

Init ==
    /\ status = [m \in Meetings |-> IF m \in DOMAIN Given THEN "scheduled" ELSE "none"]
    /\ scheduled_start = [m \in Meetings |-> IF m \in DOMAIN Given THEN Given[m] ELSE 0]
    /\ user \in BOOLEAN
    /\ page = "elsewhere" /\ creating = FALSE
    /\ view = NoView /\ form = NoForm
    /\ request = [i \in Requests |-> Idle]

-----------------------------------------------------------------------------
(* Pages and requests *)

Free(i) == request[i].op = "idle"

(* The requests once the page that made them is gone. *)
Orphaned ==
    [i \in Requests |-> IF request[i].op \in {"list", "read", "refresh"} THEN Idle
                        ELSE [request[i] EXCEPT !.live = FALSE, !.tab = "upcoming"]]

(* The same with request i ended, or another begun in its place. *)
Without(reqs, i) == [k \in Requests |-> IF k = i THEN Idle ELSE reqs[k]]

With(reqs, i, op, of, tab) ==
    [k \in Requests |->
        IF k = i THEN [op |-> op, of |-> of, tab |-> tab,
                       time |-> 0, read |-> NotRead, live |-> TRUE]
        ELSE reqs[k]]

Ask(i, op, of, tab) == Free(i) /\ request' = With(request, i, op, of, tab)

End(i) == request' = Without(request, i)

(* Another page, by a link or a push.  It may first have to ask. *)
Show(p, v, f, reqs) ==
    /\ page' = p /\ creating' = FALSE
    /\ view' = v /\ form' = f
    /\ request' = reqs

ShowElsewhere(reqs) == Show("elsewhere", NoView, NoForm, reqs)

ShowMeetings(requested, reqs) ==
    \E i \in Requests :
        /\ reqs[i].op = "idle"
        /\ Show("meetings", [NoView EXCEPT !.requested = requested], NoForm,
                With(reqs, i, "list", NoMeeting, "upcoming"))

GoAway == page # "elsewhere" /\ ShowElsewhere(Orphaned)
                             /\ UNCHANGED <<status, scheduled_start, user>>
GoHome == page = "elsewhere" /\ Show("home", NoView, NoForm, Orphaned)
                             /\ UNCHANGED <<status, scheduled_start, user>>
GoMeetings == page = "elsewhere" /\ ShowMeetings(NoMeeting, Orphaned)
                                 /\ UNCHANGED <<status, scheduled_start, user>>

SignInOrOut ==
    /\ user' = ~user
    /\ UNCHANGED <<status, scheduled_start, page, creating, view, form, request>>

-----------------------------------------------------------------------------
(* The tiles *)

(* handleStartMeeting, from the tile or its menu. *)
NewMeeting(i) ==
    /\ page = "home" /\ ~creating
    /\ creating' = TRUE
    /\ Ask(i, "create", NoMeeting, "upcoming")
    /\ UNCHANGED <<status, scheduled_start, user, page, view, form>>

(* initialState and stateFromMeeting. *)
NewForm(t) == [NoForm EXCEPT !.when = splitDateAndTime(nextHalfHour(t)), !.gate = "form"]
FormOf(f, m) == [f EXCEPT !.editing = m, !.gate = "form", !.read = scheduled_start[m],
                          !.when = splitDateAndTime(scheduled_start[m])]

Schedule(t) ==
    /\ page = "home" /\ ~creating
    /\ Show("schedule", NoView, NewForm(t), Orphaned)
    /\ UNCHANGED <<status, scheduled_start, user>>

-----------------------------------------------------------------------------
(* The lists *)

ListShown == page = "meetings" /\ view.tab # "personal"
PersonalRoom == page = "meetings" /\ view.tab = "personal" /\ user

(* The tab that is shown already can be chosen too; the effect that loads    *)
(* the list then does not run.                                                *)
changeTab(i, next) ==
    /\ page = "meetings"
    /\ view' = [view EXCEPT !.tab = next, !.rows = NoRows]
    /\ LET kept == [k \in Requests |-> IF request[k].op = "list" THEN Idle ELSE request[k]]
       IN  IF next = view.tab THEN UNCHANGED request
           ELSE IF next = "personal" THEN request' = kept
           ELSE kept[i].op = "idle" /\ request' = With(kept, i, "list", NoMeeting, next)
    /\ UNCHANGED <<status, scheduled_start, user, page, creating, form>>

(* What the server lists, of meetings whose time has not passed. *)
Listed(tab) ==
    [m \in Meetings |->
        IF status[m] \in (IF tab = "upcoming" THEN {"scheduled", "live"} ELSE {"ended"})
        THEN status[m] ELSE "none"]

ListAnswered(i) ==
    /\ request[i].op = "list" /\ user
    /\ view' = [view EXCEPT !.rows = Listed(request[i].tab)]
    /\ End(i)
    /\ UNCHANGED <<status, scheduled_start, user, page, creating, form>>

(* Refused to a guest, or failed. *)
ListFailed(i) ==
    /\ request[i].op = "list"
    /\ view' = [view EXCEPT !.rows = NoRows]
    /\ End(i)
    /\ UNCHANGED <<status, scheduled_start, user, page, creating, form>>

Row(m) == m \in Meetings /\ view.rows[m] # "none"

(* The rows of a refresh are there, but not shown, while another list loads. *)
loading == \E i \in Requests : request[i].op = "list"

(* The meeting of the detail pane. *)
selected(m) ==
    /\ ListShown /\ Row(m)
    /\ \/ m = view.selectedId
       \/ m = view.requested /\ ~Row(view.selectedId)
       \/ /\ ~Row(view.selectedId) /\ ~Row(view.requested)
          /\ \A k \in Meetings : k < m => ~Row(k)

handleSelect(m) ==
    /\ ListShown /\ ~loading /\ Row(m) /\ view.selectedId # m
    /\ view' = [view EXCEPT !.selectedId = m]
    /\ UNCHANGED <<status, scheduled_start, user, page, creating, form, request>>

-----------------------------------------------------------------------------
(* The detail pane *)

canStart(m)  == ~view.busy /\ view.rows[m] \in {"scheduled", "ended"}
canEdit(m)   == ~view.busy /\ view.rows[m] = "scheduled"
(* Faulty: also while a request is under way. *)
DeletableWhileBusy(m) == view.rows[m] = "scheduled"
canDelete(m) == ~view.busy /\ view.rows[m] = "scheduled"

handleStart(i, m) ==
    /\ selected(m) /\ canStart(m)
    /\ view' = [view EXCEPT !.busy = TRUE]
    /\ Ask(i, "start", m, "upcoming")
    /\ UNCHANGED <<status, scheduled_start, user, page, creating, form>>

handleStartPersonalRoom ==
    /\ PersonalRoom /\ ~view.busy
    /\ ShowElsewhere(Orphaned)
    /\ UNCHANGED <<status, scheduled_start, user>>

(* The faulty form that shows its defaults while it reads. *)
FormAtOnce(m) == [NoForm EXCEPT !.edit = m, !.gate = "form"]
FormLoading(m) == [NoForm EXCEPT !.edit = m]

(* The form of /schedule?edit=m, which first reads m. *)
handleEdit(m) ==
    /\ selected(m) /\ canEdit(m)
    /\ \E i \in Requests :
        /\ Orphaned[i].op = "idle"
        /\ Show("schedule", NoView, FormLoading(m),
                With(Orphaned, i, "read", m, "upcoming"))
    /\ UNCHANGED <<status, scheduled_start, user>>

AskDelete(m) ==
    /\ selected(m) /\ canDelete(m)
    /\ view' = [view EXCEPT !.pendingDelete = m]
    /\ UNCHANGED <<status, scheduled_start, user, page, creating, form, request>>

(* Escape and the backdrop close it also while the request is under way. *)
CloseConfirmation ==
    /\ ListShown /\ view.pendingDelete # NoMeeting
    /\ view' = [view EXCEPT !.pendingDelete = NoMeeting]
    /\ UNCHANGED <<status, scheduled_start, user, page, creating, form, request>>

handleConfirmDelete(i) ==
    /\ ListShown /\ view.pendingDelete # NoMeeting /\ ~view.busy
    /\ view' = [view EXCEPT !.busy = TRUE]
    /\ Ask(i, "cancel", view.pendingDelete, view.tab)
    /\ UNCHANGED <<status, scheduled_start, user, page, creating, form>>

-----------------------------------------------------------------------------
(* The form *)

ReadAnswered(i) ==
    /\ request[i].op = "read"
    /\ form' = FormOf(form, request[i].of)
    /\ End(i)
    /\ UNCHANGED <<status, scheduled_start, user, page, creating, view>>

ReadFailed(i) ==
    /\ request[i].op = "read"
    /\ form' = [form EXCEPT !.gate = "failed"]
    /\ End(i)
    /\ UNCHANGED <<status, scheduled_start, user, page, creating, view>>

FormShown == page = "schedule" /\ form.gate = "form" /\ user

(* set, of one of the three controls; also while the form is being saved. *)
SetWhen(option) ==
    /\ FormShown
    /\ \/ form' = [form EXCEPT !.when.date = option.date, !.read = NotRead]
       \/ form' = [form EXCEPT !.when.hour = option.hour, !.when.minute = option.minute,
                               !.read = NotRead]
       \/ form' = [form EXCEPT !.when.pm = option.pm, !.read = NotRead]
    /\ UNCHANGED <<status, scheduled_start, user, page, creating, view, request>>

(* handleSubmit with a form that validate accepts. *)
handleSubmit(i) ==
    /\ FormShown /\ ~form.saving /\ Free(i)
    /\ form' = [form EXCEPT !.saving = TRUE]
    /\ request' = [request EXCEPT ![i] =
           [op |-> "save", of |-> form.editing, tab |-> "upcoming",
            time |-> combineDateAndTime(form.when),
            read |-> form.read, live |-> TRUE]]
    /\ UNCHANGED <<status, scheduled_start, user, page, creating, view>>

-----------------------------------------------------------------------------
(* Answers *)

NextNumber(m) == status[m] = "none" /\ \A k \in Meetings : k < m => status[k] # "none"

(* What the server makes of the status. *)
Becomes(i, m) ==
    CASE request[i].op = "start" /\ m = request[i].of
            /\ status[m] \in {"scheduled", "ended"} -> {"live"}
      [] request[i].op = "cancel" /\ m = request[i].of
            /\ status[m] = "scheduled" -> {"cancelled"}
      [] request[i].op = "save" /\ m = request[i].of
            /\ status[m] = "scheduled" -> {"scheduled"}
      [] request[i].op = "save" /\ request[i].of = NoMeeting /\ NextNumber(m) -> {"scheduled"}
      [] request[i].op = "create" /\ NextNumber(m) -> {"live"}
      [] OTHER -> {}

(* A save writes the time, of a new meeting or of an old one. *)
Written(i, m) == IF request[i].op = "save" THEN [scheduled_start EXCEPT ![m] = request[i].time]
                 ELSE scheduled_start

Done(i, m) ==
    \E s \in Becomes(i, m) :
        status' = [status EXCEPT ![m] = s] /\ scheduled_start' = Written(i, m)

StartAnswered(i, m) ==
    /\ request[i].op \in {"start", "create"} /\ Done(i, m)
    /\ ShowElsewhere(Without(Orphaned, i))
    /\ UNCHANGED user

(* The rest of handleConfirmDelete: refresh, with the tab of that time; what  *)
(* it reads when the page is gone changes nothing.                            *)
CancelAnswered(i, m) ==
    /\ request[i].op = "cancel" /\ Done(i, m)
    /\ view' = IF request[i].live
               THEN [view EXCEPT !.pendingDelete = NoMeeting, !.selectedId = NoMeeting]
               ELSE view
    /\ IF request[i].tab = "personal" \/ ~request[i].live THEN End(i)
       ELSE request' = [request EXCEPT ![i].op = "refresh"]
    /\ UNCHANGED <<user, page, creating, form>>

(* The list of the old tab, whichever tab is shown now. *)
RefreshAnswered(i) ==
    /\ request[i].op = "refresh"
    /\ view' = [view EXCEPT !.busy = FALSE, !.rows = Listed(request[i].tab)]
    /\ End(i)
    /\ UNCHANGED <<status, scheduled_start, user, page, creating, form>>

RefreshFailed(i) ==
    /\ request[i].op = "refresh"
    /\ view' = [view EXCEPT !.busy = FALSE]
    /\ End(i)
    /\ UNCHANGED <<status, scheduled_start, user, page, creating, form>>

SaveAnswered(i, m) ==
    /\ request[i].op = "save" /\ Done(i, m)
    /\ ShowMeetings(m, Without(Orphaned, i))
    /\ UNCHANGED user

(* The duration was cut: the form stays for a while to say so.  The server   *)
(* says that only of a new meeting.                                           *)
SavedShorter(i, m) ==
    /\ request[i].op = "save" /\ request[i].of = NoMeeting /\ Done(i, m)
    /\ form' = IF request[i].live THEN [form EXCEPT !.saving = FALSE] ELSE form
    /\ request' = [request EXCEPT ![i] = [Idle EXCEPT !.op = "redirect", !.of = m]]
    /\ UNCHANGED <<user, page, creating, view>>

(* The timer, which nothing clears. *)
Redirect(i) ==
    /\ request[i].op = "redirect"
    /\ ShowMeetings(request[i].of, Without(Orphaned, i))
    /\ UNCHANGED <<status, scheduled_start, user>>

(* Refused, failed, or done with the answer lost: the catch of each handler. *)
Failed(i) ==
    /\ request[i].op \in {"start", "cancel", "create", "save"}
    /\ UNCHANGED <<status, scheduled_start>> \/ \E m \in Meetings : Done(i, m)
    /\ IF request[i].live
       THEN /\ view' = [view EXCEPT !.busy = FALSE]
            /\ form' = [form EXCEPT !.saving = FALSE]
            /\ creating' = FALSE
       ELSE UNCHANGED <<view, form, creating>>
    /\ End(i)
    /\ UNCHANGED <<user, page>>

(* A meeting ends, and another may be cancelled from another device. *)
EndsElsewhere(m) ==
    /\ status[m] = "live" /\ status' = [status EXCEPT ![m] = "ended"]
    /\ UNCHANGED <<scheduled_start, user, page, creating, view, form, request>>

Next ==
    \/ GoAway \/ GoHome \/ GoMeetings \/ SignInOrOut \/ CloseConfirmation
    \/ handleStartPersonalRoom
    \/ \E t \in Clock : Schedule(t)
    \/ \E option \in Options : SetWhen(option)
    \/ \E m \in Meetings : handleSelect(m) \/ handleEdit(m) \/ AskDelete(m)
                           \/ EndsElsewhere(m)
    \/ \E i \in Requests :
        \/ NewMeeting(i) \/ handleConfirmDelete(i) \/ handleSubmit(i)
        \/ ListAnswered(i) \/ ListFailed(i) \/ ReadAnswered(i) \/ ReadFailed(i)
        \/ RefreshAnswered(i) \/ RefreshFailed(i) \/ Redirect(i) \/ Failed(i)
        \/ \E next \in Tabs : changeTab(i, next)
        \/ \E m \in Meetings : \/ handleStart(i, m) \/ StartAnswered(i, m)
                               \/ CancelAnswered(i, m) \/ SaveAnswered(i, m)
                               \/ SavedShorter(i, m)

Spec == Init /\ [][Next]_vars

-----------------------------------------------------------------------------
(* Properties *)

Mutates(i) ==
    request[i].live /\ request[i].op \in {"start", "cancel", "refresh", "create", "save"}

(* A page has one request under way that changes something, and while it is a  *)
(* deletion the confirmation on screen is none or its own: the answer neither  *)
(* closes another confirmation nor makes a page available that still waits     *)
(* (busy of MeetingsView, creating of ActionTiles, saving of ScheduleForm).    *)
OneRequest ==
    /\ \A i, j \in Requests : Mutates(i) /\ Mutates(j) => i = j
    /\ \A i \in Requests :
        request[i].live /\ request[i].op = "cancel" =>
            view.pendingDelete \in {NoMeeting, request[i].of}

(* The form that is shown is of the meeting it was opened for and is saved to  *)
(* it, and one whose time nobody touched saves the time it had read: never      *)
(* the defaults of a new form, and never a time that went wrong on its way      *)
(* through the controls (the gates of ScheduleForm, splitDateAndTime).           *)
FormIsTheMeetings ==
    /\ FormShown => form.editing = form.edit
    /\ \A i \in Requests :
        request[i].op = "save" =>
            /\ request[i].live => request[i].of = form.edit
            /\ request[i].read # NotRead => request[i].time = request[i].read
=============================================================================
