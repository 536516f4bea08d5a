----------------------------- MODULE HostProofs -----------------------------
(***************************************************************************)
(* Proofs about what a host sees of his meetings.                          *)
(*                                                                         *)
(* Of Datetime and HostPages, for any meetings, times and number of        *)
(* requests: what the time controls of the form do to a time, the types of *)
(* the pages, that a page has one request under way that changes           *)
(* something, and that a form saves to the meeting it was opened for.      *)
(*                                                                         *)
(* Of HostMeetings, for any ids, times, page size and number of pages: the *)
(* types of the rows and of a walk through a list, that a walk skips no    *)
(* row that kept its place, and that it shows such rows in order.          *)
(***************************************************************************)
EXTENDS HostPages, HostMeetings, FiniteSetTheorems, TLAPS

-----------------------------------------------------------------------------
(* Moments and the controls of the form *)

(* A moment is a day, an hour of it and a minute. *)
LEMMA MomentIs ==
    ASSUME NEW t \in Moments
    PROVE  /\ t \div Day \in Nat /\ Hours24(t) \in 0..23 /\ t % 60 \in 0..59
           /\ t = Day * (t \div Day) + 60 * Hours24(t) + (t % 60)
<1>1. t \in Nat
  BY DEF Moments
<1>2. t \div 1440 \in Nat /\ (t % 1440) \in 0..1439 /\ t = 1440 * (t \div 1440) + (t % 1440)
  BY <1>1
<1>3. (t % 1440) \div 60 \in 0..23 /\ (t % 1440) % 60 \in 0..59
      /\ t % 1440 = 60 * ((t % 1440) \div 60) + ((t % 1440) % 60)
  BY <1>2
<1>4. t % 60 = (t % 1440) % 60
  BY <1>1, <1>2
<1> QED BY <1>2, <1>3, <1>4 DEF Day, Hours24

(* Splitting a moment gives a value the form can hold (splitDateAndTime). *)
LEMMA SplitIsATime == ASSUME NEW t \in Moments PROVE splitDateAndTime(t) \in Whens
<1>1. t \div Day \in Nat /\ Hours24(t) \in 0..23 /\ t % 60 \in 0..59
  BY MomentIs
<1>2. (IF Hours24(t) % 12 = 0 THEN 12 ELSE Hours24(t) % 12) \in 1..12
  BY <1>1
<1>3. (Hours24(t) >= 12) \in BOOLEAN
  OBVIOUS
<1> QED BY <1>1, <1>2, <1>3 DEF splitDateAndTime, Whens

LEMMA CombineIsAMoment ==
    ASSUME NEW when \in Whens PROVE combineDateAndTime(when) \in Moments
<1>1. when.date \in Nat /\ when.hour \in 1..12 /\ when.minute \in 0..59 /\ when.pm \in BOOLEAN
  BY DEF Whens
<1> DEFINE h == (when.hour % 12) + (IF when.pm THEN 12 ELSE 0)
<1>2. h \in 0..23
  BY <1>1
<1>3. combineDateAndTime(when) = 1440 * when.date + 60 * h + when.minute
  BY DEF combineDateAndTime, Day
<1> HIDE DEF h
<1>4. 1440 * when.date + 60 * h + when.minute \in Nat
  BY <1>1, <1>2
<1> QED BY <1>3, <1>4 DEF Moments

(* Combining is the inverse of splitting: a moment that only went through the *)
(* controls of the form is the moment it was (combineDateAndTime).             *)
THEOREM CombineUndoesSplit ==
    \A t \in Moments : combineDateAndTime(splitDateAndTime(t)) = t
<1> SUFFICES ASSUME NEW t \in Moments
             PROVE  combineDateAndTime(splitDateAndTime(t)) = t
  OBVIOUS
<1> DEFINE h == Hours24(t)
<1>1. /\ t \div Day \in Nat /\ h \in 0..23 /\ t % 60 \in 0..59
      /\ t = Day * (t \div Day) + 60 * h + (t % 60)
  BY MomentIs
<1>2. combineDateAndTime(splitDateAndTime(t)) =
        Day * (t \div Day)
          + 60 * (((IF h % 12 = 0 THEN 12 ELSE h % 12) % 12) + (IF h >= 12 THEN 12 ELSE 0))
          + (t % 60)
  BY DEF combineDateAndTime, splitDateAndTime, h
<1> HIDE DEF h
<1>3. ((IF h % 12 = 0 THEN 12 ELSE h % 12) % 12) + (IF h >= 12 THEN 12 ELSE 0) = h
  BY <1>1
<1> QED BY <1>1, <1>2, <1>3

(* And splitting that of combining: the form shows again what was chosen on   *)
(* its controls, whichever hour and meridiem that was.                         *)
THEOREM SplitUndoesCombine ==
    \A when \in Whens : splitDateAndTime(combineDateAndTime(when)) = when
<1> SUFFICES ASSUME NEW when \in Whens
             PROVE  splitDateAndTime(combineDateAndTime(when)) = when
  OBVIOUS
<1>1. when.date \in Nat /\ when.hour \in 1..12 /\ when.minute \in 0..59 /\ when.pm \in BOOLEAN
  BY DEF Whens
<1> DEFINE h == (when.hour % 12) + (IF when.pm THEN 12 ELSE 0)
<1> DEFINE t == combineDateAndTime(when)
<1>2. h \in 0..23 /\ (IF h % 12 = 0 THEN 12 ELSE h % 12) = when.hour
  BY <1>1
<1>3. (h >= 12) <=> when.pm
  BY <1>1
<1> DEFINE d == when.date
<1> DEFINE m == when.minute
<1>4. d \in Nat /\ h \in 0..23 /\ m \in 0..59 /\ t = Day * d + 60 * h + m
  BY <1>1, <1>2 DEF combineDateAndTime
<1> HIDE DEF h, t, d, m
<1>5. t \div Day = d /\ Hours24(t) = h /\ t % 60 = m
  <2>1. t \in Nat /\ t = 1440 * d + 60 * h + m
    BY <1>4 DEF Day
  <2>2. t \div 1440 = d /\ t % 1440 = 60 * h + m /\ t % 60 = m
    BY <1>4, <2>1
  <2>3. (60 * h + m) \div 60 = h
    BY <1>4
  <2> QED BY <2>2, <2>3 DEF Day, Hours24
<1> USE DEF d, m
<1>6. splitDateAndTime(t) = [date |-> when.date, hour |-> when.hour,
                             minute |-> when.minute, pm |-> h >= 12]
  BY <1>2, <1>5 DEF splitDateAndTime
<1>7. (h >= 12) = when.pm
  BY <1>1, <1>3
<1>8. when = [date |-> when.date, hour |-> when.hour,
              minute |-> when.minute, pm |-> when.pm]
  BY DEF Whens
<1> QED BY <1>6, <1>7, <1>8 DEF t

(* A new form offers a time after now and within the half hour (nextHalfHour). *)
THEOREM NextHalfHourIsNext ==
    \A t \in Moments : /\ nextHalfHour(t) \in (t + 1)..(t + 30)
                       /\ nextHalfHour(t) % 30 = 0
<1> SUFFICES ASSUME NEW t \in Moments
             PROVE  nextHalfHour(t) \in (t + 1)..(t + 30) /\ nextHalfHour(t) % 30 = 0
  OBVIOUS
<1> DEFINE m == t % 60
<1> DEFINE h == t \div 60
<1>1. h \in Nat /\ m \in 0..59 /\ t = 60 * h + m
  BY DEF Moments
<1>2. nextHalfHour(t) = t - m + (IF m < 30 THEN 30 ELSE 60)
  BY DEF nextHalfHour
<1> HIDE DEF h, m
<1>3. nextHalfHour(t) = 60 * h + (IF m < 30 THEN 30 ELSE 60)
  BY <1>1, <1>2
<1> QED BY <1>1, <1>3

(* The controls of a new form show values that their selects offer, before    *)
(* and after midnight; those of a form that edits need not (halfHourOptions).   *)
THEOREM NewTimeIsOffered ==
    \A t \in Moments : splitDateAndTime(nextHalfHour(t)) \in halfHourOptions
<1> SUFFICES ASSUME NEW t \in Moments
             PROVE  splitDateAndTime(nextHalfHour(t)) \in halfHourOptions
  OBVIOUS
<1> DEFINE n == nextHalfHour(t)
<1>1. n \in (t + 1)..(t + 30) /\ n % 30 = 0
  BY NextHalfHourIsNext
<1> HIDE DEF n
<1>2. n \in Moments
  BY <1>1 DEF Moments
<1>3. n % 60 \in {0, 30}
  BY <1>1, <1>2 DEF Moments
<1>4. splitDateAndTime(n) \in Whens /\ splitDateAndTime(n).minute = n % 60
  BY <1>2, SplitIsATime DEF splitDateAndTime
<1>5. splitDateAndTime(n) \in halfHourOptions
  BY <1>3, <1>4 DEF Whens, halfHourOptions
<1> QED BY <1>5 DEF n

-----------------------------------------------------------------------------
(* The inductive invariant *)

(* A request belongs to the page it can change: its kind to the page, which  *)
(* is busy with it, a deletion to the confirmation, a lookup and a save to    *)
(* the form; and a save of an untouched form carries the time it had read.    *)
SavesItsTime(r) == r.op = "save" /\ r.read # NotRead => r.time = r.read

Changes(r) == r.live /\ r.op \in {"start", "cancel", "refresh", "create", "save"}

Belongs(r) ==
    /\ SavesItsTime(r)
    /\ r.op = "refresh" => r.live
    /\ r.op = "read" => page = "schedule" /\ r.of \in Meetings /\ r.of = form.edit
    /\ Changes(r) =>
        /\ r.op = "create" => page = "home" /\ creating
        /\ r.op \in {"start", "cancel", "refresh"} => page = "meetings" /\ view.busy
        /\ r.op = "cancel" => view.pendingDelete \in {NoMeeting, r.of}
        /\ r.op = "save" => /\ page = "schedule" /\ form.saving
                            /\ r.of = form.edit /\ r.of = form.editing

(* A form that is shown is of the meeting it was opened for, and untouched it *)
(* shows the time it read.                                                     *)
FormRight(p, f) ==
    /\ f.gate = "form" /\ p = "schedule" => f.editing = f.edit
    /\ f.read # NotRead => f.when = splitDateAndTime(f.read)

ServerOK == status \in [Meetings -> Statuses] /\ scheduled_start \in [Meetings -> Moments]

Alone == \A i, j \in Requests : Changes(request[i]) /\ Changes(request[j]) => i = j

Inv ==
    /\ TypeOK /\ Alone /\ FormRight(page, form)
    /\ \A i \in Requests : Belongs(request[i])

(* A request that changes no page. *)
Quiet(r) ==
    r \in Calls /\ ~Changes(r) /\ r.op \notin {"read", "refresh"} /\ SavesItsTime(r)

-----------------------------------------------------------------------------
(* Requests and forms *)

LEMMA IdleIsQuiet == Quiet(Idle)
BY DEF Quiet, Changes, SavesItsTime, Idle, Calls, Ops, Tabs, Optional, NoMeeting,
       Moments, NotRead

LEMMA StartIsATime ==
    ASSUME TypeOK, NEW m \in Meetings PROVE scheduled_start[m] \in Moments /\ m # NoMeeting
BY HostPagesAssumption DEF HostPagesAssumption, TypeOK

LEMMA NoFormIs == NoForm \in Forms /\ NoForm.gate = "loading" /\ NoForm.read = NotRead
<1>1. 0 \in Moments
  BY DEF Moments
<1>2. splitDateAndTime(0) \in Whens
  BY <1>1, SplitIsATime
<1> QED BY <1>2 DEF NoForm, Forms, Optional

LEMMA ServerStays == ASSUME Inv, UNCHANGED <<status, scheduled_start>> PROVE ServerOK'
BY DEF Inv, TypeOK, ServerOK

LEMMA NoViewIs == NoView \in Views /\ ~NoView.busy /\ NoView.pendingDelete = NoMeeting
<1>1. NoRows \in [Meetings -> Statuses]
  BY DEF NoRows, Statuses
<1> QED BY <1>1 DEF NoView, Views, Tabs, Optional

(* Without its page a request is quiet. *)
LEMMA OrphanedIsQuiet == ASSUME Inv PROVE \A i \in Requests : Quiet(Orphaned[i])
<1> SUFFICES ASSUME NEW i \in Requests PROVE Quiet(Orphaned[i])
  OBVIOUS
<1>1. CASE request[i].op \in {"list", "read", "refresh"}
  <2>1. Orphaned[i] = Idle
    BY <1>1 DEF Orphaned
  <2> QED BY <2>1, IdleIsQuiet
<1>2. CASE request[i].op \notin {"list", "read", "refresh"}
  <2>1. Orphaned[i] = [request[i] EXCEPT !.live = FALSE, !.tab = "upcoming"]
    BY <1>2 DEF Orphaned
  <2>2. request[i] \in Calls /\ SavesItsTime(request[i])
    BY DEF Inv, TypeOK, Belongs
  <2> QED BY <1>2, <2>1, <2>2 DEF Quiet, Changes, SavesItsTime, Calls, Tabs
<1> QED BY <1>1, <1>2

LEMMA WithoutIsQuiet ==
    ASSUME NEW reqs, NEW i \in Requests, \A k \in Requests : Quiet(reqs[k])
    PROVE  \A k \in Requests : Quiet(Without(reqs, i)[k])
BY IdleIsQuiet DEF Without

LEMMA WithIs ==
    ASSUME NEW reqs, NEW i \in Requests, NEW op \in Ops, NEW of \in Optional, NEW tab \in Tabs
    PROVE  /\ With(reqs, i, op, of, tab)[i] =
                 [op |-> op, of |-> of, tab |-> tab, time |-> 0, read |-> NotRead, live |-> TRUE]
           /\ With(reqs, i, op, of, tab)[i] \in Calls
           /\ \A k \in Requests : k # i => With(reqs, i, op, of, tab)[k] = reqs[k]
<1>1. With(reqs, i, op, of, tab)[i] =
      [op |-> op, of |-> of, tab |-> tab, time |-> 0, read |-> NotRead, live |-> TRUE]
  BY DEF With
<1>2. [op |-> op, of |-> of, tab |-> tab, time |-> 0, read |-> NotRead, live |-> TRUE] \in Calls
  <2>1. 0 \in Moments /\ NotRead \in Moments \union {NotRead} /\ TRUE \in BOOLEAN
    BY DEF Moments
  <2> QED BY <2>1, Zenon DEF Calls
<1>3. \A k \in Requests : k # i => With(reqs, i, op, of, tab)[k] = reqs[k]
  BY DEF With
<1> QED BY <1>1, <1>2, <1>3

-----------------------------------------------------------------------------
(* Kinds of steps *)

(* Another page, with no request that changes it. *)
LEMMA ShowKeeps ==
    ASSUME Inv, NEW p \in {"home", "meetings", "schedule", "elsewhere"},
           NEW v \in Views, NEW f \in Forms, NEW reqs, Show(p, v, f, reqs),
           reqs = [k \in Requests |-> reqs[k]],
           \A k \in Requests :
               /\ reqs[k] \in Calls /\ ~Changes(reqs[k]) /\ SavesItsTime(reqs[k])
               /\ reqs[k].op # "refresh"
               /\ reqs[k].op = "read" => p = "schedule" /\ reqs[k].of \in Meetings
                                         /\ reqs[k].of = f.edit,
           FormRight(p, f), ServerOK', user' \in BOOLEAN
    PROVE  Inv'
<1>1. page' = p /\ creating' = FALSE /\ view' = v /\ form' = f /\ request' = reqs
  BY DEF Show
<1>2. reqs \in [Requests -> Calls]
  OBVIOUS
<1>3. TypeOK'
  BY <1>1, <1>2 DEF TypeOK, ServerOK
<1>4. Alone' /\ FormRight(page, form)'
  BY <1>1 DEF Alone, FormRight, Changes
<1>5. \A i \in Requests : Belongs(request[i])'
  BY <1>1 DEF Belongs, SavesItsTime, Changes
<1> QED BY <1>3, <1>4, <1>5 DEF Inv

(* The page stays, and no request is new: each is as it was, or quiet.  What  *)
(* requests belong to stays too.                                               *)
LEMMA StayKeeps ==
    ASSUME Inv, TypeOK', FormRight(page, form)', page' = page, creating' = creating,
           view'.busy = view.busy,
           view'.pendingDelete \in {NoMeeting, view.pendingDelete},
           form'.saving = form.saving, form'.edit = form.edit,
           form'.editing \in {form.editing, form.edit},
           \A k \in Requests : request'[k] = request[k] \/ Quiet(request'[k])
    PROVE  Inv'
<1>1. Alone'
  BY DEF Alone, Inv, Quiet, Changes
<1>2. ASSUME NEW k \in Requests PROVE Belongs(request[k])'
  <2>1. Belongs(request[k])
    BY DEF Inv
  <2>2. CASE request'[k] = request[k]
    <3>1. SavesItsTime(request[k])' /\ (Changes(request[k])' <=> Changes(request[k]))
      BY <2>1, <2>2 DEF Belongs, SavesItsTime, Changes
    <3> QED BY <2>1, <2>2, <3>1 DEF Belongs, Changes
  <2>3. CASE Quiet(request'[k])
    BY <2>3 DEF Belongs, Quiet, SavesItsTime, Changes
  <2> QED BY <2>2, <2>3
<1> QED BY <1>1, <1>2 DEF Inv

(* The page stays, and no request but i changes it before or after. *)
LEMMA OneKeeps ==
    ASSUME Inv, TypeOK', FormRight(page, form)', page' = page, form'.edit = form.edit,
           NEW i \in Requests,
           \A k \in Requests : k # i => request'[k] = request[k] /\ ~Changes(request[k]),
           Belongs(request[i])'
    PROVE  Inv'
<1>1. Alone'
  BY DEF Alone, Changes
<1>2. ASSUME NEW k \in Requests, k # i PROVE Belongs(request[k])'
  <2>1. Belongs(request[k]) /\ request'[k] = request[k] /\ ~Changes(request[k])
    BY <1>2 DEF Inv
  <2> QED BY <2>1 DEF Belongs, SavesItsTime, Changes
<1> QED BY <1>1, <1>2 DEF Inv

(* A page that is not busy has no request that changes something. *)
LEMMA NotBusy ==
    ASSUME Inv,
           \/ page = "home" /\ ~creating
           \/ page = "meetings" /\ ~view.busy
           \/ page = "schedule" /\ ~form.saving
    PROVE  \A k \in Requests : ~Changes(request[k])
<1> SUFFICES ASSUME NEW k \in Requests, Changes(request[k]) PROVE FALSE
  OBVIOUS
<1>1. Belongs(request[k])
  BY DEF Inv
<1> QED BY <1>1 DEF Belongs, Changes

-----------------------------------------------------------------------------
(* Pages *)

LEMMA ShowElsewhereKeeps ==
    ASSUME Inv, NEW reqs, \A k \in Requests : Quiet(reqs[k]),
           reqs = [k \in Requests |-> reqs[k]], ShowElsewhere(reqs),
           ServerOK', user' \in BOOLEAN
    PROVE  Inv'
<1>1. FormRight("elsewhere", NoForm)
  BY NoFormIs DEF FormRight
<1>2. Show("elsewhere", NoView, NoForm, reqs)
  BY DEF ShowElsewhere
<1> QED BY <1>1, <1>2, NoFormIs, NoViewIs, ShowKeeps DEF Quiet

LEMMA ShowMeetingsKeeps ==
    ASSUME Inv, NEW reqs, \A k \in Requests : Quiet(reqs[k]),
           reqs = [k \in Requests |-> reqs[k]],
           NEW m \in Optional, ShowMeetings(m, reqs),
           ServerOK', user' \in BOOLEAN
    PROVE  Inv'
<1>1. PICK i \in Requests :
        Show("meetings", [NoView EXCEPT !.requested = m], NoForm,
             With(reqs, i, "list", NoMeeting, "upcoming"))
  BY DEF ShowMeetings
<1> DEFINE asked == With(reqs, i, "list", NoMeeting, "upcoming")
<1>2. asked = [k \in Requests |-> asked[k]]
  BY DEF With
<1>3. "list" \in Ops /\ NoMeeting \in Optional /\ "upcoming" \in Tabs
  BY DEF Ops, Optional, Tabs
<1>4. ASSUME NEW k \in Requests PROVE Quiet(asked[k])
  <2>1. asked[i] = [op |-> "list", of |-> NoMeeting, tab |-> "upcoming", time |-> 0,
                    read |-> NotRead, live |-> TRUE]
        /\ asked[i] \in Calls /\ (k # i => asked[k] = reqs[k])
    BY <1>3, WithIs
  <2>2. Quiet(asked[i])
    BY <2>1 DEF Quiet, Changes, SavesItsTime
  <2> QED BY <2>1, <2>2
<1> HIDE DEF asked
<1>5. [NoView EXCEPT !.requested = m] \in Views
  BY NoViewIs DEF Views
<1>6. FormRight("meetings", NoForm)
  BY NoFormIs DEF FormRight
<1>7. Show("meetings", [NoView EXCEPT !.requested = m], NoForm, asked)
  BY <1>1 DEF asked
<1> QED BY <1>2, <1>4, <1>5, <1>6, <1>7, NoFormIs, ShowKeeps DEF Quiet

LEMMA OrphanedIs ==
    ASSUME Inv
    PROVE  /\ \A k \in Requests : Quiet(Orphaned[k])
           /\ Orphaned = [k \in Requests |-> Orphaned[k]]
           /\ \A i \in Requests :
                 /\ \A k \in Requests : Quiet(Without(Orphaned, i)[k])
                 /\ Without(Orphaned, i) = [k \in Requests |-> Without(Orphaned, i)[k]]
<1>1. \A k \in Requests : Quiet(Orphaned[k])
  BY OrphanedIsQuiet
<1>2. Orphaned = [k \in Requests |-> Orphaned[k]]
  BY DEF Orphaned
<1>3. \A i \in Requests : \A k \in Requests : Quiet(Without(Orphaned, i)[k])
  BY <1>1, WithoutIsQuiet
<1>4. \A i \in Requests : Without(Orphaned, i) = [k \in Requests |-> Without(Orphaned, i)[k]]
  BY DEF Without
<1> QED BY <1>1, <1>2, <1>3, <1>4

LEMMA GoKeeps ==
    ASSUME Inv, GoAway \/ GoHome \/ GoMeetings \/ handleStartPersonalRoom
    PROVE  Inv'
<1>1. CASE GoAway \/ handleStartPersonalRoom
  <2>1. ShowElsewhere(Orphaned) /\ UNCHANGED <<status, scheduled_start, user>>
    BY <1>1 DEF GoAway, handleStartPersonalRoom
  <2> QED BY <2>1, OrphanedIs, ServerStays, ShowElsewhereKeeps DEF Inv, TypeOK
<1>2. CASE GoHome
  <2>1. Show("home", NoView, NoForm, Orphaned) /\ UNCHANGED <<status, scheduled_start, user>>
    BY <1>2 DEF GoHome
  <2>2. FormRight("home", NoForm)
    BY NoFormIs DEF FormRight
  <2>3. ServerOK' /\ user' \in BOOLEAN
    BY <2>1, ServerStays DEF Inv, TypeOK
  <2>4. Orphaned = [k \in Requests |-> Orphaned[k]]
        /\ \A k \in Requests :
            /\ Orphaned[k] \in Calls /\ ~Changes(Orphaned[k])
            /\ SavesItsTime(Orphaned[k]) /\ Orphaned[k].op \notin {"read", "refresh"}
    BY OrphanedIs DEF Quiet
  <2> QED BY <2>1, <2>2, <2>3, <2>4, NoFormIs, NoViewIs, ShowKeeps
<1>3. CASE GoMeetings
  <2>1. ShowMeetings(NoMeeting, Orphaned) /\ UNCHANGED <<status, scheduled_start, user>>
    BY <1>3 DEF GoMeetings
  <2>2. NoMeeting \in Optional
    BY DEF Optional
  <2> QED BY <2>1, <2>2, OrphanedIs, ServerStays, ShowMeetingsKeeps DEF Inv, TypeOK
<1> QED BY <1>1, <1>2, <1>3

LEMMA ScheduleKeeps == ASSUME Inv, NEW t \in Clock, Schedule(t) PROVE Inv'
<1>1. Show("schedule", NoView, NewForm(t), Orphaned) /\ UNCHANGED <<status, scheduled_start, user>>
  BY DEF Schedule
<1>2. t \in Moments
  BY HostPagesAssumption DEF HostPagesAssumption
<1>3. splitDateAndTime(nextHalfHour(t)) \in Whens
  BY <1>2, NewTimeIsOffered DEF halfHourOptions, Whens
<1>4. /\ NewForm(t) \in Forms /\ NewForm(t).editing = NoMeeting
      /\ NewForm(t).edit = NoMeeting /\ NewForm(t).read = NotRead
  BY <1>3, NoFormIs DEF NewForm, NoForm, Forms, Optional
<1>5. FormRight("schedule", NewForm(t))
  BY <1>4 DEF FormRight
<1>6. Orphaned = [k \in Requests |-> Orphaned[k]]
      /\ \A k \in Requests :
          /\ Orphaned[k] \in Calls /\ ~Changes(Orphaned[k])
          /\ SavesItsTime(Orphaned[k]) /\ Orphaned[k].op \notin {"read", "refresh"}
  BY OrphanedIs DEF Quiet
<1>7. ServerOK' /\ user' \in BOOLEAN
  BY <1>1, ServerStays DEF Inv, TypeOK
<1> QED BY <1>1, <1>4, <1>5, <1>6, <1>7, NoViewIs, ShowKeeps

LEMMA EditKeeps == ASSUME Inv, NEW m \in Meetings, handleEdit(m) PROVE Inv'
<1>1. PICK i \in Requests :
        Show("schedule", NoView, FormLoading(m), With(Orphaned, i, "read", m, "upcoming"))
  BY DEF handleEdit
<1> DEFINE asked == With(Orphaned, i, "read", m, "upcoming")
<1>2. asked = [k \in Requests |-> asked[k]]
  BY DEF With
<1>3. "read" \in Ops /\ m \in Optional /\ "upcoming" \in Tabs
  BY DEF Ops, Optional, Tabs
<1>4. /\ FormLoading(m) \in Forms /\ FormLoading(m).edit = m
      /\ FormLoading(m).gate = "loading" /\ FormLoading(m).read = NotRead
  BY <1>3, NoFormIs DEF FormLoading, NoForm, Forms
<1>5. FormRight("schedule", FormLoading(m))
  BY <1>4 DEF FormRight
<1>6. ASSUME NEW k \in Requests
      PROVE  /\ asked[k] \in Calls /\ ~Changes(asked[k]) /\ SavesItsTime(asked[k])
             /\ asked[k].op # "refresh"
             /\ asked[k].op = "read" => asked[k].of \in Meetings /\ asked[k].of = m
  <2>1. asked[i] = [op |-> "read", of |-> m, tab |-> "upcoming", time |-> 0,
                    read |-> NotRead, live |-> TRUE]
        /\ (k # i => asked[k] = Orphaned[k])
    BY DEF With
  <2>2. CASE k = i
    <3>1. asked[i] \in Calls
      <4>1. 0 \in Moments /\ NotRead \in Moments \union {NotRead} /\ TRUE \in BOOLEAN
        BY DEF Moments
      <4>2. [op |-> "read", of |-> m, tab |-> "upcoming", time |-> 0,
             read |-> NotRead, live |-> TRUE] \in Calls
        BY <1>3, <4>1, Zenon DEF Calls
      <4> HIDE DEF asked
      <4> QED BY <2>1, <4>2
    <3> HIDE DEF asked
    <3> QED BY <2>1, <2>2, <3>1 DEF Changes, SavesItsTime
  <2>3. CASE k # i
    <3>1. Quiet(Orphaned[k])
      BY OrphanedIs
    <3> QED BY <2>1, <2>3, <3>1 DEF Quiet
  <2> QED BY <2>2, <2>3
<1>7. UNCHANGED <<status, scheduled_start, user>>
  BY DEF handleEdit
<1>8. ServerOK' /\ user' \in BOOLEAN
  BY <1>7, ServerStays DEF Inv, TypeOK
<1>9. Show("schedule", NoView, FormLoading(m), asked)
  BY <1>1
<1> HIDE DEF asked
<1> QED BY <1>2, <1>4, <1>5, <1>6, <1>8, <1>9, NoViewIs, ShowKeeps

-----------------------------------------------------------------------------
(* Steps of a page that stays *)

(* Steps that leave the requests alone. *)
LEMMA PageStepKeeps ==
    ASSUME Inv,
           \/ SignInOrOut \/ CloseConfirmation
           \/ \E option \in Options : SetWhen(option)
           \/ \E m \in Meetings : handleSelect(m) \/ AskDelete(m) \/ EndsElsewhere(m)
    PROVE  Inv'
<1> USE DEF Inv
<1>1. CASE SignInOrOut \/ \E m \in Meetings : EndsElsewhere(m)
  <2>1. UNCHANGED <<page, creating, view, form, request>>
    BY <1>1 DEF SignInOrOut, EndsElsewhere
  <2>2. ServerOK'
    BY <1>1 DEF SignInOrOut, EndsElsewhere, TypeOK, Statuses, ServerOK
  <2>3. user' \in BOOLEAN
    <3>1. CASE SignInOrOut
      BY <3>1 DEF SignInOrOut
    <3>2. CASE \E m \in Meetings : EndsElsewhere(m)
      BY <3>2 DEF EndsElsewhere, TypeOK
    <3> QED BY <1>1, <3>1, <3>2
  <2>4. TypeOK' /\ FormRight(page, form)'
    BY <2>1, <2>2, <2>3 DEF TypeOK, ServerOK, FormRight
  <2> QED BY <2>1, <2>4, StayKeeps
<1>2. CASE CloseConfirmation \/ \E m \in Meetings : handleSelect(m)
  <2>1. UNCHANGED <<status, scheduled_start, user, page, creating, form, request>>
    BY <1>2 DEF CloseConfirmation, handleSelect
  <2>2. view' \in Views /\ view'.busy = view.busy
        /\ view'.pendingDelete \in {NoMeeting, view.pendingDelete}
    <3>1. PICK m \in Optional : \/ view' = [view EXCEPT !.pendingDelete = NoMeeting]
                                \/ view' = [view EXCEPT !.selectedId = m]
      BY <1>2 DEF CloseConfirmation, handleSelect, Optional
    <3>2. NoMeeting \in Optional /\ view \in Views
      BY DEF Optional, TypeOK
    <3> QED BY <3>1, <3>2 DEF Views
  <2>3. TypeOK' /\ FormRight(page, form)'
    BY <2>1, <2>2 DEF TypeOK, FormRight
  <2> QED BY <2>1, <2>2, <2>3, StayKeeps
<1>3. CASE \E option \in Options : SetWhen(option)
  <2>1. PICK option \in Options : SetWhen(option)
    BY <1>3
  <2>2. PICK when : /\ form' = [form EXCEPT !.when = when, !.read = NotRead]
                    /\ \/ when = [form.when EXCEPT !.date = option.date]
                       \/ when = [form.when EXCEPT !.hour = option.hour,
                                                   !.minute = option.minute]
                       \/ when = [form.when EXCEPT !.pm = option.pm]
    <3>1. \/ form' = [form EXCEPT !.when.date = option.date, !.read = NotRead]
          \/ form' = [form EXCEPT !.when.hour = option.hour, !.when.minute = option.minute,
                                  !.read = NotRead]
          \/ form' = [form EXCEPT !.when.pm = option.pm, !.read = NotRead]
      BY <2>1 DEF SetWhen
    <3>2. form \in Forms
      BY DEF TypeOK
    <3> QED BY <3>1, <3>2 DEF Forms, Whens
  <2>3. when \in Whens
    <3>1. option \in halfHourOptions
      BY <2>1, HostPagesAssumption DEF HostPagesAssumption
    <3>2. option.date \in Nat /\ option.hour \in 1..12 /\ option.minute \in 0..59
          /\ option.pm \in BOOLEAN
      BY <3>1 DEF halfHourOptions
    <3>3. form.when \in Whens
      BY DEF TypeOK, Forms
    <3> QED BY <2>2, <3>2, <3>3 DEF Whens
  <2>4. UNCHANGED <<status, scheduled_start, user, page, creating, view, request>>
    BY <2>1 DEF SetWhen
  <2>5. /\ form' \in Forms /\ form'.saving = form.saving /\ form'.edit = form.edit
        /\ form'.editing = form.editing /\ form'.read = NotRead /\ form'.gate = form.gate
    BY <2>2, <2>3 DEF TypeOK, Forms
  <2>6. TypeOK' /\ FormRight(page, form)'
    BY <2>4, <2>5 DEF TypeOK, FormRight
  <2> QED BY <2>4, <2>5, <2>6, StayKeeps
<1>4. CASE \E m \in Meetings : AskDelete(m)
  <2>1. PICK m \in Meetings : AskDelete(m)
    BY <1>4
  <2>2. UNCHANGED <<status, scheduled_start, user, page, creating, form, request>>
        /\ view' = [view EXCEPT !.pendingDelete = m]
        /\ page = "meetings" /\ ~view.busy
    BY <2>1 DEF AskDelete, selected, ListShown, canDelete
  <2>3. \A k \in Requests : ~Changes(request[k])
    BY <2>2, NotBusy
  <2>4. view' \in Views /\ view'.busy = view.busy
    BY <2>2 DEF TypeOK, Views, Optional
  <2>5. TypeOK' /\ FormRight(page, form)'
    BY <2>2, <2>4 DEF TypeOK, FormRight
  <2>6. Alone' /\ \A k \in Requests : Belongs(request[k])'
    BY <2>2, <2>3 DEF Alone, Belongs, SavesItsTime, Changes
  <2> QED BY <2>5, <2>6
<1> QED BY <1>1, <1>2, <1>3, <1>4

(* Steps that begin a request on a page that is not busy. *)
LEMMA BeginKeeps ==
    ASSUME Inv, NEW i \in Requests,
           \/ NewMeeting(i) \/ handleConfirmDelete(i)
           \/ \E m \in Meetings : handleStart(i, m)
    PROVE  Inv'
<1> USE DEF Inv
<1>1. PICK op \in {"create", "cancel", "start"}, of \in Optional, tab \in Tabs :
        /\ request' = With(request, i, op, of, tab)
        /\ UNCHANGED <<status, scheduled_start, user, page, form>>
        /\ \/ op = "create" /\ page = "home" /\ ~creating /\ creating' = TRUE
              /\ view' = view
           \/ op # "create" /\ page = "meetings" /\ ~view.busy
              /\ view' = [view EXCEPT !.busy = TRUE] /\ creating' = creating
        /\ op = "cancel" => of = view.pendingDelete
  <2>1. CASE NewMeeting(i)
    <3>1. NoMeeting \in Optional /\ "upcoming" \in Tabs
      BY DEF Optional, Tabs
    <3> QED BY <2>1, <3>1 DEF NewMeeting, Ask
  <2>2. CASE handleConfirmDelete(i)
    <3>1. view.pendingDelete \in Optional /\ view.tab \in Tabs
      BY DEF TypeOK, Views
    <3> QED BY <2>2, <3>1 DEF handleConfirmDelete, Ask, ListShown
  <2>3. CASE \E m \in Meetings : handleStart(i, m)
    <3>1. PICK m \in Meetings : handleStart(i, m)
      BY <2>3
    <3>2. m \in Optional /\ "upcoming" \in Tabs
      BY DEF Optional, Tabs
    <3> QED BY <3>1, <3>2 DEF handleStart, Ask, selected, ListShown, canStart
  <2> QED BY <2>1, <2>2, <2>3
<1>2. op \in Ops
  BY DEF Ops
<1>3. /\ request'[i] = [op |-> op, of |-> of, tab |-> tab, time |-> 0,
                        read |-> NotRead, live |-> TRUE]
      /\ \A k \in Requests : k # i => request'[k] = request[k]
      /\ request' = [k \in Requests |-> request'[k]]
  BY <1>1 DEF With
<1>4. \A k \in Requests : request'[k] \in Calls
  <2>1. 0 \in Moments /\ NotRead \in Moments \union {NotRead} /\ TRUE \in BOOLEAN
    BY DEF Moments
  <2>2. [op |-> op, of |-> of, tab |-> tab, time |-> 0,
         read |-> NotRead, live |-> TRUE] \in Calls
    BY <1>2, <2>1, Zenon DEF Calls
  <2>3. \A k \in Requests : request[k] \in Calls
    BY DEF TypeOK
  <2> QED BY <1>3, <2>2, <2>3
<1>5. view' \in Views /\ (op # "create" => view'.busy)
      /\ view'.pendingDelete = view.pendingDelete
  BY <1>1 DEF TypeOK, Views
<1>6. creating' \in BOOLEAN
  <2>1. CASE creating' = TRUE
    BY <2>1
  <2>2. CASE creating' = creating
    BY <2>2 DEF TypeOK
  <2> QED BY <1>1, <2>1, <2>2
<1>7. TypeOK'
  <2>1. request' \in [Requests -> Calls]
    BY <1>3, <1>4
  <2> QED BY <1>1, <1>5, <1>6, <2>1 DEF TypeOK
<1>8. FormRight(page, form)' /\ page' = page /\ form'.edit = form.edit
  BY <1>1 DEF FormRight
<1>9. \A k \in Requests : ~Changes(request[k])
  BY <1>1, NotBusy
<1>10. Belongs(request[i])'
  BY <1>1, <1>3, <1>5 DEF Belongs, SavesItsTime, Changes
<1> QED BY <1>3, <1>7, <1>8, <1>9, <1>10, OneKeeps

LEMMA SubmitKeeps == ASSUME Inv, NEW i \in Requests, handleSubmit(i) PROVE Inv'
<1> USE DEF Inv
<1>1. /\ page = "schedule" /\ form.gate = "form" /\ ~form.saving
      /\ form' = [form EXCEPT !.saving = TRUE]
      /\ UNCHANGED <<status, scheduled_start, user, page, creating, view>>
  BY DEF handleSubmit, FormShown
<1> DEFINE asked == [op |-> "save", of |-> form.editing, tab |-> "upcoming",
                     time |-> combineDateAndTime(form.when), read |-> form.read,
                     live |-> TRUE]
<1>2. request' = [request EXCEPT ![i] = asked]
  BY DEF handleSubmit
<1>3. form \in Forms /\ form.editing \in Optional /\ form.editing = form.edit
  BY <1>1 DEF TypeOK, Forms, FormRight
<1>4. form.read \in Moments \union {NotRead} /\ form.when \in Whens
  BY <1>3 DEF Forms
<1>5. combineDateAndTime(form.when) \in Moments
  BY <1>4, CombineIsAMoment
<1>6. asked \in Calls
  <2>1. "save" \in Ops /\ "upcoming" \in Tabs /\ TRUE \in BOOLEAN
    BY DEF Ops, Tabs
  <2> QED BY <1>3, <1>4, <1>5, <2>1, Zenon DEF Calls
<1>7. SavesItsTime(asked)
  <2> SUFFICES ASSUME form.read # NotRead
               PROVE  combineDateAndTime(form.when) = form.read
    BY DEF SavesItsTime
  <2>1. form.when = splitDateAndTime(form.read) /\ form.read \in Moments
    BY <1>4 DEF FormRight
  <2> QED BY <2>1, CombineUndoesSplit
<1>8. asked.op = "save" /\ asked.of = form.editing
  OBVIOUS
<1> HIDE DEF asked
<1>9. request'[i] = asked /\ \A k \in Requests : k # i => request'[k] = request[k]
  BY <1>2 DEF TypeOK
<1>10. /\ form' \in Forms /\ form'.edit = form.edit /\ form'.editing = form.editing
       /\ form'.saving /\ form'.gate = form.gate /\ form'.read = form.read
       /\ form'.when = form.when
  BY <1>1, <1>3 DEF Forms
<1>11. TypeOK' /\ FormRight(page, form)'
  BY <1>1, <1>2, <1>6, <1>10 DEF TypeOK, FormRight
<1>12. \A k \in Requests : ~Changes(request[k])
  BY <1>1, NotBusy
<1>13. Belongs(request[i])'
  BY <1>1, <1>3, <1>7, <1>8, <1>9, <1>10 DEF Belongs, SavesItsTime, Changes
<1> QED BY <1>1, <1>9, <1>10, <1>11, <1>12, <1>13, OneKeeps

-----------------------------------------------------------------------------
(* Answers *)

(* The server's answer keeps the types. *)
LEMMA DoneIs ==
    ASSUME Inv, NEW i \in Requests, NEW m \in Meetings, Done(i, m)
    PROVE  ServerOK'
<1>1. PICK s \in Becomes(i, m) :
        status' = [status EXCEPT ![m] = s] /\ scheduled_start' = Written(i, m)
  BY DEF Done
<1>2. s \in Statuses
  BY <1>1 DEF Becomes, Statuses
<1>3. request[i].time \in Moments
  BY DEF Inv, TypeOK, Calls
<1>4. Written(i, m) \in [Meetings -> Moments]
  BY <1>3 DEF Written, Inv, TypeOK
<1> QED BY <1>1, <1>2, <1>4 DEF Inv, TypeOK, ServerOK

(* An ended request is quiet, the others are as they were. *)
LEMMA EndIs ==
    ASSUME Inv, NEW i \in Requests, End(i)
    PROVE  /\ request' \in [Requests -> Calls] /\ request'[i] = Idle
           /\ \A k \in Requests : k # i => request'[k] = request[k]
           /\ \A k \in Requests : request'[k] = request[k] \/ Quiet(request'[k])
<1>1. request' = [k \in Requests |-> IF k = i THEN Idle ELSE request[k]]
  BY DEF End, Without
<1>2. Quiet(Idle)
  BY IdleIsQuiet
<1> QED BY <1>1, <1>2 DEF Quiet, Inv, TypeOK

LEMMA ListKeeps ==
    ASSUME Inv, NEW i \in Requests, ListAnswered(i) \/ ListFailed(i)
    PROVE  Inv'
<1> USE DEF Inv
<1>1. End(i) /\ UNCHANGED <<status, scheduled_start, user, page, creating, form>>
  BY DEF ListAnswered, ListFailed
<1>2. view \in Views /\ NoRows \in [Meetings -> Statuses]
      /\ Listed(request[i].tab) \in [Meetings -> Statuses]
  BY DEF TypeOK, NoRows, Listed, Statuses
<1>3. view' \in Views /\ view'.busy = view.busy /\ view'.pendingDelete = view.pendingDelete
  <2>1. CASE ListAnswered(i)
    BY <1>2, <2>1 DEF ListAnswered, Views
  <2>2. CASE ListFailed(i)
    BY <1>2, <2>2 DEF ListFailed, Views
  <2> QED BY <2>1, <2>2
<1>4. TypeOK' /\ FormRight(page, form)'
  BY <1>1, <1>3, EndIs DEF TypeOK, FormRight
<1> QED BY <1>1, <1>3, <1>4, EndIs, StayKeeps

LEMMA ReadKeeps ==
    ASSUME Inv, NEW i \in Requests, ReadAnswered(i) \/ ReadFailed(i)
    PROVE  Inv'
<1> USE DEF Inv
<1> DEFINE m == request[i].of
<1>1. End(i) /\ UNCHANGED <<status, scheduled_start, user, page, creating, view>> /\ request[i].op = "read"
  BY DEF ReadAnswered, ReadFailed
<1>2. m \in Meetings /\ m = form.edit /\ m # NoMeeting
  BY <1>1, StartIsATime DEF Belongs
<1>3. scheduled_start[m] \in Moments /\ splitDateAndTime(scheduled_start[m]) \in Whens
  BY <1>2, StartIsATime, SplitIsATime
<1> HIDE DEF m
<1>4. form \in Forms /\ m \in Optional
  BY <1>2 DEF TypeOK, Optional
<1>5. /\ form' \in Forms /\ form'.saving = form.saving /\ form'.edit = form.edit
      /\ form'.editing \in {form.editing, form.edit}
      /\ FormRight(page, form)'
  <2>1. CASE ReadAnswered(i)
    <3>1. form' = [form EXCEPT !.editing = m, !.gate = "form", !.read = scheduled_start[m],
                               !.when = splitDateAndTime(scheduled_start[m])]
      BY <2>1 DEF ReadAnswered, FormOf, m
    <3>2. /\ form' \in Forms /\ form'.saving = form.saving /\ form'.edit = form.edit
          /\ form'.editing = m /\ form'.read = scheduled_start[m]
          /\ form'.when = splitDateAndTime(scheduled_start[m])
      BY <1>3, <1>4, <3>1 DEF Forms
    <3> QED BY <1>2, <3>2 DEF FormRight
  <2>2. CASE ReadFailed(i)
    <3>1. form' = [form EXCEPT !.gate = "failed"]
      BY <2>2 DEF ReadFailed
    <3>2. /\ form' \in Forms /\ form'.saving = form.saving /\ form'.edit = form.edit
          /\ form'.editing = form.editing /\ form'.gate = "failed"
          /\ form'.read = form.read /\ form'.when = form.when
      BY <1>4, <3>1 DEF Forms
    <3> QED BY <3>2 DEF FormRight
  <2> QED BY <2>1, <2>2
<1>6. TypeOK'
  BY <1>1, <1>5, EndIs DEF TypeOK
<1>7. \A k \in Requests : request'[k] = request[k] \/ Quiet(request'[k])
  BY <1>1, EndIs
<1>8. view'.busy = view.busy /\ view'.pendingDelete \in {NoMeeting, view.pendingDelete}
      /\ page' = page /\ creating' = creating
  BY <1>1
<1> QED BY <1>5, <1>6, <1>7, <1>8, StayKeeps

(* The catch of a handler, and the refresh after a deletion. *)
LEMMA CatchKeeps ==
    ASSUME Inv, NEW i \in Requests,
           Failed(i) \/ RefreshAnswered(i) \/ RefreshFailed(i)
    PROVE  Inv'
<1> USE DEF Inv
<1>1. End(i) /\ UNCHANGED <<user, page>>
      /\ request[i].op \in {"start", "cancel", "create", "save", "refresh"}
  BY DEF Failed, RefreshAnswered, RefreshFailed
<1>2. ServerOK'
  <2>1. CASE UNCHANGED <<status, scheduled_start>>
    BY <2>1, ServerStays
  <2>2. CASE \E m \in Meetings : Done(i, m)
    BY <2>2, DoneIs
  <2> QED BY <2>1, <2>2 DEF Failed, RefreshAnswered, RefreshFailed
<1>3. CASE ~request[i].live
  <2>1. UNCHANGED <<view, form, creating>>
    <3>1. request[i].op # "refresh"
      BY <1>3 DEF Belongs
    <3> QED BY <1>3, <3>1 DEF Failed, RefreshAnswered, RefreshFailed
  <2>2. TypeOK' /\ FormRight(page, form)'
    BY <1>1, <1>2, <2>1, EndIs DEF TypeOK, ServerOK, FormRight
  <2>3. \A k \in Requests : request'[k] = request[k] \/ Quiet(request'[k])
    BY <1>1, EndIs
  <2> QED BY <1>1, <2>1, <2>2, <2>3, StayKeeps
<1>4. CASE request[i].live
  <2>1. view \in Views /\ form \in Forms /\ Listed(request[i].tab) \in [Meetings -> Statuses]
    BY DEF TypeOK, Listed, Statuses
  <2>2. view' \in Views
    <3>1. view' = [view EXCEPT !.busy = FALSE]
          \/ view' = [view EXCEPT !.busy = FALSE, !.rows = Listed(request[i].tab)]
      BY <1>4 DEF Failed, RefreshAnswered, RefreshFailed
    <3> QED BY <2>1, <3>1 DEF Views
  <2>3. form' = form \/ form' = [form EXCEPT !.saving = FALSE]
    BY <1>4 DEF Failed, RefreshAnswered, RefreshFailed
  <2>4. /\ form' \in Forms /\ form'.edit = form.edit /\ form'.editing = form.editing
        /\ form'.gate = form.gate /\ form'.when = form.when
        /\ form'.read = form.read
    BY <2>1, <2>3 DEF Forms
  <2>5. creating' \in BOOLEAN
    <3>1. CASE creating' = FALSE
      BY <3>1
    <3>2. CASE creating' = creating
      BY <3>2 DEF TypeOK
    <3> QED BY <1>4, <3>1, <3>2 DEF Failed, RefreshAnswered, RefreshFailed
  <2>6. TypeOK' /\ FormRight(page, form)'
    BY <1>1, <1>2, <2>2, <2>4, <2>5, EndIs DEF TypeOK, ServerOK, FormRight
  <2>7. \A k \in Requests : k # i => request'[k] = request[k] /\ ~Changes(request[k])
    <3>1. Changes(request[i])
      BY <1>1, <1>4 DEF Changes
    <3> QED BY <1>1, <3>1, EndIs DEF Alone
  <2>8. Belongs(request[i])'
    <3>1. request'[i] = Idle /\ Quiet(Idle)
      BY <1>1, EndIs, IdleIsQuiet
    <3> QED BY <3>1 DEF Quiet, Belongs, SavesItsTime, Changes
  <2> QED BY <1>1, <2>4, <2>6, <2>7, <2>8, OneKeeps
<1> QED BY <1>3, <1>4

LEMMA PushKeeps ==
    ASSUME Inv, NEW i \in Requests,
           \/ Redirect(i)
           \/ \E m \in Meetings : StartAnswered(i, m) \/ SaveAnswered(i, m)
    PROVE  Inv'
<1> USE DEF Inv
<1>1. CASE Redirect(i)
  <2>1. /\ ShowMeetings(request[i].of, Without(Orphaned, i))
        /\ request[i].of \in Optional
        /\ ServerOK' /\ user' \in BOOLEAN
    BY <1>1, ServerStays DEF Redirect, TypeOK, Calls
  <2> QED BY <2>1, OrphanedIs, ShowMeetingsKeeps
<1>2. ASSUME NEW m \in Meetings, SaveAnswered(i, m) PROVE Inv'
  <2>1. /\ ShowMeetings(m, Without(Orphaned, i)) /\ m \in Optional
        /\ user' \in BOOLEAN
    BY <1>2 DEF SaveAnswered, TypeOK, Optional
  <2>2. ServerOK'
    BY <1>2, DoneIs DEF SaveAnswered
  <2> QED BY <2>1, <2>2, OrphanedIs, ShowMeetingsKeeps
<1>3. ASSUME NEW m \in Meetings, StartAnswered(i, m) PROVE Inv'
  <2>1. ShowElsewhere(Without(Orphaned, i)) /\ user' \in BOOLEAN
    BY <1>3 DEF StartAnswered, TypeOK
  <2>2. ServerOK'
    BY <1>3, DoneIs DEF StartAnswered
  <2> QED BY <2>1, <2>2, OrphanedIs, ShowElsewhereKeeps
<1> QED BY <1>1, <1>2, <1>3

LEMMA TabKeeps ==
    ASSUME Inv, NEW i \in Requests, NEW next \in Tabs, changeTab(i, next)
    PROVE  Inv'
<1> USE DEF Inv
<1> DEFINE kept == [k \in Requests |-> IF request[k].op = "list" THEN Idle ELSE request[k]]
<1>1. /\ view' = [view EXCEPT !.tab = next, !.rows = NoRows]
      /\ UNCHANGED <<status, scheduled_start, user, page, creating, form>>
      /\ \/ request' = request
         \/ request' = kept
         \/ request' = With(kept, i, "list", NoMeeting, next)
  BY DEF changeTab
<1>2. view \in Views /\ NoRows \in [Meetings -> Statuses]
  BY DEF TypeOK, NoRows, Statuses
<1>3. view' \in Views /\ view'.busy = view.busy /\ view'.pendingDelete = view.pendingDelete
  BY <1>1, <1>2 DEF Views
<1>4. \A k \in Requests : kept[k] = request[k] \/ Quiet(kept[k])
  BY IdleIsQuiet
<1>5. \A k \in Requests : kept[k] \in Calls
  BY IdleIsQuiet DEF Quiet, TypeOK
<1>6. kept = [k \in Requests |-> kept[k]]
  OBVIOUS
<1> DEFINE asked == With(kept, i, "list", NoMeeting, next)
<1>7. /\ asked = [k \in Requests |-> asked[k]] /\ Quiet(asked[i])
      /\ \A k \in Requests : k # i => asked[k] = kept[k]
  <2>1. 0 \in Moments /\ NotRead \in Moments \union {NotRead} /\ TRUE \in BOOLEAN
        /\ "list" \in Ops /\ NoMeeting \in Optional
    BY DEF Moments, Ops, Optional
  <2> DEFINE new == [op |-> "list", of |-> NoMeeting, tab |-> next, time |-> 0,
                     read |-> NotRead, live |-> TRUE]
  <2>2. new \in Calls
    BY <2>1, Zenon DEF Calls
  <2>3. Quiet(new)
    BY <2>2 DEF Quiet, Changes, SavesItsTime
  <2>4. asked[i] = new
    BY DEF With
  <2> HIDE DEF new
  <2> QED BY <2>3, <2>4 DEF With
<1> HIDE DEF asked, kept
<1>8. \A k \in Requests : asked[k] = request[k] \/ Quiet(asked[k])
  BY <1>4, <1>7
<1>9. \A k \in Requests : asked[k] \in Calls
  BY <1>5, <1>7 DEF Quiet
<1>10. request' = request \/ request' = kept \/ request' = asked
  BY <1>1 DEF asked
<1>11. request' \in [Requests -> Calls]
  <2>1. asked \in [Requests -> Calls]
    BY <1>7, <1>9
  <2>2. kept \in [Requests -> Calls]
    BY <1>5, <1>6
  <2> QED BY <1>10, <2>1, <2>2 DEF TypeOK
<1>12. \A k \in Requests : request'[k] = request[k] \/ Quiet(request'[k])
  BY <1>4, <1>8, <1>10
<1>13. TypeOK' /\ FormRight(page, form)'
  BY <1>1, <1>3, <1>11 DEF TypeOK, FormRight
<1> QED BY <1>1, <1>3, <1>12, <1>13, StayKeeps

LEMMA CancelKeeps ==
    ASSUME Inv, NEW i \in Requests, NEW m \in Meetings, CancelAnswered(i, m)
    PROVE  Inv'
<1> USE DEF Inv
<1>1. UNCHANGED <<user, page, creating, form>> /\ request[i].op = "cancel"
      /\ ServerOK'
  BY DoneIs DEF CancelAnswered
<1>2. request[i] \in Calls
  BY DEF TypeOK
<1>3. /\ request' \in [Requests -> Calls]
      /\ \A k \in Requests : k # i => request'[k] = request[k]
      /\ request'[i] \in {Idle, [request[i] EXCEPT !.op = "refresh"]}
  <2>1. CASE End(i)
    BY <2>1, EndIs
  <2>2. CASE request' = [request EXCEPT ![i].op = "refresh"]
    <3>1. [request[i] EXCEPT !.op = "refresh"] \in Calls
      BY <1>2 DEF Calls, Ops
    <3> QED BY <2>2, <3>1 DEF TypeOK
  <2> QED BY <2>1, <2>2 DEF CancelAnswered
<1>4. view \in Views /\ NoMeeting \in Optional
  BY DEF TypeOK, Optional
<1>5. view' = view \/ view' = [view EXCEPT !.pendingDelete = NoMeeting,
                                           !.selectedId = NoMeeting]
  BY DEF CancelAnswered
<1>6. view' \in Views /\ (view'.busy <=> view.busy) /\ view'.busy = view.busy
      /\ view'.pendingDelete \in {NoMeeting, view.pendingDelete}
  BY <1>4, <1>5 DEF Views
<1>7. TypeOK' /\ FormRight(page, form)'
  BY <1>1, <1>3, <1>6 DEF TypeOK, ServerOK, FormRight
<1>8. Quiet(Idle)
  BY IdleIsQuiet
<1> DEFINE again == [request[i] EXCEPT !.op = "refresh"]
<1>9. again \in Calls /\ again.op = "refresh" /\ again.live = request[i].live
  BY <1>2 DEF Calls, Ops
<1> HIDE DEF again
<1>10. request'[i] = Idle \/ request'[i] = again
  BY <1>3 DEF again
<1>11. CASE request[i].live
  <2>1. Changes(request[i])
    BY <1>1, <1>11 DEF Changes
  <2>2. \A k \in Requests : k # i => request'[k] = request[k] /\ ~Changes(request[k])
    BY <1>3, <2>1 DEF Alone
  <2>3. page = "meetings" /\ view.busy
    BY <1>1, <2>1 DEF Belongs
  <2>4. Belongs(request[i])'
    <3>1. CASE request'[i] = Idle
      BY <1>8, <3>1 DEF Quiet, Belongs, SavesItsTime, Changes
    <3>2. CASE request'[i] = again
      BY <1>1, <1>6, <1>9, <1>11, <2>3, <3>2 DEF Belongs, SavesItsTime, Changes
    <3> QED BY <1>10, <3>1, <3>2
  <2> QED BY <1>1, <1>7, <2>2, <2>4, OneKeeps
<1>12. CASE ~request[i].live
  <2>1. End(i)
    BY <1>12 DEF CancelAnswered
  <2>2. \A k \in Requests : request'[k] = request[k] \/ Quiet(request'[k])
    BY <2>1, EndIs
  <2> QED BY <1>1, <1>6, <1>7, <2>2, StayKeeps
<1> QED BY <1>11, <1>12

LEMMA ShorterKeeps ==
    ASSUME Inv, NEW i \in Requests, NEW m \in Meetings, SavedShorter(i, m)
    PROVE  Inv'
<1> USE DEF Inv
<1> DEFINE told == [Idle EXCEPT !.op = "redirect", !.of = m]
<1>1. /\ UNCHANGED <<user, page, creating, view>> /\ request[i].op = "save"
      /\ ServerOK'
      /\ request' = [request EXCEPT ![i] = told]
  BY DoneIs DEF SavedShorter
<1>2. Idle \in Calls /\ m \in Optional
  BY IdleIsQuiet DEF Quiet, Optional
<1>3. told \in Calls /\ told.op = "redirect"
  BY <1>2 DEF Calls, Ops
<1>4. Quiet(told)
  BY <1>3 DEF Quiet, Changes, SavesItsTime
<1> HIDE DEF told
<1>5. /\ request' \in [Requests -> Calls] /\ request'[i] = told
      /\ \A k \in Requests : k # i => request'[k] = request[k]
  BY <1>1, <1>3 DEF TypeOK
<1>6. CASE request[i].live
  <2>1. form' = [form EXCEPT !.saving = FALSE] /\ form \in Forms
    BY <1>6 DEF SavedShorter, TypeOK
  <2>2. /\ form' \in Forms /\ form'.edit = form.edit /\ form'.editing = form.editing
        /\ form'.gate = form.gate /\ form'.when = form.when
        /\ form'.read = form.read
    BY <2>1 DEF Forms
  <2>3. TypeOK' /\ FormRight(page, form)'
    BY <1>1, <1>5, <2>2 DEF TypeOK, ServerOK, FormRight
  <2>4. Changes(request[i])
    BY <1>1, <1>6 DEF Changes
  <2>5. \A k \in Requests : k # i => request'[k] = request[k] /\ ~Changes(request[k])
    BY <1>5, <2>4 DEF Alone
  <2>6. Belongs(request[i])'
    BY <1>4, <1>5 DEF Quiet, Belongs, SavesItsTime, Changes
  <2> QED BY <1>1, <2>2, <2>3, <2>5, <2>6, OneKeeps
<1>7. CASE ~request[i].live
  <2>1. form' = form
    BY <1>7 DEF SavedShorter
  <2>2. TypeOK' /\ FormRight(page, form)'
    BY <1>1, <1>5, <2>1 DEF TypeOK, ServerOK, FormRight
  <2>3. \A k \in Requests : request'[k] = request[k] \/ Quiet(request'[k])
    BY <1>4, <1>5
  <2> QED BY <1>1, <2>1, <2>2, <2>3, StayKeeps
<1> QED BY <1>6, <1>7

-----------------------------------------------------------------------------
(* The theorems *)

LEMMA InitEstablishes == Init => Inv
<1> SUFFICES ASSUME Init PROVE Inv
  OBVIOUS
<1>1. \A i \in Requests : request[i] = Idle /\ Quiet(Idle)
  BY IdleIsQuiet DEF Init
<1>2. request \in [Requests -> Calls]
  BY <1>1 DEF Init, Quiet
<1>3. status \in [Meetings -> Statuses] /\ scheduled_start \in [Meetings -> Moments]
  BY HostPagesAssumption DEF HostPagesAssumption, Init, Statuses, Moments
<1>4. TypeOK
  BY <1>2, <1>3, NoFormIs, NoViewIs DEF Init, TypeOK
<1>5. FormRight(page, form)
  BY NoFormIs DEF Init, FormRight
<1>6. Alone /\ \A i \in Requests : Belongs(request[i])
  BY <1>1 DEF Alone, Belongs, Quiet
<1> QED BY <1>4, <1>5, <1>6 DEF Inv

LEMMA NextKeeps == Inv /\ [Next]_vars => Inv'
<1> SUFFICES ASSUME Inv, [Next]_vars PROVE Inv'
  OBVIOUS
<1>1. CASE UNCHANGED vars
  BY <1>1 DEF vars, Inv, TypeOK, Alone, FormRight, Belongs, SavesItsTime, Changes
<1>2. CASE GoAway \/ GoHome \/ GoMeetings \/ handleStartPersonalRoom
  BY <1>2, GoKeeps
<1>3. CASE SignInOrOut \/ CloseConfirmation
  BY <1>3, PageStepKeeps
<1>4. ASSUME \/ \E t \in Clock : Schedule(t)
             \/ \E option \in Options : SetWhen(option)
      PROVE  Inv'
  BY <1>4, ScheduleKeeps, PageStepKeeps
<1>5. ASSUME NEW m \in Meetings,
             handleSelect(m) \/ handleEdit(m) \/ AskDelete(m) \/ EndsElsewhere(m)
      PROVE  Inv'
  BY <1>5, EditKeeps, PageStepKeeps
<1>6. ASSUME NEW i \in Requests,
             \/ NewMeeting(i) \/ handleConfirmDelete(i) \/ handleSubmit(i)
             \/ ListAnswered(i) \/ ListFailed(i) \/ ReadAnswered(i) \/ ReadFailed(i)
             \/ RefreshAnswered(i) \/ RefreshFailed(i) \/ Redirect(i) \/ Failed(i)
      PROVE  Inv'
  BY <1>6, BeginKeeps, SubmitKeeps, ListKeeps, ReadKeeps, CatchKeeps, PushKeeps
<1>7. ASSUME NEW i \in Requests, NEW next \in Tabs, changeTab(i, next) PROVE Inv'
  BY <1>7, TabKeeps
<1>8. ASSUME NEW i \in Requests, NEW m \in Meetings,
             \/ handleStart(i, m) \/ StartAnswered(i, m) \/ CancelAnswered(i, m)
             \/ SaveAnswered(i, m) \/ SavedShorter(i, m)
      PROVE  Inv'
  BY <1>8, BeginKeeps, PushKeeps, CancelKeeps, ShorterKeeps
<1> QED BY <1>1, <1>2, <1>3, <1>4, <1>5, <1>6, <1>7, <1>8 DEF Next

(* The invariant that the others follow from holds in every run of the pages. *)
THEOREM InvHolds == Spec => []Inv
<1> QED BY InitEstablishes, NextKeeps, PTL DEF Spec

(* The pages and the requests keep their types, whatever answers come when     *)
(* (the state of MeetingsView, ScheduleForm and ActionTiles).                    *)
THEOREM TypesHold == Spec => []TypeOK
<1>1. Inv => TypeOK
  BY DEF Inv
<1> QED BY <1>1, InvHolds, PTL

(* A page has one request under way that changes something, and a deletion     *)
(* under way is that of the confirmation on screen or of none.                   *)
THEOREM OneRequestHolds == Spec => []OneRequest
<1>1. Inv => OneRequest
  <2> SUFFICES ASSUME Inv PROVE OneRequest
    OBVIOUS
  <2>1. \A i, j \in Requests : Mutates(i) /\ Mutates(j) => i = j
    BY DEF Inv, Alone, Changes, Mutates
  <2>2. ASSUME NEW i \in Requests, request[i].live, request[i].op = "cancel"
        PROVE  view.pendingDelete \in {NoMeeting, request[i].of}
    BY <2>2 DEF Inv, Belongs, Changes
  <2> QED BY <2>1, <2>2 DEF OneRequest
<1> QED BY <1>1, InvHolds, PTL

(* A form saves to the meeting it was opened for, and an untouched one saves   *)
(* the time it read, whatever times meetings have and are given.                  *)
THEOREM FormIsTheMeetingsHolds == Spec => []FormIsTheMeetings
<1>1. Inv => FormIsTheMeetings
  <2> SUFFICES ASSUME Inv PROVE FormIsTheMeetings
    OBVIOUS
  <2>1. FormShown => form.editing = form.edit
    BY DEF Inv, FormRight, FormShown
  <2>2. ASSUME NEW i \in Requests, request[i].op = "save"
        PROVE  /\ request[i].live => request[i].of = form.edit
               /\ request[i].read # NotRead => request[i].time = request[i].read
    BY <2>2 DEF Inv, Belongs, SavesItsTime, Changes
  <2> QED BY <2>1, <2>2 DEF FormIsTheMeetings
<1> QED BY <1>1, InvHolds, PTL

-----------------------------------------------------------------------------
(* The lists of the server: filters, the order of a list, pages *)

Kinds == {"upcoming", "recent", "day", "all"}

LEMMA FilterIs == Filters \subseteq Kinds \X Nat
BY HostMeetingsAssumption DEF HostMeetingsAssumption, Kinds

(* The order of a list is strict and total. *)
LEMMA BeforeIsStrict ==
    ASSUME NEW f, NEW k \in Nat, NEW m \in Nat
    PROVE  ~Before(f, k, m, k, m)
BY DEF Before

LEMMA BeforeIsTransitive ==
    ASSUME NEW f, NEW k \in Nat, NEW m \in Nat, NEW l \in Nat, NEW n \in Nat,
           NEW j \in Nat, NEW p \in Nat,
           Before(f, k, m, l, n), Before(f, l, n, j, p)
    PROVE  Before(f, k, m, j, p)
BY DEF Before

LEMMA BeforeIsTotal ==
    ASSUME NEW f, NEW k \in Nat, NEW m \in Nat, NEW l \in Nat, NEW n \in Nat, m # n
    PROVE  Before(f, k, m, l, n) \/ Before(f, l, n, k, m)
BY DEF Before

(* A row has the key of a list, NULL or a time. *)
LEMMA KeyIsTime ==
    ASSUME NEW r \in Rows, NEW f \in Kinds \X Nat
    PROVE  Key(r, f) \in Nat
<1>1. f[1] \in Kinds
  OBVIOUS
<1>2. r.scheduled_start \in Nat /\ r.ended_at \in Nat /\ r.created_at \in Nat
  BY HostMeetingsAssumption DEF HostMeetingsAssumption, Rows, Times
<1> QED BY <1>1, <1>2 DEF Key, Kinds

(* The rows m and n of the table stand in this order in the list f. *)
Leads(f, m, n) == Before(f, Key(row[m], f), m, Key(row[n], f), n)

(* The rows of a query are those it selects, each once. *)
LEMMA SortedIs ==
    ASSUME NEW f, NEW S, IsFiniteSet(S), NEW rows \in Sorted(f, S)
    PROVE  /\ rows \in Seq(S) /\ Len(rows) = Cardinality(S) /\ Len(rows) \in Nat
           /\ DOMAIN rows = 1..Len(rows)
           /\ \A m \in S : \E a \in 1..Len(rows) : rows[a] = m
<1> DEFINE n == Cardinality(S)
<1>1. n \in Nat
  BY FS_CardinalityType
<1>2. /\ rows \in [1..n -> S]
      /\ \A i, j \in 1..n : i # j => rows[i] # rows[j]
  BY DEF Sorted, SetToSeqs
<1>3. rows \in Seq(S) /\ Len(rows) = n
  BY <1>1, <1>2
<1>4. rows \in Injection(1..n, S)
  BY <1>2 DEF Injection, IsInjective
<1>5. Cardinality(1..n) = n
  BY <1>1, FS_Interval
<1>6. rows \in Surjection(1..n, S)
  BY <1>4, <1>5, FS_Injection
<1>7. \A m \in S : \E a \in 1..n : rows[a] = m
  BY <1>6 DEF Surjection
<1> QED BY <1>1, <1>3, <1>7

-----------------------------------------------------------------------------
(* A page is the first rows of its query, and it is full if there are more. *)
LEMMA PageIs ==
    ASSUME NEW f, NEW S, IsFiniteSet(S), NEW rows \in Sorted(f, S),
           NEW items, items = Trimmed(rows)
    PROVE  /\ items \in Seq(S) /\ Len(items) \in Nat /\ Len(items) <= Limit
           /\ DOMAIN items = 1..Len(items)
           /\ \A a, b \in DOMAIN items : a < b => Leads(f, items[a], items[b])
           /\ Len(rows) > Limit =>
                 /\ Len(items) = Limit /\ Last(items) \in S
                 /\ \A a \in DOMAIN items : \/ items[a] = Last(items)
                                            \/ Leads(f, items[a], Last(items))
                 /\ \A m \in S : m \in ToSet(items) \/ Leads(f, Last(items), m)
           /\ ~(Len(rows) > Limit) => S \subseteq ToSet(items)
<1> DEFINE n == IF Len(rows) > Limit THEN Limit ELSE Len(rows)
<1>1. Limit \in Nat \ {0}
  BY HostMeetingsAssumption DEF HostMeetingsAssumption
<1>2. /\ rows \in Seq(S) /\ Len(rows) \in Nat /\ DOMAIN rows = 1..Len(rows)
      /\ \A m \in S : \E a \in 1..Len(rows) : rows[a] = m
  BY SortedIs
<1>3. \A a, b \in 1..Len(rows) : a < b => Leads(f, rows[a], rows[b])
  BY <1>2 DEF Sorted, Leads
<1>4. n \in Nat /\ n <= Len(rows) /\ n <= Limit
  BY <1>1, <1>2
<1>5. items = SubSeq(rows, 1, n)
  BY DEF Trimmed
<1> HIDE DEF n
<1>6. /\ items \in Seq(S) /\ Len(items) = n /\ DOMAIN items = 1..n
      /\ \A a \in 1..n : items[a] = rows[a]
  BY <1>2, <1>4, <1>5
<1>7. \A a, b \in DOMAIN items : a < b => Leads(f, items[a], items[b])
  BY <1>2, <1>3, <1>4, <1>6
<1>8. ASSUME NEW m \in S PROVE m \in ToSet(items) \/ \E a \in 1..Len(rows) : a > n /\ rows[a] = m
  BY <1>2, <1>4, <1>6 DEF ToSet
<1>9. ASSUME Len(rows) > Limit
      PROVE  /\ Len(items) = Limit /\ Last(items) \in S
             /\ \A a \in DOMAIN items : \/ items[a] = Last(items)
                                        \/ Leads(f, items[a], Last(items))
             /\ \A m \in S : m \in ToSet(items) \/ Leads(f, Last(items), m)
  <2>1. n = Limit /\ n \in 1..Len(rows) /\ Last(items) = rows[n] /\ Last(items) = items[n]
    BY <1>1, <1>2, <1>6, <1>9 DEF n, Last
  <2>2. \A a \in DOMAIN items : items[a] = Last(items) \/ Leads(f, items[a], Last(items))
    BY <1>6, <1>7, <2>1
  <2>3. \A m \in S : m \in ToSet(items) \/ Leads(f, Last(items), m)
    BY <1>3, <1>8, <2>1
  <2> QED BY <1>2, <1>6, <2>1, <2>2, <2>3
<1>10. ASSUME ~(Len(rows) > Limit) PROVE S \subseteq ToSet(items)
  BY <1>2, <1>8, <1>10 DEF n
<1> QED BY <1>4, <1>6, <1>7, <1>9, <1>10

-----------------------------------------------------------------------------
(* The inductive invariant *)

Walks == [state : {"none", "going", "over"}, filter : Kinds \X Nat,
          cursor : Ids \union {NoCursor}, seen : Seq(Ids), pages : Nat,
          moved : SUBSET Ids, disturbed : BOOLEAN]

(* A meeting that has ended has its time of ending. *)
Table ==
    /\ now \in Times
    /\ row \in [DOMAIN row -> Rows] /\ DOMAIN row \subseteq Ids
    /\ \A m \in DOMAIN row : row[m].status = "ended" => row[m].ended_at # NULL

Pages(w) ==
    /\ w \in Walks
    /\ w.state = "going" <=> w.cursor # NoCursor
    /\ w.cursor # NoCursor => w.cursor \in DOMAIN row
    /\ w.seen \in Seq(DOMAIN row)
    /\ Len(w.seen) <= Limit * w.pages

InList(f, m) == m \in DOMAIN row /\ Matches(row[m], f, now)

(* The cursor of the walk w is before the row m. *)
Left(w, m) == w.state = "going" => Leads(w.filter, w.cursor, m)

(* Every row that was in the list all the time has been shown or is still to *)
(* come, after the cursor.                                                    *)
Complete(w) ==
    \A m \in DOMAIN row :
        InList(w.filter, m) /\ m \notin w.moved
            => m \in ToSet(w.seen) \/ (w.state # "over" /\ Left(w, m))

(* Those shown are in order, up to the cursor. *)
Ordered(w) ==
    /\ \A a \in DOMAIN w.seen :
          w.seen[a] \notin w.moved =>
              /\ InList(w.filter, w.seen[a])
              /\ w.state = "going" => \/ w.seen[a] = w.cursor
                                      \/ Leads(w.filter, w.seen[a], w.cursor)
    /\ \A a, b \in DOMAIN w.seen :
          a < b /\ w.seen[a] \notin w.moved /\ w.seen[b] \notin w.moved
              => Leads(w.filter, w.seen[a], w.seen[b])

(* So it is as long as the cursor keeps its place. *)
Undisturbed(w) ==
    /\ w.state = "going" => Key(row[w.cursor], w.filter) # NULL
    /\ Complete(w) /\ Ordered(w)

WalkInv == Table /\ Pages(walk) /\ (~walk.disturbed => Undisturbed(walk))

-----------------------------------------------------------------------------
(* Lists and places *)

(* What the WHERE clause lets through has a key: so no row of the list is      *)
(* withheld because its key is NULL, which compares with nothing.               *)
LEMMA ListedHasKey ==
    ASSUME NEW r \in Rows, r.status = "ended" => r.ended_at # NULL,
           NEW f \in Kinds \X Nat, NEW t, Matches(r, f, t)
    PROVE  Key(r, f) # NULL
<1>1. f[1] \in Kinds
  OBVIOUS
<1>2. r.created_at # NULL
  BY HostMeetingsAssumption DEF HostMeetingsAssumption, Rows, Times, NULL
<1>3. CASE f[1] = "upcoming"
  BY <1>3 DEF Matches, Key
<1>4. CASE f[1] = "day"
  BY <1>4 DEF Matches, Key
<1>5. CASE f[1] = "recent"
  BY <1>5 DEF Matches, Key
<1>6. CASE f[1] = "all"
  BY <1>2, <1>6 DEF Key
<1> QED BY <1>1, <1>3, <1>4, <1>5, <1>6 DEF Kinds

LEMMA InListHasKey ==
    ASSUME Table, NEW f \in Kinds \X Nat, NEW m, InList(f, m)
    PROVE  m \in DOMAIN row /\ m \in Nat \ {0} /\ Key(row[m], f) \in Nat \ {NULL}
<1>1. m \in DOMAIN row /\ row[m] \in Rows /\ Matches(row[m], f, now)
      /\ (row[m].status = "ended" => row[m].ended_at # NULL)
  BY DEF Table, InList
<1>2. m \in Nat \ {0}
  BY <1>1, HostMeetingsAssumption DEF HostMeetingsAssumption, Table
<1>3. Key(row[m], f) \in Nat /\ Key(row[m], f) # NULL
  BY <1>1, KeyIsTime, ListedHasKey
<1> QED BY <1>1, <1>2, <1>3

(* A place says whether a row is in the list, and with which key. *)
LEMMA PlaceIs ==
    ASSUME walk.filter \in Kinds \X Nat, NEW table, NEW t, NEW m,
           m \in DOMAIN table => /\ table[m] \in Rows
                                 /\ table[m].status = "ended" => table[m].ended_at # NULL
    PROVE  /\ Place(table, t, m) # NULL
                 <=> m \in DOMAIN table /\ Matches(table[m], walk.filter, t)
           /\ m \in DOMAIN table /\ Matches(table[m], walk.filter, t)
                 => Place(table, t, m) = Key(table[m], walk.filter)
<1> DEFINE in == m \in DOMAIN table /\ Matches(table[m], walk.filter, t)
<1>1. in => Place(table, t, m) = Key(table[m], walk.filter)
  BY DEF Place
<1>2. in => Key(table[m], walk.filter) # NULL
  BY ListedHasKey
<1>3. ~in => Place(table, t, m) = NULL
  BY DEF Place
<1> QED BY <1>1, <1>2, <1>3

(* A query selects the rows of the list after its cursor, while that has a key. *)
LEMMA SelectedIs ==
    ASSUME Table, NEW f \in Kinds \X Nat, NEW c \in {NoCursor} \union DOMAIN row
    PROVE  /\ IsFiniteSet(Selected(f, c)) /\ Selected(f, c) \subseteq DOMAIN row
           /\ \A m \in Selected(f, c) : InList(f, m) /\ (c # NoCursor => Leads(f, c, m))
           /\ \A m \in DOMAIN row :
                 /\ InList(f, m)
                 /\ c # NoCursor => Key(row[c], f) # NULL /\ Leads(f, c, m)
                 => m \in Selected(f, c)
<1>1. Selected(f, c) \subseteq DOMAIN row
  BY DEF Selected
<1>2. IsFiniteSet(Selected(f, c))
  <2>1. Selected(f, c) \in SUBSET Ids /\ IsFiniteSet(Ids)
    BY <1>1, HostMeetingsAssumption DEF HostMeetingsAssumption, Table
  <2> QED BY <2>1, FS_Subset
<1>3. ASSUME NEW m \in Selected(f, c)
      PROVE  InList(f, m) /\ (c # NoCursor => Leads(f, c, m))
  BY DEF Selected, InList, Leads, Past
<1>4. ASSUME NEW m \in DOMAIN row, InList(f, m),
             c # NoCursor => Key(row[c], f) # NULL /\ Leads(f, c, m)
      PROVE  m \in Selected(f, c)
  <2>1. Key(row[m], f) # NULL
    BY <1>4, InListHasKey
  <2> QED BY <1>4, <2>1 DEF Selected, InList, Leads, Past
<1> QED BY <1>1, <1>2, <1>3, <1>4

-----------------------------------------------------------------------------
(* A request has one answer *)

(* The order of a list is strict and total on the rows of the table. *)
LEMMA LeadsIsAnOrder ==
    ASSUME Table, NEW f \in Kinds \X Nat
    PROVE  /\ \A m \in DOMAIN row : ~Leads(f, m, m)
           /\ \A m, l \in DOMAIN row : m = l \/ Leads(f, m, l) \/ Leads(f, l, m)
           /\ \A m, l, n \in DOMAIN row : Leads(f, m, l) /\ Leads(f, l, n) => Leads(f, m, n)
<1>1. \A m \in DOMAIN row : m \in Nat /\ Key(row[m], f) \in Nat
  BY KeyIsTime, HostMeetingsAssumption DEF HostMeetingsAssumption, Table
<1>2. \A m \in DOMAIN row : ~Leads(f, m, m)
  BY <1>1, BeforeIsStrict DEF Leads
<1>3. ASSUME NEW m \in DOMAIN row, NEW l \in DOMAIN row
      PROVE  m = l \/ Leads(f, m, l) \/ Leads(f, l, m)
  BY <1>1, BeforeIsTotal DEF Leads
<1>4. ASSUME NEW m \in DOMAIN row, NEW l \in DOMAIN row, NEW n \in DOMAIN row,
             Leads(f, m, l), Leads(f, l, n)
      PROVE  Leads(f, m, n)
  BY <1>1, <1>4, BeforeIsTransitive DEF Leads
<1> QED BY <1>2, <1>3, <1>4

(* A set of natural numbers has a least one. *)
LEMMA LeastNumber ==
    ASSUME NEW T \in SUBSET Nat, T # {}
    PROVE  \E n \in T : \A m \in T : n <= m
<1>1. PICK n \in T : \A m \in T : <<m, n>> \notin OpToRel(<, Nat)
  BY WFMin, NatLessThanWellFounded, Zenon
<1>2. \A m \in T : ~(m < n)
  BY <1>1, Zenon DEF OpToRel
<1> QED BY <1>2

(* Two answers differ nowhere: at the first place where they do, each would    *)
(* have before the other's row what the other has after it.                     *)
LEMMA SortedIsOne ==
    ASSUME Table, NEW f \in Kinds \X Nat, NEW S, S \subseteq DOMAIN row, IsFiniteSet(S),
           NEW r \in Sorted(f, S), NEW s \in Sorted(f, S)
    PROVE  r = s
<1> DEFINE n == Cardinality(S)
           T == {i \in 1..n : r[i] # s[i]}
<1>1. /\ n \in Nat /\ r \in [1..n -> S] /\ s \in [1..n -> S]
      /\ \A m \in S : (\E a \in 1..n : r[a] = m) /\ (\E a \in 1..n : s[a] = m)
  <2>1. r \in [1..n -> S] /\ s \in [1..n -> S]
    BY DEF Sorted, SetToSeqs
  <2>2. n \in Nat
    BY FS_CardinalityType
  <2>3. ASSUME NEW rows \in Sorted(f, S)
        PROVE  \A m \in S : \E a \in 1..n : rows[a] = m
    <3>1. Len(rows) = n /\ \A m \in S : \E a \in 1..Len(rows) : rows[a] = m
      BY SortedIs
    <3> QED BY <3>1
  <2> QED BY <2>1, <2>2, <2>3
<1>2. \A a, b \in 1..n : a < b => Leads(f, r[a], r[b]) /\ Leads(f, s[a], s[b])
  BY <1>1 DEF Sorted, Leads
<1>3. \A a \in 1..n : r[a] \in DOMAIN row /\ s[a] \in DOMAIN row
  BY <1>1
<1> HIDE DEF n
<1>4. ASSUME T # {} PROVE FALSE
  <2>1. PICK i \in T : \A j \in T : i <= j
    <3>1. T \in SUBSET Nat
      BY <1>1
    <3> HIDE DEF T
    <3> QED BY <1>4, <3>1, LeastNumber
  <2>2. i \in 1..n /\ r[i] # s[i] /\ \A j \in 1..n : j < i => r[j] = s[j]
    <3>1. \A j \in 1..n : j \notin T => r[j] = s[j]
      OBVIOUS
    <3>2. \A j \in 1..n : j < i => j \notin T
      BY <1>1, <2>1
    <3> QED BY <2>1, <3>1, <3>2
  <2>3. PICK j \in 1..n : s[j] = r[i]
    BY <1>1, <2>2
  <2>4. PICK k \in 1..n : r[k] = s[i]
    BY <1>1, <2>2
  <2> HIDE DEF T
  <2>5. i < j
    <3>1. i # j
      BY <2>2, <2>3
    <3>2. ~(j < i)
      BY <1>2, <1>3, <2>2, <2>3, LeadsIsAnOrder
    <3> QED BY <1>1, <2>2, <3>1, <3>2
  <2>6. i < k
    <3>1. i # k
      BY <2>2, <2>4
    <3>2. ~(k < i)
      BY <1>2, <1>3, <2>2, <2>4, LeadsIsAnOrder
    <3> QED BY <1>1, <2>2, <3>1, <3>2
  <2>7. Leads(f, r[i], s[i]) /\ Leads(f, s[i], r[i])
    BY <1>2, <2>2, <2>3, <2>4, <2>5, <2>6
  <2> QED BY <1>3, <2>2, <2>7, LeadsIsAnOrder
<1>5. \A a \in 1..n : r[a] = s[a]
  BY <1>4
<1> QED BY <1>1, <1>5

(* Of so many rows one is the last of the list. *)
HaveLast(f, n) ==
    \A S \in SUBSET DOMAIN row :
        IsFiniteSet(S) /\ Cardinality(S) = n + 1
            => \E m \in S : \A l \in S : l = m \/ Leads(f, l, m)

LEMMA LastOfMore ==
    ASSUME Table, NEW f \in Kinds \X Nat, NEW n \in Nat, HaveLast(f, n)
    PROVE  HaveLast(f, n + 1)
<1> SUFFICES ASSUME NEW S \in SUBSET DOMAIN row, IsFiniteSet(S), Cardinality(S) = n + 2
             PROVE  \E m \in S : \A l \in S : l = m \/ Leads(f, l, m)
  BY DEF HaveLast
<1>1. S # {}
  BY FS_EmptySet
<1>2. PICK k \in S : TRUE
  BY <1>1
<1>3. IsFiniteSet(S \ {k}) /\ Cardinality(S \ {k}) = n + 1
  BY <1>2, FS_RemoveElement
<1>4. PICK m \in S \ {k} : \A l \in S \ {k} : l = m \/ Leads(f, l, m)
  BY <1>3 DEF HaveLast
<1>5. CASE Leads(f, k, m)
  BY <1>4, <1>5
<1>6. CASE Leads(f, m, k)
  BY <1>2, <1>4, <1>6, LeadsIsAnOrder
<1> QED BY <1>2, <1>4, <1>5, <1>6, LeadsIsAnOrder

LEMMA AllHaveLast == ASSUME Table, NEW f \in Kinds \X Nat PROVE \A n \in Nat : HaveLast(f, n)
<1> DEFINE T == {n \in Nat : ~HaveLast(f, n)}
<1>1. HaveLast(f, 0)
  <2> SUFFICES ASSUME NEW S \in SUBSET DOMAIN row, IsFiniteSet(S), Cardinality(S) = 1
               PROVE  \E m \in S : \A l \in S : l = m \/ Leads(f, l, m)
    BY DEF HaveLast
  <2>1. \E m : S = {m}
    BY FS_Singleton
  <2> QED BY <2>1
<1>2. ASSUME T # {} PROVE FALSE
  <2>1. PICK n \in T : \A m \in T : n <= m
    <3>1. T \in SUBSET Nat
      OBVIOUS
    <3> HIDE DEF T
    <3> QED BY <1>2, <3>1, LeastNumber
  <2>2. n \in Nat /\ ~HaveLast(f, n) /\ n # 0
    BY <1>1, <2>1
  <2>3. n - 1 \in Nat /\ HaveLast(f, n - 1)
    BY <2>1, <2>2
  <2>4. HaveLast(f, (n - 1) + 1)
    BY <2>3, LastOfMore
  <2> QED BY <2>2, <2>4
<1> QED BY <1>2

(* So many rows can be put in the order of the list. *)
Sortable(f, n) ==
    \A S \in SUBSET DOMAIN row :
        IsFiniteSet(S) /\ Cardinality(S) = n => Sorted(f, S) # {}

LEMMA OneMoreIsSortable ==
    ASSUME Table, NEW f \in Kinds \X Nat, NEW n \in Nat, Sortable(f, n)
    PROVE  Sortable(f, n + 1)
<1> SUFFICES ASSUME NEW S \in SUBSET DOMAIN row, IsFiniteSet(S), Cardinality(S) = n + 1
             PROVE  Sorted(f, S) # {}
  BY DEF Sortable
<1>1. PICK m \in S : \A l \in S : l = m \/ Leads(f, l, m)
  BY AllHaveLast DEF HaveLast
<1>2. IsFiniteSet(S \ {m}) /\ Cardinality(S \ {m}) = n
  <2>1. IsFiniteSet(S \ {m}) /\ Cardinality(S \ {m}) = Cardinality(S) - 1
    BY FS_RemoveElement, Zenon
  <2> QED BY <2>1
<1>3. PICK r : r \in Sorted(f, S \ {m})
  BY <1>2 DEF Sortable
<1>4. /\ r \in [1..n -> S \ {m}]
      /\ \A i, j \in 1..n : i # j => r[i] # r[j]
      /\ \A a, b \in 1..n : a < b => Leads(f, r[a], r[b])
  <2>1. r \in [1..n -> S \ {m}] /\ \A i, j \in 1..n : i # j => r[i] # r[j]
    BY <1>2, <1>3 DEF Sorted, SetToSeqs
  <2> QED BY <1>3, <2>1 DEF Sorted, Leads
<1> DEFINE s == [a \in 1..(n + 1) |-> IF a = n + 1 THEN m ELSE r[a]]
<1>5. \A a \in 1..(n + 1) : a = n + 1 \/ (a \in 1..n /\ a # n + 1)
  OBVIOUS
<1>6. /\ s \in [1..(n + 1) -> S] /\ s[n + 1] = m
      /\ \A a \in 1..n : s[a] = r[a] /\ s[a] \in S /\ s[a] # m
  <2>1. \A a \in 1..n : r[a] \in S /\ r[a] # m
    BY <1>4
  <2>2. \A a \in 1..n : a \in 1..(n + 1) /\ a # n + 1
    OBVIOUS
  <2> QED BY <1>5, <2>1, <2>2
<1> HIDE DEF s
<1>7. \A i, j \in 1..(n + 1) : i # j => s[i] # s[j]
  BY <1>4, <1>5, <1>6
<1>8. ASSUME NEW a \in 1..(n + 1), NEW b \in 1..(n + 1), a < b PROVE Leads(f, s[a], s[b])
  <2>1. a \in 1..n
    BY <1>5, <1>8
  <2>2. CASE b = n + 1
    BY <1>1, <1>6, <2>1, <2>2
  <2>3. CASE b \in 1..n
    BY <1>4, <1>6, <1>8, <2>1, <2>3
  <2> QED BY <1>5, <2>2, <2>3
<1>9. s \in SetToSeqs(S)
  BY <1>6, <1>7 DEF SetToSeqs
<1>10. s \in Sorted(f, S)
  <2>1. DOMAIN s = 1..(n + 1)
    BY <1>6
  <2> QED BY <1>8, <1>9, <2>1 DEF Sorted, Leads
<1> QED BY <1>10

LEMMA AllSortable == ASSUME Table, NEW f \in Kinds \X Nat PROVE \A n \in Nat : Sortable(f, n)
<1> DEFINE T == {n \in Nat : ~Sortable(f, n)}
<1>1. Sortable(f, 0)
  <2> SUFFICES ASSUME NEW S \in SUBSET DOMAIN row, IsFiniteSet(S), Cardinality(S) = 0
               PROVE  Sorted(f, S) # {}
    BY DEF Sortable
  <2> DEFINE s == [a \in 1..0 |-> 0]
  <2>1. 1..0 = {} /\ DOMAIN s = {}
    OBVIOUS
  <2>2. s \in [1..Cardinality(S) -> S]
    BY <2>1
  <2>3. s \in SetToSeqs(S)
    BY <2>1, <2>2 DEF SetToSeqs
  <2> QED BY <2>1, <2>3 DEF Sorted
<1>2. ASSUME T # {} PROVE FALSE
  <2>1. PICK n \in T : \A m \in T : n <= m
    <3>1. T \in SUBSET Nat
      OBVIOUS
    <3> HIDE DEF T
    <3> QED BY <1>2, <3>1, LeastNumber
  <2>2. n \in Nat /\ ~Sortable(f, n) /\ n # 0
    BY <1>1, <2>1
  <2>3. n - 1 \in Nat /\ Sortable(f, n - 1)
    BY <2>1, <2>2
  <2>4. Sortable(f, (n - 1) + 1)
    BY <2>3, OneMoreIsSortable
  <2> QED BY <2>2, <2>4
<1> QED BY <1>2

(* In every state that a request can find, its ORDER BY leaves one way to list *)
(* the rows it selects: the id makes the order total (_apply_cursor), so that    *)
(* what stands before the cursor does not depend on the database.  A request     *)
(* whose cursor has lost its key has no answer, and is not spoken of.             *)
THEOREM ListIsDetermined ==
    ASSUME WalkInv, NEW f \in Filters, NEW c \in {NoCursor} \union DOMAIN row,
           c # NoCursor => Key(row[c], f) # NULL
    PROVE  \E rows : Sorted(f, Selected(f, c)) = {rows}
<1>1. Table /\ f \in Kinds \X Nat
  BY FilterIs DEF WalkInv
<1>2. IsFiniteSet(Selected(f, c)) /\ Selected(f, c) \subseteq DOMAIN row
  BY <1>1, SelectedIs
<1> HIDE DEF Selected
<1>3. Cardinality(Selected(f, c)) \in Nat
  BY <1>2, FS_CardinalityType
<1>4. PICK rows : rows \in Sorted(f, Selected(f, c))
  BY <1>1, <1>2, <1>3, AllSortable DEF Sortable
<1>5. \A s \in Sorted(f, Selected(f, c)) : s = rows
  BY <1>1, <1>2, <1>4, SortedIsOne
<1> QED BY <1>4, <1>5

-----------------------------------------------------------------------------
(* A page that is read *)

(* What a page adds to a walk: items of the rows that are in the list, and    *)
(* all of them up to its last one, or to the end.                             *)
PageOf(w, items, more) ==
    /\ Len(items) \in Nat /\ Len(items) <= Limit /\ DOMAIN items = 1..Len(items)
    /\ \A a \in DOMAIN items : /\ InList(w.filter, items[a])
                               /\ w.state = "going" => Leads(w.filter, w.cursor, items[a])
    /\ \A a, b \in DOMAIN items : a < b => Leads(w.filter, items[a], items[b])
    /\ more => /\ InList(w.filter, Last(items))
               /\ w.state = "going" => Leads(w.filter, w.cursor, Last(items))
               /\ \A a \in DOMAIN items : \/ items[a] = Last(items)
                                          \/ Leads(w.filter, items[a], Last(items))
    /\ \A m \in DOMAIN row :
          /\ InList(w.filter, m)
          /\ w.state = "going" => /\ Key(row[w.cursor], w.filter) # NULL
                                  /\ Leads(w.filter, w.cursor, m)
          => m \in ToSet(items) \/ (more /\ Leads(w.filter, Last(items), m))

(* A page that is read is such a page. *)
LEMMA PageExtends ==
    ASSUME Table, NEW w, Pages(w), w.state # "over", w.state = "none" => w.seen = <<>>,
           Read(w.filter, w.cursor, w)
    PROVE  \E items \in Seq(DOMAIN row), more \in BOOLEAN :
              /\ walk' = [w EXCEPT !.state = IF more THEN "going" ELSE "over",
                                   !.cursor = IF more THEN Last(items) ELSE NoCursor,
                                   !.seen = @ \o items, !.pages = @ + 1]
              /\ PageOf(w, items, more)
<1> DEFINE f == w.filter
           c == w.cursor
           S == Selected(f, c)
<1>1. /\ f \in Kinds \X Nat /\ c \in {NoCursor} \union DOMAIN row
      /\ (w.state = "going" <=> c # NoCursor)
  BY DEF Pages, Walks
<1>2. /\ IsFiniteSet(S) /\ S \subseteq DOMAIN row
      /\ \A m \in S : InList(f, m) /\ (c # NoCursor => Leads(f, c, m))
      /\ \A m \in DOMAIN row :
            /\ InList(f, m)
            /\ c # NoCursor => Key(row[c], f) # NULL /\ Leads(f, c, m)
            => m \in S
  BY <1>1, SelectedIs
<1>3. PICK rows \in Sorted(f, S) :
          walk' = [w EXCEPT !.state = IF Len(rows) > Limit THEN "going" ELSE "over",
                            !.cursor = IF Len(rows) > Limit THEN Last(Trimmed(rows))
                                       ELSE NoCursor,
                            !.seen = @ \o Trimmed(rows), !.pages = @ + 1]
  BY DEF Read
<1> DEFINE items == Trimmed(rows)
           more  == Len(rows) > Limit
<1> HIDE DEF S, f, c
<1>4. /\ items \in Seq(S) /\ Len(items) \in Nat /\ Len(items) <= Limit
      /\ DOMAIN items = 1..Len(items)
      /\ \A a, b \in DOMAIN items : a < b => Leads(f, items[a], items[b])
      /\ more => /\ Last(items) \in S
                 /\ \A a \in DOMAIN items : \/ items[a] = Last(items)
                                            \/ Leads(f, items[a], Last(items))
                 /\ \A m \in S : m \in ToSet(items) \/ Leads(f, Last(items), m)
      /\ ~more => S \subseteq ToSet(items)
  BY <1>2, <1>3, PageIs
<1> HIDE DEF items, more
<1>5. more \in BOOLEAN
  BY DEF more
<1>6. items \in Seq(DOMAIN row) /\ \A a \in DOMAIN items : items[a] \in S
  BY <1>2, <1>4
<1>7. \A a \in DOMAIN items : InList(f, items[a]) /\ (c # NoCursor => Leads(f, c, items[a]))
  BY <1>2, <1>6
<1>8. more => InList(f, Last(items)) /\ (c # NoCursor => Leads(f, c, Last(items)))
  BY <1>2, <1>4
<1>9. \A m \in S : m \in ToSet(items) \/ (more /\ Leads(f, Last(items), m))
  BY <1>4
<1>10. walk' = [w EXCEPT !.state = IF more THEN "going" ELSE "over",
                         !.cursor = IF more THEN Last(items) ELSE NoCursor,
                         !.seen = @ \o items, !.pages = @ + 1]
  BY <1>3 DEF items, more
<1>11. \A m \in DOMAIN row :
          /\ InList(f, m)
          /\ c # NoCursor => Key(row[c], f) # NULL /\ Leads(f, c, m)
          => m \in ToSet(items) \/ (more /\ Leads(f, Last(items), m))
  BY <1>2, <1>9
<1>12. PageOf(w, items, more)
  BY <1>1, <1>4, <1>7, <1>8, <1>11 DEF PageOf, f, c
<1> QED BY <1>5, <1>6, <1>10, <1>12

(* Reading it keeps the invariant: what it leaves out is after its last row. *)
LEMMA PageKeeps ==
    ASSUME Table, NEW w, Pages(w), w.state # "over", w.state = "none" => w.seen = <<>>,
           ~w.disturbed => Undisturbed(w), Read(w.filter, w.cursor, w)
    PROVE  WalkInv'
<1>1. UNCHANGED <<now, row>>
  BY DEF Read
<1>2. PICK items \in Seq(DOMAIN row), more \in BOOLEAN :
        /\ walk' = [w EXCEPT !.state = IF more THEN "going" ELSE "over",
                             !.cursor = IF more THEN Last(items) ELSE NoCursor,
                             !.seen = @ \o items, !.pages = @ + 1]
        /\ PageOf(w, items, more)
  BY PageExtends
<1>0. Len(items) \in Nat /\ Len(items) <= Limit /\ DOMAIN items = 1..Len(items)
  BY <1>2 DEF PageOf
<1> DEFINE v == walk'
           f == w.filter
           n == Len(w.seen)
<1>3. /\ w \in Walks /\ w.seen \in Seq(DOMAIN row) /\ n \in Nat /\ DOMAIN w.seen = 1..n
      /\ f \in Kinds \X Nat /\ w.pages \in Nat /\ n <= Limit * w.pages
      /\ DOMAIN row \subseteq Ids
  BY DEF Pages, Walks, Table
<1>4. /\ v.state = (IF more THEN "going" ELSE "over")
      /\ v.cursor = (IF more THEN Last(items) ELSE NoCursor)
      /\ v.seen = w.seen \o items /\ v.pages = w.pages + 1
      /\ v.filter = f /\ v.moved = w.moved /\ v.disturbed = w.disturbed
      /\ v = [state |-> v.state, filter |-> f, cursor |-> v.cursor, seen |-> v.seen,
              pages |-> v.pages, moved |-> w.moved, disturbed |-> w.disturbed]
  BY <1>2, <1>3 DEF Walks
<1> HIDE DEF v, f, n
<1>5. /\ v.seen \in Seq(DOMAIN row) /\ DOMAIN v.seen = 1..(n + Len(items))
      /\ Len(v.seen) = n + Len(items)
      /\ \A a \in 1..n : v.seen[a] = w.seen[a]
      /\ \A a \in DOMAIN items : v.seen[n + a] = items[a]
      /\ \A a \in (n + 1)..(n + Len(items)) : a - n \in DOMAIN items /\ v.seen[a] = items[a - n]
  <2>1. v.seen = w.seen \o items /\ w.seen \in Seq(DOMAIN row) /\ items \in Seq(DOMAIN row)
    BY <1>0, <1>3, <1>4
  <2>2. /\ v.seen \in Seq(DOMAIN row) /\ Len(v.seen) = n + Len(items)
        /\ DOMAIN v.seen = 1..(n + Len(items))
    BY <2>1 DEF n
  <2>3. /\ \A a \in 1..n : v.seen[a] = w.seen[a]
        /\ \A a \in (n + 1)..(n + Len(items)) : v.seen[a] = items[a - n]
    BY <1>0, <1>3, <2>1 DEF n
  <2>0. n \in Nat
    BY <1>3
  <2>4. \A a \in DOMAIN items : n + a \in (n + 1)..(n + Len(items)) /\ (n + a) - n = a
    BY <1>0, <2>0
  <2>5. \A a \in (n + 1)..(n + Len(items)) : a - n \in DOMAIN items
    BY <1>0, <1>3
  <2> QED BY <2>2, <2>3, <2>4, <2>5
<1>6. more => Last(items) \in DOMAIN row /\ Last(items) # NoCursor
              /\ Key(row[Last(items)], f) # NULL
  BY <1>2, <1>3, InListHasKey DEF PageOf, f, NoCursor
<1>7. Pages(v)
  <2>1. v.cursor \in Ids \union {NoCursor} /\ v.seen \in Seq(Ids) /\ v.pages \in Nat
    BY <1>3, <1>4, <1>5, <1>6
  <2>2. v \in Walks
    BY <1>3, <1>4, <2>1 DEF Walks, f
  <2>3. Len(v.seen) <= Limit * v.pages
    <3>1. Limit \in Nat
      BY HostMeetingsAssumption DEF HostMeetingsAssumption
    <3>2. Limit * (w.pages + 1) = Limit * w.pages + Limit
      BY <1>3, <3>1
    <3>3. Limit * w.pages \in Nat
      BY <1>3, <3>1
    <3> QED BY <1>0, <1>3, <1>4, <1>5, <3>1, <3>2, <3>3
  <2>4. /\ v.state = "going" <=> v.cursor # NoCursor
        /\ v.cursor # NoCursor => v.cursor \in DOMAIN row
    BY <1>4, <1>6
  <2> QED BY <1>5, <2>2, <2>3, <2>4 DEF Pages
<1>8. ASSUME ~v.disturbed PROVE Undisturbed(v)
  <2>1. Undisturbed(w) /\ w.state \in {"none", "going"}
    BY <1>3, <1>4, <1>8 DEF Walks
  <2>2. v.state = "going" => more /\ v.cursor = Last(items) /\ Key(row[v.cursor], f) # NULL
    BY <1>4, <1>6
  <2>3. Complete(v)
    <3> SUFFICES ASSUME NEW m \in DOMAIN row, InList(f, m), m \notin w.moved,
                        m \notin ToSet(v.seen)
                 PROVE  v.state # "over" /\ Left(v, m)
      BY <1>4 DEF Complete
    <3>1. m \notin ToSet(w.seen) /\ m \notin ToSet(items)
      <4>1. \A a \in DOMAIN w.seen : a \in DOMAIN v.seen /\ v.seen[a] = w.seen[a]
        BY <1>0, <1>3, <1>5
      <4>2. \A a \in DOMAIN items : n + a \in DOMAIN v.seen /\ v.seen[n + a] = items[a]
        BY <1>0, <1>3, <1>5
      <4> QED BY <4>1, <4>2 DEF ToSet
    <3>2. w.state = "going" => Leads(f, w.cursor, m) /\ Key(row[w.cursor], f) # NULL
      BY <2>1, <3>1 DEF Undisturbed, Complete, Left, f
    <3>3. more /\ Leads(f, Last(items), m)
      BY <1>2, <3>1, <3>2 DEF PageOf, f
    <3> QED BY <1>4, <3>3 DEF Left
  <2>4. \A a \in DOMAIN v.seen :
           \/ a \in DOMAIN w.seen /\ v.seen[a] = w.seen[a]
           \/ a > n /\ a - n \in DOMAIN items /\ v.seen[a] = items[a - n]
    BY <1>0, <1>3, <1>5
  <2> USE <1>3
  <2>5. \A m, l \in DOMAIN row, k \in DOMAIN row :
           Leads(f, m, l) /\ Leads(f, l, k) => Leads(f, m, k)
    <3> SUFFICES ASSUME NEW m \in DOMAIN row, NEW l \in DOMAIN row, NEW k \in DOMAIN row,
                        Leads(f, m, l), Leads(f, l, k)
                 PROVE  Leads(f, m, k)
      OBVIOUS
    <3>1. \A j \in DOMAIN row : j \in Nat /\ Key(row[j], f) \in Nat
      BY KeyIsTime, HostMeetingsAssumption DEF HostMeetingsAssumption, Table
    <3> QED BY <3>1, BeforeIsTransitive DEF Leads
  <2>6. ASSUME NEW a \in DOMAIN w.seen, w.seen[a] \notin w.moved, w.state = "going",
               NEW m \in DOMAIN row, Leads(f, w.cursor, m)
        PROVE  Leads(f, w.seen[a], m)
    <3>1. w.seen[a] = w.cursor \/ Leads(f, w.seen[a], w.cursor)
      BY <2>1, <2>6 DEF Undisturbed, Ordered, f
    <3>2. w.seen[a] \in DOMAIN row /\ w.cursor \in DOMAIN row
      BY <2>6 DEF Pages
    <3> QED BY <2>5, <2>6, <3>1, <3>2
  <2>7. w.state = "none" => DOMAIN w.seen = {}
    OBVIOUS
  <2>11. \A d \in DOMAIN items :
            /\ InList(f, items[d]) /\ items[d] \in DOMAIN row
            /\ w.state = "going" => Leads(f, w.cursor, items[d])
            /\ more => items[d] = Last(items) \/ Leads(f, items[d], Last(items))
    <3> SUFFICES ASSUME NEW d \in DOMAIN items
                 PROVE  /\ InList(f, items[d]) /\ items[d] \in DOMAIN row
                        /\ w.state = "going" => Leads(f, w.cursor, items[d])
                        /\ more => items[d] = Last(items) \/ Leads(f, items[d], Last(items))
      OBVIOUS
    <3>1. InList(f, items[d]) /\ (w.state = "going" => Leads(f, w.cursor, items[d]))
      BY <1>2 DEF PageOf, f
    <3>2. more => items[d] = Last(items) \/ Leads(f, items[d], Last(items))
      BY <1>2 DEF PageOf, f
    <3> QED BY <3>1, <3>2 DEF InList
  <2>8. ASSUME NEW a \in DOMAIN v.seen, v.seen[a] \notin w.moved
        PROVE  /\ InList(f, v.seen[a])
               /\ more => v.seen[a] = Last(items) \/ Leads(f, v.seen[a], Last(items))
    <3>1. CASE a \in DOMAIN w.seen /\ v.seen[a] = w.seen[a]
      <4>1. w.state = "going" /\ InList(f, w.seen[a])
        BY <2>1, <2>7, <2>8, <3>1 DEF Undisturbed, Ordered, f
      <4>2. more => Leads(f, w.cursor, Last(items)) /\ Last(items) \in DOMAIN row
        BY <1>2, <1>6, <4>1 DEF PageOf, f
      <4> QED BY <2>6, <2>8, <3>1, <4>1, <4>2
    <3>2. CASE a - n \in DOMAIN items /\ v.seen[a] = items[a - n]
      BY <2>11, <3>2
    <3> QED BY <2>4, <3>1, <3>2
  <2>9. ASSUME NEW a \in DOMAIN v.seen, NEW b \in DOMAIN v.seen, a < b,
               v.seen[a] \notin w.moved, v.seen[b] \notin w.moved
        PROVE  Leads(f, v.seen[a], v.seen[b])
    <3>1. CASE b \in DOMAIN w.seen /\ v.seen[b] = w.seen[b]
      <4>1. a \in DOMAIN w.seen /\ v.seen[a] = w.seen[a]
        BY <1>5, <2>9, <3>1
      <4> QED BY <2>1, <2>9, <3>1, <4>1 DEF Undisturbed, Ordered, f
    <3>2. CASE b > n /\ b - n \in DOMAIN items /\ v.seen[b] = items[b - n]
      <4>1. CASE a \in DOMAIN w.seen /\ v.seen[a] = w.seen[a]
        <5>1. w.state = "going"
          BY <2>1, <2>7, <4>1
        <5>2. Leads(f, w.cursor, items[b - n]) /\ items[b - n] \in DOMAIN row
          BY <2>11, <3>2, <5>1
        <5> QED BY <2>6, <2>9, <3>2, <4>1, <5>1, <5>2
      <4>2. CASE a - n \in DOMAIN items /\ v.seen[a] = items[a - n]
        <5>1. a - n < b - n
          BY <1>5, <2>9
        <5> QED BY <1>2, <3>2, <4>2, <5>1 DEF PageOf, f
      <4> QED BY <2>4, <4>1, <4>2
    <3> QED BY <2>4, <3>1, <3>2
  <2>10. Ordered(v)
    BY <1>4, <2>2, <2>8, <2>9 DEF Ordered
  <2> QED BY <1>4, <2>2, <2>3, <2>10 DEF Undisturbed
<1>9. Table'
  BY <1>1 DEF Table
<1>10. Pages(v) => Pages(walk)'
  BY <1>1 DEF Pages, v
<1>11. Undisturbed(v) => Undisturbed(walk)'
  BY <1>1 DEF Undisturbed, Complete, Ordered, Left, Leads, InList, v
<1>12. v.disturbed = walk'.disturbed
  BY DEF v
<1> QED BY <1>7, <1>8, <1>9, <1>10, <1>11, <1>12 DEF WalkInv

LEMMA NoWalkIs ==
    /\ NoWalk \in Walks /\ NoWalk.state = "none" /\ NoWalk.cursor = NoCursor
    /\ NoWalk.seen = <<>> /\ NoWalk.pages = 0
BY DEF NoWalk, Walks, Kinds

(* A walk begins, or goes on after its cursor. *)
LEMMA FirstPageKeeps == ASSUME WalkInv, NEW f \in Filters, FirstPage(f) PROVE WalkInv'
<1> DEFINE w == [NoWalk EXCEPT !.filter = f]
<1>0. f \in Kinds \X Nat /\ Read(f, NoCursor, w)
  BY FilterIs DEF FirstPage
<1>1. /\ w \in Walks /\ w.state = "none" /\ w.cursor = NoCursor /\ w.seen = <<>>
      /\ w.pages = 0 /\ w.filter = f
  <2>1. /\ w.state = NoWalk.state /\ w.cursor = NoWalk.cursor /\ w.seen = NoWalk.seen
        /\ w.pages = NoWalk.pages /\ w.filter = f /\ w \in Walks
    BY <1>0, NoWalkIs DEF Walks
  <2> QED BY <2>1, NoWalkIs
<1> HIDE DEF w
<1>2. Pages(w)
  <2>1. Limit * w.pages = 0 /\ Len(w.seen) = 0 /\ w.seen \in Seq(DOMAIN row)
    BY <1>1, HostMeetingsAssumption DEF HostMeetingsAssumption
  <2> QED BY <1>1, <2>1 DEF Pages
<1>3. Undisturbed(w)
  BY <1>1 DEF Undisturbed, Complete, Ordered, Left
<1> QED BY <1>0, <1>1, <1>2, <1>3, PageKeeps DEF WalkInv

LEMMA NextPageKeeps == ASSUME WalkInv, NextPage PROVE WalkInv'
<1>1. walk.state = "going" /\ Read(walk.filter, walk.cursor, walk)
  BY DEF NextPage
<1> QED BY <1>1, PageKeeps DEF WalkInv

(* A walk given up is none. *)
LEMMA NextPageFailsKeeps == ASSUME WalkInv, NextPageFails PROVE WalkInv'
<1>1. walk' = NoWalk /\ UNCHANGED <<now, row>>
  BY DEF NextPageFails
<1>2. Table'
  BY <1>1 DEF WalkInv, Table
<1>3. Pages(walk)'
  <2>1. Limit * NoWalk.pages = 0 /\ Len(NoWalk.seen) = 0 /\ NoWalk.seen \in Seq(DOMAIN row')
    BY NoWalkIs, HostMeetingsAssumption DEF HostMeetingsAssumption
  <2> QED BY <1>1, <2>1, NoWalkIs DEF Pages
<1>4. Undisturbed(walk)'
  BY <1>1, NoWalkIs DEF Undisturbed, Complete, Ordered, Left
<1> QED BY <1>2, <1>3, <1>4 DEF WalkInv

-----------------------------------------------------------------------------
(* Changes *)

(* A walk takes note of what moves: the rows it has not noted are in the list *)
(* if they were, with the key they had.                                       *)
LEMMA ChangeKeeps ==
    ASSUME WalkInv, Rewrites(row', now'), Table', DOMAIN row \subseteq DOMAIN row'
    PROVE  WalkInv'
<1>1. DOMAIN row' \subseteq Ids
  BY DEF Table
<1>2. CASE walk.state # "going"
  <2>1. walk' = NoWalk
    BY <1>2 DEF Rewrites
  <2>2. Limit * NoWalk.pages = 0 /\ Len(NoWalk.seen) = 0 /\ NoWalk.seen \in Seq(DOMAIN row')
    BY NoWalkIs, HostMeetingsAssumption DEF HostMeetingsAssumption
  <2>3. Pages(walk)'
    BY <2>1, <2>2, NoWalkIs DEF Pages
  <2>4. Undisturbed(walk)'
    BY <2>1, NoWalkIs DEF Undisturbed, Complete, Ordered, Left
  <2> QED BY <2>3, <2>4 DEF WalkInv
<1>3. CASE walk.state = "going"
  <2>0. PICK f \in Kinds \X Nat : f = walk.filter
    BY DEF WalkInv, Pages, Walks
  <2> DEFINE moves == {m \in Ids : Place(row', now', m) # Place(row, now, m)}
             InNew(m) == m \in DOMAIN row' /\ Matches(row'[m], f, now')
             LeadsNew(m, l) == Before(f, Key(row'[m], f), m, Key(row'[l], f), l)
             anchor == AnchorKey(row') # AnchorKey(row)
  <2>1. walk \in Walks /\ Pages(walk) /\ walk.cursor \in DOMAIN row
    BY <1>3 DEF WalkInv, Pages, Walks
  <2>2. walk' = [walk EXCEPT !.moved = @ \union moves, !.disturbed = @ \/ anchor]
    BY <1>3 DEF Rewrites
  <2> HIDE DEF moves, anchor
  <2>3. /\ walk'.state = "going" /\ walk'.filter = f /\ walk'.cursor = walk.cursor
        /\ walk'.seen = walk.seen /\ walk'.pages = walk.pages
        /\ walk'.moved = walk.moved \union moves
        /\ walk'.disturbed = (walk.disturbed \/ anchor)
    BY <1>3, <2>0, <2>1, <2>2 DEF Walks
  <2>4. Pages(walk)'
    <3>1. walk.seen \in Seq(DOMAIN row')
      BY <1>1, <2>1 DEF Pages
    <3>2. walk'.moved \in SUBSET Ids /\ walk'.disturbed \in BOOLEAN
      BY <2>1, <2>3 DEF Walks, moves, anchor
    <3>3. walk' \in Walks
      BY <2>1, <2>2, <2>3, <3>2 DEF Walks
    <3>4. walk.cursor # NoCursor /\ Len(walk.seen) <= Limit * walk.pages
      BY <1>3, <2>1 DEF Pages
    <3> QED BY <2>1, <2>3, <3>1, <3>3, <3>4 DEF Pages
  <2>5. ASSUME NEW m \in Ids
        PROVE  /\ Place(row, now, m) # NULL <=> InList(f, m)
               /\ InList(f, m) => Place(row, now, m) = Key(row[m], f)
    <3>1. m \in DOMAIN row => /\ row[m] \in Rows
                              /\ row[m].status = "ended" => row[m].ended_at # NULL
      BY DEF WalkInv, Table
    <3> QED BY <2>0, <3>1, PlaceIs DEF InList
  <2>6. ASSUME NEW m \in Ids
        PROVE  /\ Place(row', now', m) # NULL <=> InNew(m)
               /\ InNew(m) => Place(row', now', m) = Key(row'[m], f)
    <3>1. m \in DOMAIN row' => /\ row'[m] \in Rows
                               /\ row'[m].status = "ended" => row'[m].ended_at # NULL
      BY DEF Table
    <3> QED BY <2>0, <3>1, PlaceIs DEF InList
  <2>7. ASSUME NEW m \in Ids, m \notin walk'.moved
        PROVE  /\ m \notin walk.moved
               /\ InNew(m) <=> InList(f, m)
               /\ InList(f, m) => m \in DOMAIN row /\ Key(row'[m], f) = Key(row[m], f)
    <3>1. m \notin walk.moved /\ Place(row', now', m) = Place(row, now, m)
      BY <2>3, <2>7 DEF moves
    <3> QED BY <2>5, <2>6, <3>1 DEF InList
  <2>8. ASSUME ~walk'.disturbed PROVE Undisturbed(walk)'
    <3>1. Undisturbed(walk) /\ Key(row'[walk.cursor], f) = Key(row[walk.cursor], f)
      BY <2>0, <2>3, <2>8 DEF WalkInv, AnchorKey, anchor
    <3>2. ASSUME NEW m, NEW l, Key(row'[m], f) = Key(row[m], f),
                 Key(row'[l], f) = Key(row[l], f)
          PROVE  LeadsNew(m, l) <=> Leads(f, m, l)
      BY <3>2 DEF Leads
    <3>3. Complete(walk)'
      <4> SUFFICES ASSUME NEW m \in Ids, InNew(m), m \notin walk'.moved
                   PROVE  m \in ToSet(walk.seen) \/ LeadsNew(walk.cursor, m)
        BY <1>1, <2>3 DEF Complete, Left, Leads, InList
      <4>1. InList(f, m) /\ Key(row'[m], f) = Key(row[m], f) /\ m \notin walk.moved
        BY <2>7
      <4>2. m \in ToSet(walk.seen) \/ Leads(f, walk.cursor, m)
        BY <1>3, <2>0, <3>1, <4>1 DEF Undisturbed, Complete, Left, InList
      <4> QED BY <3>1, <3>2, <4>1, <4>2
    <3>4. ASSUME NEW a \in DOMAIN walk.seen, walk.seen[a] \notin walk'.moved
          PROVE  /\ walk.seen[a] \notin walk.moved /\ InNew(walk.seen[a])
                 /\ Key(row'[walk.seen[a]], f) = Key(row[walk.seen[a]], f)
      <4>1. walk.seen[a] \notin walk.moved /\ walk.seen[a] \in Ids
        BY <2>1, <2>3, <3>4 DEF Pages, Walks
      <4>2. InList(f, walk.seen[a])
        BY <2>0, <3>1, <4>1 DEF Undisturbed, Ordered
      <4> QED BY <2>7, <3>4, <4>1, <4>2
    <3>5. ASSUME NEW a \in DOMAIN walk.seen, walk.seen[a] \notin walk'.moved
          PROVE  walk.seen[a] = walk.cursor \/ LeadsNew(walk.seen[a], walk.cursor)
      <4>1. walk.seen[a] = walk.cursor \/ Leads(f, walk.seen[a], walk.cursor)
        BY <1>3, <2>0, <3>1, <3>4, <3>5 DEF Undisturbed, Ordered
      <4> QED BY <3>1, <3>2, <3>4, <3>5, <4>1
    <3>6. ASSUME NEW a \in DOMAIN walk.seen, NEW b \in DOMAIN walk.seen, a < b,
                 walk.seen[a] \notin walk'.moved, walk.seen[b] \notin walk'.moved
          PROVE  LeadsNew(walk.seen[a], walk.seen[b])
      <4>1. Leads(f, walk.seen[a], walk.seen[b])
        BY <2>0, <3>1, <3>4, <3>6 DEF Undisturbed, Ordered
      <4> QED BY <3>2, <3>4, <3>6, <4>1
    <3>7. Ordered(walk)'
      BY <2>3, <3>4, <3>5, <3>6 DEF Ordered, InList, Leads
    <3>8. Key(row'[walk.cursor], f) # NULL
      BY <1>3, <2>0, <3>1 DEF Undisturbed
    <3> QED BY <2>3, <3>3, <3>7, <3>8 DEF Undisturbed
  <2> QED BY <2>4, <2>8 DEF WalkInv
<1> QED BY <1>2, <1>3

-----------------------------------------------------------------------------
(* The operations.  Time takes meetings out of "upcoming", and moves no key. *)

LEMMA TickKeeps == ASSUME WalkInv, Tick PROVE WalkInv'
<1>1. Rewrites(row', now') /\ row' = row /\ now' = now + 1 /\ now < MaxTime
  BY DEF Tick, Rewrites
<1>2. now' \in Times
  BY <1>1, HostMeetingsAssumption DEF HostMeetingsAssumption, WalkInv, Table, Times
<1>3. Table'
  BY <1>1, <1>2 DEF WalkInv, Table
<1> QED BY <1>1, <1>3, ChangeKeeps

LEMMA CreateMeetingKeeps ==
    ASSUME WalkInv, NEW m \in Ids, NEW start \in 0..(MaxTime + 1), create_meeting(m, start)
    PROVE  WalkInv'
<1> DEFINE r == [status |-> IF start = NULL THEN "live" ELSE "scheduled",
                 scheduled_start |-> start, created_at |-> now, ended_at |-> NULL]
<1>1. /\ Rewrites(row', now') /\ now' = now
      /\ row' = [n \in DOMAIN row \union {m} |-> IF n = m THEN r ELSE row[n]]
  BY DEF create_meeting, Rewrites
<1>2. r \in Rows /\ r.status # "ended"
  BY HostMeetingsAssumption DEF HostMeetingsAssumption, WalkInv, Table, Rows, Times, NULL
<1> HIDE DEF r
<1>3. Table'
  BY <1>1, <1>2 DEF WalkInv, Table
<1> QED BY <1>1, <1>3, ChangeKeeps

(* A row that is changed stays a row, with its time of ending if it ended. *)
LEMMA RowKeeps ==
    ASSUME WalkInv, NEW m \in DOMAIN row, NEW r \in Rows,
           r.status = "ended" => r.ended_at # NULL,
           Rewrites(row', now'), now' = now, row' = [row EXCEPT ![m] = r]
    PROVE  WalkInv'
<1>1. DOMAIN row' = DOMAIN row /\ Table'
  BY DEF WalkInv, Table
<1> QED BY <1>1, ChangeKeeps

LEMMA UpdateMeetingKeeps ==
    ASSUME WalkInv, NEW m \in DOMAIN row, NEW start \in 0..(MaxTime + 1), update_meeting(m, start)
    PROVE  WalkInv'
<1> DEFINE r == [row[m] EXCEPT !.scheduled_start = start]
<1>1. /\ Rewrites(row', now') /\ row' = [row EXCEPT ![m] = r] /\ now' = now
      /\ row[m].status = "scheduled"
  BY DEF update_meeting, Rewrites
<1>2. r \in Rows /\ r.status = "scheduled"
  BY <1>1 DEF WalkInv, Table, Rows
<1> QED BY <1>1, <1>2, RowKeeps

LEMMA CancelMeetingKeeps == ASSUME WalkInv, NEW m \in DOMAIN row, cancel_meeting(m) PROVE WalkInv'
<1> DEFINE r == [row[m] EXCEPT !.status = "cancelled"]
<1>1. Rewrites(row', now') /\ row' = [row EXCEPT ![m] = r] /\ now' = now
  BY DEF cancel_meeting, Rewrites
<1>2. r \in Rows /\ r.status = "cancelled"
  BY DEF WalkInv, Table, Rows
<1> QED BY <1>1, <1>2, RowKeeps

LEMMA EndingIs ==
    ASSUME NEW r \in Rows, NEW s \in {"live", "ended"}, NEW t \in 0..MaxTime
    PROVE  LET q == [r EXCEPT !.status = s, !.ended_at = t]
           IN  q \in Rows /\ q.status = s /\ q.ended_at = t
BY DEF Rows

LEMMA StartMeetingKeeps == ASSUME WalkInv, NEW m \in DOMAIN row, start_meeting(m) PROVE WalkInv'
<1> DEFINE r == [row[m] EXCEPT !.status = "live", !.ended_at = NULL]
<1>1. Rewrites(row', now') /\ row' = [row EXCEPT ![m] = r] /\ now' = now
  BY DEF start_meeting, Rewrites
<1>2. row[m] \in Rows /\ NULL \in 0..MaxTime
  BY HostMeetingsAssumption DEF HostMeetingsAssumption, WalkInv, Table, NULL
<1>3. r \in Rows /\ r.status = "live"
  BY <1>2, EndingIs
<1> QED BY <1>1, <1>3, RowKeeps

LEMMA EndMeetingKeeps == ASSUME WalkInv, NEW m \in DOMAIN row, end_meeting(m) PROVE WalkInv'
<1> DEFINE r == [row[m] EXCEPT !.status = "ended", !.ended_at = now]
<1>1. Rewrites(row', now') /\ row' = [row EXCEPT ![m] = r] /\ now' = now
  BY DEF end_meeting, Rewrites
<1>2. row[m] \in Rows /\ now \in 0..MaxTime /\ now # NULL
  BY HostMeetingsAssumption DEF HostMeetingsAssumption, WalkInv, Table, Times, NULL
<1>3. r \in Rows /\ r.ended_at # NULL
  BY <1>2, EndingIs
<1> QED BY <1>1, <1>3, RowKeeps

-----------------------------------------------------------------------------
(* The theorems *)

LEMMA WalkInit == ListInit => WalkInv
<1> SUFFICES ASSUME ListInit PROVE WalkInv
  OBVIOUS
<1>1. now = 1 /\ row = <<>> /\ walk = NoWalk /\ DOMAIN row = {}
  BY DEF ListInit
<1>2. Table
  BY <1>1, HostMeetingsAssumption DEF HostMeetingsAssumption, Table, Times
<1>3. Pages(walk)
  <2>1. Limit * NoWalk.pages = 0 /\ Len(NoWalk.seen) = 0 /\ NoWalk.seen \in Seq(DOMAIN row)
    BY NoWalkIs, HostMeetingsAssumption DEF HostMeetingsAssumption
  <2> QED BY <1>1, <2>1, NoWalkIs DEF Pages
<1>4. Undisturbed(walk)
  BY <1>1, NoWalkIs DEF Undisturbed, Complete, Ordered, Left
<1> QED BY <1>2, <1>3, <1>4 DEF WalkInv

LEMMA WalkNext == WalkInv /\ [ListNext]_listVars => WalkInv'
<1> SUFFICES ASSUME WalkInv, [ListNext]_listVars PROVE WalkInv'
  OBVIOUS
<1>1. CASE UNCHANGED listVars
  BY <1>1 DEF listVars, WalkInv, Table, Pages, Undisturbed, Complete, Ordered, Left, Leads, InList
<1>2. CASE Tick
  BY <1>2, TickKeeps
<1>3. CASE NextPage
  BY <1>3, NextPageKeeps
<1>4. ASSUME NEW f \in Filters, FirstPage(f) PROVE WalkInv'
  BY <1>4, FirstPageKeeps
<1>5. ASSUME NEW m \in Ids, NEW start \in 0..(MaxTime + 1), create_meeting(m, start) PROVE WalkInv'
  BY <1>5, CreateMeetingKeeps
<1>6. ASSUME NEW m \in DOMAIN row, cancel_meeting(m) \/ start_meeting(m) \/ end_meeting(m)
      PROVE  WalkInv'
  BY <1>6, CancelMeetingKeeps, StartMeetingKeeps, EndMeetingKeeps
<1>7. ASSUME NEW m \in DOMAIN row, NEW start \in Times, update_meeting(m, start + 1) PROVE WalkInv'
  <2>1. start + 1 \in 0..(MaxTime + 1)
    BY HostMeetingsAssumption DEF HostMeetingsAssumption, Times
  <2> QED BY <1>7, <2>1, UpdateMeetingKeeps
<1>8. CASE NextPageFails
  BY <1>8, NextPageFailsKeeps
<1> QED BY <1>1, <1>2, <1>3, <1>4, <1>5, <1>6, <1>7, <1>8 DEF ListNext

(* Behind the cursor there is all that was not shown, before it all that was. *)
THEOREM WalkInvHolds == ListSpec => []WalkInv
BY WalkInit, WalkNext, PTL DEF ListSpec

LEMMA WalkIsTyped == WalkInv => ListTypeOK
BY DEF WalkInv, Table, Pages, Walks, ListTypeOK

LEMMA WalkSkipsNone == WalkInv => SkipsNone
<1> SUFFICES ASSUME WalkInv, walk.state = "over", ~walk.disturbed,
                    NEW m \in DOMAIN row, Place(row, now, m) # NULL, m \notin walk.moved
             PROVE  m \in ToSet(walk.seen)
  BY DEF SkipsNone
<1>1. walk.filter \in Kinds \X Nat /\ row[m] \in Rows
      /\ (row[m].status = "ended" => row[m].ended_at # NULL)
  BY DEF WalkInv, Table, Pages, Walks
<1>2. InList(walk.filter, m)
  BY <1>1, PlaceIs DEF InList
<1> QED BY <1>2 DEF WalkInv, Undisturbed, Complete

LEMMA WalkInOrder == WalkInv => InOrder
BY DEF WalkInv, Undisturbed, Ordered, Leads, InOrder

(* Every row and every walk is one of the program, and a walk of so many pages *)
(* has not shown more rows than they hold.                                      *)
THEOREM ListTypesHold == ListSpec => []ListTypeOK
BY WalkInvHolds, WalkIsTyped, PTL

(* A walk that is over has shown every row that was in the list all the time   *)
(* and kept its key, unless a row was moved while it was the cursor, for any    *)
(* meetings changed in any way between the pages (list_for_host).               *)
THEOREM SkipsNoneHolds == ListSpec => []SkipsNone
BY WalkInvHolds, WalkSkipsNone, PTL

(* It shows them in the order of the list and none of them twice (_apply_cursor). *)
THEOREM InOrderHolds == ListSpec => []InOrder
BY WalkInvHolds, WalkInOrder, PTL
====
