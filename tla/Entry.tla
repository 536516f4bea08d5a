-------------------------------- MODULE Entry --------------------------------
(***************************************************************************)
(* The two ways into a meeting, in one browser tab: the form of /join      *)
(* (JoinForm.tsx with its MeetingIdCombobox) and the page an invite link   *)
(* opens (JoinInterstitial.tsx), with the recently used numbers that all   *)
(* tabs of the browser share (recentMeetingIds.ts).                        *)
(*                                                                         *)
(* A task is one submission, or the lookup an invite page makes when it    *)
(* mounts.  A submission goes on after its page has gone: it then changes  *)
(* no page, but it still signs in as a guest, remembers the number and     *)
(* pushes the room.  The identity is whether a token is stored: what it    *)
(* names, and how tabs learn of it, is in Account.  A passcode is the      *)
(* number it was typed for and whether it is right.  Texts of errors, the  *)
(* display name and the popover of the desktop app are left out.           *)
(***************************************************************************)
EXTENDS Integers, SequencesExt

CONSTANTS
    Numbers,        \* what can be typed as a meeting number
    Held,           \* those that some meeting has
    Locked,         \* those of meetings with a passcode
    MaxRecent,      \* MAX_RECENT, 5 in the code
    MaxTasks        \* bound: tasks at a time

ASSUME EntryAssumption ==
    /\ Held \subseteq Numbers /\ Locked \subseteq Held
    /\ MaxRecent \in Nat \ {0} /\ MaxTasks \in Nat

NoNumber  == "none"
NotCached == <<"null">>
ASSUME NumberAssumption == {NoNumber, "null"} \intersect Numbers = {}

VARIABLES
    page,           \* what the tab shows
    task,
    token,          \* a token is stored
    over,           \* meetings that are over; they can be started again
    recents,        \* the stored list
    cached,         \* cachedSnapshot
    told,           \* a storage event about the list is on its way
    open, active    \* of the combobox: list shown, activeIndex

vars == <<page, task, token, over, recents, cached, told, open, active>>

Tasks == 1..MaxTasks

NoProbe == [number |-> NoNumber, locked |-> FALSE, over |-> FALSE]
Probes  == [number : Numbers, locked : BOOLEAN, over : BOOLEAN] \union {NoProbe}
NoPass  == [of |-> NoNumber, right |-> FALSE]
Passes  == [of : Numbers, right : BOOLEAN] \union {NoPass}
Caches  == Seq(Numbers) \union {NotCached}

Page(kind, number, invite, phase) ==
    [kind |-> kind, number |-> number, invite |-> invite, phase |-> phase,
     lookup |-> NoProbe, pass |-> NoPass]

Away == Page("away", NoNumber, FALSE, "form")

Idle == [step |-> "idle", kind |-> "join", number |-> NoNumber, pass |-> NoPass,
         invite |-> FALSE, live |-> FALSE]

Pages == [kind : {"away", "join", "link", "room"},
          number : Numbers \union {NoNumber}, invite : BOOLEAN,
          phase : {"form", "busy", "probing", "fatal"},
          lookup : Probes, pass : Passes]

Calls == [step : {"idle", "probe", "lookup", "guest", "join"},
          kind : {"join", "link"}, number : Numbers \union {NoNumber},
          pass : Passes, invite : BOOLEAN, live : BOOLEAN]

TypeOK ==
    /\ page \in Pages /\ task \in [Tasks -> Calls]
    /\ token \in BOOLEAN /\ over \subseteq Held
    /\ recents \in Seq(Numbers) /\ cached \in Caches
    /\ told \in BOOLEAN /\ open \in BOOLEAN
    /\ active \in -1..(MaxRecent - 1)

Init ==
    /\ page = Away /\ task = [i \in Tasks |-> Idle]
    /\ token \in BOOLEAN /\ over = {}
    /\ recents = <<>> /\ cached = NotCached /\ told = FALSE
    /\ open = FALSE /\ active = -1

shared == <<token, over, recents, told>>
list   == <<cached, open, active>>

-----------------------------------------------------------------------------
(* Pages *)

Shows(kind, phase) == page.kind = kind /\ page.phase = phase

FormShown   == Shows("join", "form")
SpinnerOnly == Shows("join", "busy")
Loading     == Shows("link", "probing")
FatalCard   == Shows("link", "fatal")
Joining     == Shows("link", "busy")
LinkForm    == Shows("link", "form")

(* The tasks of a page that is gone: the lookup of an invite page is           *)
(* cancelled, a submission is not.                                             *)
Orphaned == [i \in Tasks |->
                IF task[i].step = "probe" THEN Idle
                ELSE [task[i] EXCEPT !.live = FALSE]]

CloseList == open' = FALSE /\ active' = -1

(* The list is read when the form is rendered, and kept. *)
SnapshotIn(c, r) == IF c = NotCached THEN r ELSE c

OpenJoin ==
    /\ page.kind \in {"away", "room"} \/ FatalCard
    /\ page' = Page("join", NoNumber, FALSE, "form")
    /\ task' = Orphaned
    /\ cached' = SnapshotIn(cached, recents)
    /\ CloseList
    /\ UNCHANGED shared

(* Cancel, or a link of the shell. *)
GoAway ==
    /\ page.kind # "away"
    /\ page' = Away
    /\ task' = Orphaned
    /\ CloseList
    /\ UNCHANGED <<shared, cached>>

Free(i) == task[i].step = "idle" /\ \A k \in Tasks : k < i => task[k].step # "idle"

Begin(i, step, number, pass) ==
    task' = [task EXCEPT ![i] =
                [step |-> step, kind |-> page.kind, number |-> number,
                 pass |-> pass, invite |-> page.invite, live |-> TRUE]]

(* An invite link is a new document: the scripts of the last one are gone. *)
OpenLink(number, invite) ==
    /\ page.kind = "away" /\ MaxTasks > 0
    /\ page' = Page("link", number, invite, "probing")
    /\ task' = [i \in Tasks |->
                  IF i = 1 THEN [step |-> "probe", kind |-> "link", number |-> number,
                                 pass |-> NoPass, invite |-> invite, live |-> TRUE]
                  ELSE Idle]
    /\ cached' = NotCached
    /\ CloseList
    /\ UNCHANGED shared

-----------------------------------------------------------------------------
(* The form *)

(* Faulty variants, here and below, for trying out what the runs can tell    *)
(* apart.                                                                     *)
KeepsWhatItKnew(number) == [page EXCEPT !.number = number]

handleMeetingIdChange(number) ==
    [page EXCEPT !.number = number, !.lookup = NoProbe, !.pass = NoPass]

TypeNumber(number) ==
    /\ FormShown /\ page.number # number
    /\ page' = handleMeetingIdChange(number)
    /\ UNCHANGED <<task, shared, list>>

(* The chevron, or the arrow down on a closed list. *)
OpenList(first) ==
    /\ FormShown /\ cached # <<>> /\ ~open
    /\ open' = TRUE /\ active' = first
    /\ UNCHANGED <<page, task, shared, cached>>

(* Arrows and the pointer. *)
Move ==
    /\ FormShown /\ open
    /\ active' \in 0..(Len(cached) - 1)
    /\ UNCHANGED <<page, task, shared, cached, open>>

(* Enter or the pointer on the highlighted number. *)
Choose ==
    /\ FormShown /\ open /\ active + 1 \in 1..Len(cached)
    /\ page' = handleMeetingIdChange(cached[active + 1])
    /\ CloseList
    /\ UNCHANGED <<task, shared, cached>>

Dismiss ==
    /\ FormShown /\ open
    /\ CloseList
    /\ UNCHANGED <<page, task, shared, cached>>

(* The field of the form, and that of the invite page, which a token in the  *)
(* link replaces.                                                              *)
needsPasscode == page.lookup.locked /\ ~page.invite

TypePasscode(right) ==
    /\ FormShown \/ LinkForm
    /\ needsPasscode
    /\ page' = [page EXCEPT !.pass = [of |-> page.number, right |-> right]]
    /\ UNCHANGED <<task, shared, list>>

Busy == [page EXCEPT !.phase = "busy"]

(* What a task does to the page, if it is still there. *)
Here(t, p) == page' = IF t.live THEN p ELSE page

End(i) == task' = [task EXCEPT ![i] = Idle]

Identified == IF token THEN "join" ELSE "guest"

(* submit with what a lookup has said: over, a passcode is wanted, or go on. *)
Settled(probe, pass) == probe.over \/ (probe.locked /\ pass = NoPass)

Sent(probe, pass) == IF probe.locked THEN pass ELSE NoPass

(* submit up to its first await; what an earlier lookup has said is used     *)
(* again, and if that settles it nothing changes.  The list goes with the     *)
(* form.                                                                      *)
SubmitForm(i) ==
    /\ FormShown /\ page.number # NoNumber
    /\ IF page.lookup = NoProbe
       THEN /\ Free(i) /\ page' = Busy
            /\ Begin(i, "lookup", page.number, page.pass)
       ELSE /\ ~Settled(page.lookup, page.pass) /\ Free(i) /\ page' = Busy
            /\ Begin(i, Identified, page.number, Sent(page.lookup, page.pass))
    /\ CloseList
    /\ UNCHANGED <<shared, cached>>

Form(p) == [p EXCEPT !.phase = "form"]

Answer(n) == [number |-> n, locked |-> n \in Locked, over |-> n \in over]

LookupAnswered(i) ==
    LET t == task[i]
        probe == Answer(t.number)
    IN  /\ t.step = "lookup" /\ t.number \in Held
        /\ IF Settled(probe, t.pass)
           THEN Here(t, [Form(page) EXCEPT !.lookup = probe]) /\ End(i)
           ELSE /\ task' = [task EXCEPT ![i].step = Identified,
                                        ![i].pass = Sent(probe, t.pass)]
                /\ UNCHANGED page
        /\ UNCHANGED <<shared, list>>

-----------------------------------------------------------------------------
(* The invite page *)

ProbeAnswered(i) ==
    /\ task[i].step = "probe"
    /\ page' = IF task[i].number \in Held \ over
               THEN [Form(page) EXCEPT !.lookup = Answer(task[i].number)]
               ELSE [page EXCEPT !.phase = "fatal"]
    /\ End(i)
    /\ UNCHANGED <<shared, list>>

(* handleJoin up to its first await, with a name that will do. *)
SubmitLink(i) ==
    /\ LinkForm /\ Free(i)
    /\ needsPasscode => page.pass # NoPass
    /\ page' = Busy
    /\ Begin(i, Identified, page.number, page.pass)
    /\ UNCHANGED <<shared, list>>

-----------------------------------------------------------------------------
(* What both lead to *)

(* The catch of submit and of handleJoin: the form again, or on the invite   *)
(* page a card for what typing cannot mend.                                   *)
StaysBusy(t) == page
Fails(t) == IF t.kind = "link" THEN [page EXCEPT !.phase = "fatal"] ELSE Form(page)

(* A request that is refused, fails or times out (request). *)
RequestFailed(i) ==
    LET t == task[i]
    IN  /\ t.step # "idle"
        /\ \/ t.step = "probe" /\ page' = [page EXCEPT !.phase = "fatal"]
           \/ t.step = "lookup" /\ Here(t, Form(page))
           \/ t.step \in {"guest", "join"} /\ Here(t, Form(page))
           \/ t.step \in {"guest", "join"} /\ Here(t, Fails(t))
        /\ End(i)
        /\ UNCHANGED <<shared, list>>

(* signInAsGuest has answered and is stored. *)
GuestAnswered(i) ==
    /\ task[i].step = "guest"
    /\ token' = TRUE
    /\ task' = [task EXCEPT ![i].step = "join"]
    /\ UNCHANGED <<page, over, recents, told, list>>

(* The token of a link may be wrong; the host of a meeting needs neither it  *)
(* nor a passcode.                                                            *)
Vouched(t) == t.number \in Locked => t.pass.right

KeepsAll(r, n) == <<n>> \o r

Prepends(r, n) ==
    LET next == <<n>> \o r
    IN  SubSeq(next, 1, IF Len(next) < MaxRecent THEN Len(next) ELSE MaxRecent)

(* The places of what filter keeps, and the list of it in the same order. *)
Kept(r, n) == {i \in DOMAIN r : r[i] # n}

Without(r, n) ==
    LET place == CHOOSE f \in [1..Cardinality(Kept(r, n)) -> Kept(r, n)] :
                    \A a, b \in DOMAIN f : a < b => f[a] < f[b]
    IN  [a \in DOMAIN place |-> r[place[a]]]

Remember(r, n) ==
    LET next == <<n>> \o Without(r, n)
    IN  SubSeq(next, 1, IF Len(next) < MaxRecent THEN Len(next) ELSE MaxRecent)

JoinAnswered(i) ==
    /\ task[i].step = "join" /\ task[i].number \in Held \ over
    /\ recents' = Remember(recents, task[i].number)
    /\ cached' = recents'
    /\ page' = Page("room", NoNumber, FALSE, "form")
    /\ task' = [Orphaned EXCEPT ![i] = Idle]
    /\ CloseList
    /\ UNCHANGED <<token, over, told>>

(* INVALID_PASSCODE keeps the form; a meeting that is over is a card on the  *)
(* invite page.                                                                *)
JoinRefused(i) ==
    LET t == task[i]
    IN  /\ t.step = "join"
        /\ \/ t.number \in Held \ over /\ ~Vouched(t) /\ Here(t, Form(page))
           \/ t.number \notin Held \ over /\ Here(t, Fails(t))
        /\ End(i)
        /\ UNCHANGED <<shared, list>>

-----------------------------------------------------------------------------
(* Elsewhere: other tabs of the browser, the meetings *)

(* A join in another tab. *)
OtherTabJoins(number) ==
    /\ number \in Held \ over
    /\ recents' = Remember(recents, number)
    /\ token' = TRUE
    /\ told' = (told \/ recents' # recents)
    /\ UNCHANGED <<page, task, over, list>>

(* onStorage, while the form is there: the cached list is dropped, and read   *)
(* anew by the render.                                                         *)
StorageEvent ==
    /\ told /\ told' = FALSE
    /\ cached' = IF page.kind = "join" THEN recents ELSE cached
    /\ UNCHANGED <<page, task, token, over, recents, open, active>>

OtherTabSigns ==
    /\ token' = ~token
    /\ UNCHANGED <<page, task, over, recents, told, list>>

MeetingEnds(number) ==
    /\ number \in Held \ over /\ over' = over \union {number}
    /\ UNCHANGED <<page, task, token, recents, told, list>>

MeetingStarts(number) ==
    /\ number \in over /\ over' = over \ {number}
    /\ UNCHANGED <<page, task, token, recents, told, list>>

Answered(i) ==
    LookupAnswered(i) \/ ProbeAnswered(i) \/ GuestAnswered(i) \/ JoinAnswered(i)
    \/ JoinRefused(i) \/ RequestFailed(i)

Next ==
    \/ OpenJoin \/ GoAway \/ Move \/ Choose \/ Dismiss \/ StorageEvent
    \/ OpenList(-1) \/ OpenList(0)
    \/ \E number \in Numbers : \/ TypeNumber(number) \/ OtherTabJoins(number)
                               \/ MeetingEnds(number) \/ MeetingStarts(number)
                               \/ \E invite \in BOOLEAN : OpenLink(number, invite)
    \/ TypeNumber(NoNumber)
    \/ \E right \in BOOLEAN : TypePasscode(right)
    \/ \E i \in Tasks : SubmitForm(i) \/ SubmitLink(i) \/ Answered(i)
    \/ OtherTabSigns

Spec == Init /\ [][Next]_vars

(* A request ends: with an answer or, after DEFAULT_TIMEOUT_MS, without. *)
FairSpec == Spec /\ \A i \in Tasks : WF_vars(Answered(i))

-----------------------------------------------------------------------------
(* Properties *)

(* What the page knows and what a submission sends is of the meeting it names: *)
(* no lookup and no passcode of one number is used for another, whatever was    *)
(* typed, chosen and answered in between (handleMeetingIdChange, submit).       *)
OfThisMeeting ==
    /\ page.lookup # NoProbe => page.lookup.number = page.number
    /\ page.pass # NoPass => page.pass.of = page.number
    /\ \A i \in Tasks : task[i].pass # NoPass => task[i].pass.of = task[i].number

(* The stored list and the one on offer hold no number twice, no more than    *)
(* MAX_RECENT, and only numbers some meeting has, however the joins of several *)
(* tabs interleave (rememberMeetingId, which reads the list again); and the     *)
(* highlight is on an entry of the list, though that may be replaced under it.  *)
Sound(r) ==
    /\ Len(r) <= MaxRecent /\ ToSet(r) \subseteq Held
    /\ \A a, b \in DOMAIN r : r[a] = r[b] => a = b

RecentsSound ==
    /\ Sound(recents)
    /\ cached = NotCached \/ Sound(cached)
    /\ open => cached # NotCached /\ active < Len(cached)

(* The spinner goes: every submission and every lookup of a page that stays   *)
(* ends in a form, a card or the room (the catch of submit and handleJoin).    *)
Settles == []<>(page.phase \notin {"busy", "probing"})
=============================================================================
