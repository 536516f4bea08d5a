---------------------------- MODULE EntryProofs ----------------------------
(***************************************************************************)
(* Proofs about Entry, for any numbers, meetings, tasks and MAX_RECENT:    *)
(* what a page of the two ways into a meeting knows, and what it sends, is *)
(* of the meeting it names; every state has its type; and the lists of     *)
(* recent numbers, the stored one and the one on offer, stay sound.        *)
(*                                                                         *)
(* The first part does not need to know what the lists offer.  The second  *)
(* proves what the filter of rememberMeetingId keeps, for which it shows   *)
(* that the places of a list can be put in order, however many they are.   *)
(***************************************************************************)
EXTENDS Entry, FiniteSetTheorems, TLAPS

-----------------------------------------------------------------------------
(* The inductive invariant *)

PageOf(p) == [kind |-> p.kind, number |-> p.number, invite |-> p.invite,
              phase |-> p.phase, lookup |-> p.lookup, pass |-> p.pass]

TaskOf(t) == [step |-> t.step, kind |-> t.kind, number |-> t.number, pass |-> t.pass,
              invite |-> t.invite, live |-> t.live]

(* Pages and tasks are records. *)
Shape ==
    /\ page = PageOf(page)
    /\ task = [i \in Tasks |-> task[i]]
    /\ \A i \in Tasks : task[i] = TaskOf(task[i])

Live(t) == t.live /\ t.step # "idle"

(* A page waits for its one task, which is of the number it shows. *)
Waits(t) ==
    /\ t.number = page.number
    /\ IF t.step = "probe" THEN page.phase = "probing" ELSE page.phase = "busy"

KnowsItself(p) ==
    /\ p.lookup # NoProbe => p.lookup.number = p.number
    /\ p.pass # NoPass => p.pass.of = p.number

SendsItsOwn(t) ==
    /\ t.pass # NoPass => t.pass.of = t.number
    /\ t.step = "probe" => t.live

Alone == \A i, j \in Tasks : Live(task[i]) /\ Live(task[j]) => i = j

Inv ==
    /\ Shape /\ Alone /\ KnowsItself(page)
    /\ \A i \in Tasks : SendsItsOwn(task[i])
    /\ \A i \in Tasks : Live(task[i]) => Waits(task[i])

-----------------------------------------------------------------------------
(* Records *)

LEMMA PhaseIs ==
    ASSUME NEW p, p = PageOf(p), NEW phase, NEW q, q = [p EXCEPT !.phase = phase]
    PROVE  /\ q = PageOf(q) /\ q.phase = phase /\ q.number = p.number /\ q.kind = p.kind
           /\ q.lookup = p.lookup /\ q.pass = p.pass
BY DEF PageOf

LEMMA LookupIs ==
    ASSUME NEW p, p = PageOf(p), NEW probe, NEW q, q = [p EXCEPT !.lookup = probe]
    PROVE  /\ q = PageOf(q) /\ q.phase = p.phase /\ q.number = p.number /\ q.kind = p.kind
           /\ q.lookup = probe /\ q.pass = p.pass
BY DEF PageOf

LEMMA PassIs ==
    ASSUME NEW p, p = PageOf(p), NEW pass, NEW q, q = [p EXCEPT !.pass = pass]
    PROVE  /\ q = PageOf(q) /\ q.phase = p.phase /\ q.number = p.number
           /\ q.lookup = p.lookup /\ q.pass = pass
BY DEF PageOf

LEMMA NumberIs ==
    ASSUME Shape, NEW number, NEW q, q = handleMeetingIdChange(number)
    PROVE  q = PageOf(q) /\ q.number = number /\ q.lookup = NoProbe /\ q.pass = NoPass
<1>1. page = PageOf(page)
  BY DEF Shape
<1> QED BY <1>1 DEF handleMeetingIdChange, PageOf

LEMMA IdleIs == Idle = TaskOf(Idle) /\ ~Live(Idle) /\ SendsItsOwn(Idle)
BY DEF Idle, TaskOf, Live, SendsItsOwn

LEMMA OrphanedIs ==
    ASSUME Inv
    PROVE  /\ Orphaned = [i \in Tasks |-> Orphaned[i]]
           /\ \A i \in Tasks : /\ Orphaned[i] = TaskOf(Orphaned[i])
                               /\ ~Live(Orphaned[i]) /\ SendsItsOwn(Orphaned[i])
<1>1. Orphaned = [i \in Tasks |-> Orphaned[i]]
  BY DEF Orphaned
<1>2. ASSUME NEW i \in Tasks
      PROVE  /\ Orphaned[i] = TaskOf(Orphaned[i])
             /\ ~Live(Orphaned[i]) /\ SendsItsOwn(Orphaned[i])
  <2>1. CASE task[i].step = "probe"
    <3>1. Orphaned[i] = Idle
      BY <2>1 DEF Orphaned
    <3> QED BY <3>1, IdleIs
  <2>2. CASE task[i].step # "probe"
    <3>1. Orphaned[i] = [task[i] EXCEPT !.live = FALSE]
      BY <2>2 DEF Orphaned
    <3>2. task[i] = TaskOf(task[i]) /\ SendsItsOwn(task[i])
      BY DEF Inv, Shape
    <3>3. ASSUME NEW t, t = TaskOf(t), SendsItsOwn(t), t.step # "probe",
                 NEW q, q = [t EXCEPT !.live = FALSE]
          PROVE  q = TaskOf(q) /\ ~Live(q) /\ SendsItsOwn(q)
      BY <3>3 DEF TaskOf, Live, SendsItsOwn
    <3> QED BY <2>2, <3>1, <3>2, <3>3
  <2> QED BY <2>1, <2>2
<1> QED BY <1>1, <1>2

-----------------------------------------------------------------------------
(* Kinds of steps *)

(* A page that knows nothing yet, and only orphaned tasks. *)
LEMMA FreshKeeps ==
    ASSUME Inv, page' = PageOf(page'), page'.lookup = NoProbe, page'.pass = NoPass,
           task' = [i \in Tasks |-> task'[i]],
           \A i \in Tasks : /\ task'[i] = TaskOf(task'[i]) /\ SendsItsOwn(task'[i])
                            /\ ~Live(task'[i])
    PROVE  Inv'
<1>1. Shape'
  BY DEF Shape, PageOf, TaskOf
<1>2. Alone' /\ KnowsItself(page)'
  BY DEF Alone, KnowsItself, Live
<1>3. \A i \in Tasks : SendsItsOwn(task[i])' /\ ~Live(task[i])'
  BY DEF SendsItsOwn, Live
<1> QED BY <1>1, <1>2, <1>3 DEF Inv

(* The page, while it waits for nothing, changes; the tasks do not. *)
LEMMA FormKeeps ==
    ASSUME Inv, page.phase = "form", page' = PageOf(page'), KnowsItself(page)', task' = task
    PROVE  Inv'
<1>1. \A i \in Tasks : ~Live(task[i])
  BY DEF Inv, Waits
<1>2. Shape' /\ Alone' /\ \A i \in Tasks : SendsItsOwn(task[i])' /\ ~Live(task[i])'
  BY <1>1 DEF Inv, Shape, Alone, SendsItsOwn, Live, PageOf, TaskOf
<1> QED BY <1>2 DEF Inv

(* A task ends, and if it is the page's then the page goes on. *)
LEMMA EndKeeps ==
    ASSUME Inv, NEW i \in Tasks, End(i), task[i].step # "idle",
           page' = PageOf(page'), page'.number = page.number, page'.pass = page.pass,
           page'.lookup = page.lookup \/ page'.lookup.number = page.number,
           task[i].live \/ page' = page
    PROVE  Inv'
<1>1. /\ task' = [k \in Tasks |-> task'[k]] /\ task'[i] = Idle
      /\ \A k \in Tasks : k # i => task'[k] = task[k]
  <2>1. task = [k \in Tasks |-> task[k]]
    BY DEF Inv, Shape
  <2>2. task' = [task EXCEPT ![i] = Idle]
    BY DEF End
  <2> QED BY <2>1, <2>2
<1>2. Shape'
  <2>1. \A k \in Tasks : task'[k] = TaskOf(task'[k])
    BY <1>1, IdleIs DEF Inv, Shape
  <2> QED BY <1>1, <2>1 DEF Shape, PageOf, TaskOf
<1>3. KnowsItself(page)'
  BY DEF Inv, KnowsItself
<1>4. ASSUME NEW k \in Tasks
      PROVE  /\ SendsItsOwn(task[k])'
             /\ Live(task[k])' => k # i /\ Live(task[k]) /\ Waits(task[k])'
  <2>1. CASE k = i
    BY <1>1, <2>1, IdleIs DEF SendsItsOwn, Live
  <2>2. CASE k # i
    <3>1. SendsItsOwn(task[k])' /\ (Live(task[k])' => Live(task[k]))
      BY <1>1, <2>2 DEF Inv, SendsItsOwn, Live
    <3>2. ASSUME Live(task[k]) PROVE Waits(task[k])'
      <4>1. ~task[i].live
        BY <2>2, <3>2 DEF Inv, Alone, Live
      <4> QED BY <1>1, <2>2, <3>2, <4>1 DEF Inv, Waits
    <3> QED BY <2>2, <3>1, <3>2
  <2> QED BY <2>1, <2>2
<1>5. Alone'
  BY <1>4 DEF Inv, Alone, Live
<1> QED BY <1>2, <1>3, <1>4, <1>5 DEF Inv

(* A task goes on to its next request. *)
LEMMA StepKeeps ==
    ASSUME Inv, NEW i \in Tasks, task[i].step \notin {"idle", "probe"}, UNCHANGED page,
           NEW step \in {"guest", "join"}, NEW pass \in {NoPass, task[i].pass},
           task' = [task EXCEPT ![i] = [task[i] EXCEPT !.step = step, !.pass = pass]]
    PROVE  Inv'
<1> DEFINE next == [task[i] EXCEPT !.step = step, !.pass = pass]
<1>1. task[i] = TaskOf(task[i]) /\ SendsItsOwn(task[i])
  BY DEF Inv, Shape
<1>2. /\ next = TaskOf(next) /\ next.step = step /\ next.pass = pass
      /\ next.number = task[i].number /\ next.live = task[i].live
  <2>1. ASSUME NEW t, t = TaskOf(t), NEW q, q = [t EXCEPT !.step = step, !.pass = pass]
        PROVE  /\ q = TaskOf(q) /\ q.step = step /\ q.pass = pass
               /\ q.number = t.number /\ q.live = t.live
    BY <2>1 DEF TaskOf
  <2> QED BY <1>1, <2>1
<1>3. task' = [task EXCEPT ![i] = next]
  OBVIOUS
<1> HIDE DEF next
<1>4. /\ task' = [k \in Tasks |-> task'[k]] /\ task'[i] = next
      /\ \A k \in Tasks : k # i => task'[k] = task[k]
  <2>1. task = [k \in Tasks |-> task[k]]
    BY DEF Inv, Shape
  <2> QED BY <1>3, <2>1
<1>5. Shape'
  <2>1. \A k \in Tasks : task'[k] = TaskOf(task'[k])
    BY <1>2, <1>4 DEF Inv, Shape
  <2> QED BY <1>4, <2>1 DEF Inv, Shape, PageOf, TaskOf
<1>6. SendsItsOwn(next) /\ (Live(next) <=> Live(task[i]))
  BY <1>1, <1>2 DEF SendsItsOwn, Live
<1>7. ASSUME NEW k \in Tasks
      PROVE  /\ SendsItsOwn(task[k])' /\ (Live(task[k])' => Live(task[k]))
             /\ Live(task[k])' => Waits(task[k])'
  <2>1. CASE k = i
    BY <1>2, <1>4, <1>6, <2>1 DEF Inv, SendsItsOwn, Live, Waits
  <2>2. CASE k # i
    BY <1>4, <2>2 DEF Inv, SendsItsOwn, Live, Waits
  <2> QED BY <2>1, <2>2
<1>8. Alone' /\ KnowsItself(page)'
  BY <1>7 DEF Inv, Alone, KnowsItself, Live
<1> QED BY <1>5, <1>7, <1>8 DEF Inv

(* A submission: the page waits for the one task it begins. *)
LEMMA BeginKeeps ==
    ASSUME Inv, NEW i \in Tasks, page.phase = "form", page' = Busy,
           NEW step \in {"lookup", "guest", "join"},
           NEW pass \in {NoPass, page.pass}, Begin(i, step, page.number, pass)
    PROVE  Inv'
<1> DEFINE new == [step |-> step, kind |-> page.kind, number |-> page.number,
                   pass |-> pass, invite |-> page.invite, live |-> TRUE]
<1>1. task' = [task EXCEPT ![i] = new]
  BY DEF Begin
<1>2. new = TaskOf(new) /\ new.step = step /\ new.number = page.number /\ new.pass = pass
  BY DEF TaskOf
<1> HIDE DEF new
<1>3. /\ task' = [k \in Tasks |-> task'[k]] /\ task'[i] = new
      /\ \A k \in Tasks : k # i => task'[k] = task[k]
  <2>1. task = [k \in Tasks |-> task[k]]
    BY DEF Inv, Shape
  <2> QED BY <1>1, <2>1
<1>4. /\ page' = PageOf(page') /\ page'.phase = "busy" /\ page'.number = page.number
      /\ page'.lookup = page.lookup /\ page'.pass = page.pass
  BY PhaseIs DEF Inv, Shape, Busy
<1>5. Shape'
  <2>1. \A k \in Tasks : task'[k] = TaskOf(task'[k])
    BY <1>2, <1>3 DEF Inv, Shape
  <2> QED BY <1>3, <1>4, <2>1 DEF Shape, PageOf, TaskOf
<1>6. \A k \in Tasks : ~Live(task[k])
  BY DEF Inv, Waits
<1>7. SendsItsOwn(new)
  BY <1>2 DEF Inv, KnowsItself, SendsItsOwn
<1>8. ASSUME NEW k \in Tasks
      PROVE  SendsItsOwn(task[k])' /\ (Live(task[k])' => k = i /\ Waits(task[k])')
  <2>1. CASE k = i
    BY <1>2, <1>3, <1>4, <1>7, <2>1 DEF SendsItsOwn, Waits
  <2>2. CASE k # i
    BY <1>3, <1>6, <2>2 DEF Inv, SendsItsOwn, Live
  <2> QED BY <2>1, <2>2
<1>9. Alone' /\ KnowsItself(page)'
  BY <1>4, <1>8 DEF Inv, Alone, KnowsItself, Live
<1> QED BY <1>5, <1>8, <1>9 DEF Inv

-----------------------------------------------------------------------------
(* The actions *)

LEMMA OpenKeeps ==
    ASSUME Inv, OpenJoin \/ GoAway \/ \E i \in Tasks : JoinAnswered(i)
    PROVE  Inv'
<1>1. \E kind \in {"join", "away", "room"} : page' = Page(kind, NoNumber, FALSE, "form")
  BY DEF OpenJoin, GoAway, JoinAnswered, Away
<1>2. page' = PageOf(page') /\ page'.lookup = NoProbe /\ page'.pass = NoPass
  BY <1>1 DEF Page, PageOf
<1>3. CASE task' = Orphaned
  BY <1>2, <1>3, OrphanedIs, FreshKeeps
<1>4. ASSUME NEW i \in Tasks, task' = [Orphaned EXCEPT ![i] = Idle] PROVE Inv'
  <2>1. Orphaned = [k \in Tasks |-> Orphaned[k]]
    BY OrphanedIs
  <2>2. /\ task' = [k \in Tasks |-> task'[k]]
        /\ \A k \in Tasks : task'[k] = Idle \/ task'[k] = Orphaned[k]
    BY <1>4, <2>1
  <2>3. \A k \in Tasks : /\ task'[k] = TaskOf(task'[k]) /\ SendsItsOwn(task'[k])
                         /\ ~Live(task'[k])
    BY <2>2, IdleIs, OrphanedIs
  <2> QED BY <1>2, <2>2, <2>3, FreshKeeps
<1> QED BY <1>3, <1>4 DEF OpenJoin, GoAway, JoinAnswered

(* A new document, whose one task is the lookup of the link's number. *)
LEMMA LinkKeeps ==
    ASSUME Inv, NEW number, NEW invite, OpenLink(number, invite)
    PROVE  Inv'
<1> DEFINE probe == [step |-> "probe", kind |-> "link", number |-> number,
                     pass |-> NoPass, invite |-> invite, live |-> TRUE]
<1>1. page' = Page("link", number, invite, "probing")
      /\ task' = [i \in Tasks |-> IF i = 1 THEN probe ELSE Idle]
  BY DEF OpenLink
<1>2. /\ page' = PageOf(page') /\ page'.number = number /\ page'.phase = "probing"
      /\ page'.lookup = NoProbe /\ page'.pass = NoPass
  BY <1>1 DEF Page, PageOf
<1>3. probe = TaskOf(probe) /\ SendsItsOwn(probe) /\ probe.step = "probe"
      /\ probe.number = number
  BY DEF TaskOf, SendsItsOwn
<1> HIDE DEF probe
<1>4. /\ task' = [i \in Tasks |-> task'[i]]
      /\ \A i \in Tasks : task'[i] = IF i = 1 THEN probe ELSE Idle
  BY <1>1
<1>5. Shape'
  <2>1. \A i \in Tasks : task'[i] = TaskOf(task'[i])
    BY <1>3, <1>4, IdleIs
  <2> QED BY <1>2, <1>4, <2>1 DEF Shape, PageOf, TaskOf
<1>6. ASSUME NEW i \in Tasks
      PROVE  SendsItsOwn(task[i])' /\ (Live(task[i])' => i = 1 /\ Waits(task[i])')
  <2>1. CASE i = 1
    BY <1>2, <1>3, <1>4, <2>1 DEF SendsItsOwn, Live, Waits
  <2>2. CASE i # 1
    BY <1>4, <2>2, IdleIs DEF SendsItsOwn, Live
  <2> QED BY <2>1, <2>2
<1>7. Alone' /\ KnowsItself(page)'
  BY <1>2, <1>6 DEF Alone, KnowsItself, Live
<1> QED BY <1>5, <1>6, <1>7 DEF Inv

(* Whatever is typed or chosen, and what the passcode field takes. *)
LEMMA EditKeeps ==
    ASSUME Inv,
           \/ Choose
           \/ \E number \in Numbers \union {NoNumber} : TypeNumber(number)
           \/ \E right \in BOOLEAN : TypePasscode(right)
    PROVE  Inv'
<1>1. ASSUME NEW number, FormShown, page' = handleMeetingIdChange(number), task' = task
      PROVE  Inv'
  <2>1. /\ page' = PageOf(page') /\ page'.number = number
        /\ page'.lookup = NoProbe /\ page'.pass = NoPass
    BY <1>1, NumberIs DEF Inv
  <2>2. KnowsItself(page)'
    BY <2>1 DEF KnowsItself
  <2> QED BY <1>1, <2>1, <2>2, FormKeeps DEF FormShown, Shows
<1>2. ASSUME NEW right \in BOOLEAN, TypePasscode(right) PROVE Inv'
  <2> DEFINE pass == [of |-> page.number, right |-> right]
  <2>1. page' = [page EXCEPT !.pass = pass] /\ page = PageOf(page) /\ task' = task
        /\ page.phase = "form" /\ pass.of = page.number
    BY <1>2 DEF TypePasscode, Inv, Shape, FormShown, LinkForm, Shows
  <2> HIDE DEF pass
  <2>2. /\ page' = PageOf(page') /\ page'.number = page.number
        /\ page'.lookup = page.lookup /\ page'.pass = pass
    BY <2>1, PassIs
  <2>3. KnowsItself(page)'
    BY <2>1, <2>2 DEF Inv, KnowsItself
  <2> QED BY <2>1, <2>2, <2>3, FormKeeps
<1>3. CASE Choose
  BY <1>1, <1>3 DEF Choose
<1>4. CASE \E number \in Numbers \union {NoNumber} : TypeNumber(number)
  BY <1>1, <1>4 DEF TypeNumber
<1> QED BY <1>2, <1>3, <1>4

LEMMA SubmitKeeps ==
    ASSUME Inv, NEW i \in Tasks, SubmitForm(i) \/ SubmitLink(i)
    PROVE  Inv'
<1>1. page.phase = "form" /\ page' = Busy
  BY DEF SubmitForm, SubmitLink, FormShown, LinkForm, Shows
<1>2. \E step \in {"lookup", "guest", "join"} : \E pass \in {NoPass, page.pass} :
         Begin(i, step, page.number, pass)
  <2>1. CASE SubmitForm(i)
    BY <2>1 DEF SubmitForm, Identified, Sent
  <2>2. CASE SubmitLink(i)
    BY <2>2 DEF SubmitLink, Identified
  <2> QED BY <2>1, <2>2
<1> QED BY <1>1, <1>2, BeginKeeps

LEMMA ContinueKeeps ==
    ASSUME Inv, NEW i \in Tasks,
           \/ GuestAnswered(i)
           \/ LookupAnswered(i) /\ UNCHANGED page
              /\ task' = [task EXCEPT ![i].step = Identified,
                                      ![i].pass = Sent(Answer(task[i].number), task[i].pass)]
    PROVE  Inv'
<1>1. task = [k \in Tasks |-> task[k]] /\ task[i] = TaskOf(task[i])
  BY DEF Inv, Shape
<1>2. CASE GuestAnswered(i)
  <2>1. /\ task' = [task EXCEPT ![i].step = "join"] /\ page' = page
        /\ task[i].step = "guest"
    BY <1>2 DEF GuestAnswered
  <2>2. ASSUME NEW t, t = TaskOf(t)
        PROVE  [t EXCEPT !.step = "join"] = [t EXCEPT !.step = "join", !.pass = t.pass]
    BY <2>2 DEF TaskOf
  <2>3. [task[i] EXCEPT !.step = "join"]
        = [task[i] EXCEPT !.step = "join", !.pass = task[i].pass]
    BY <1>1, <2>2
  <2>4. task' = [task EXCEPT ![i] = [task[i] EXCEPT !.step = "join", !.pass = task[i].pass]]
    BY <1>1, <2>1, <2>3
  <2> QED BY <2>1, <2>4, StepKeeps
<1>3. CASE LookupAnswered(i) /\ UNCHANGED page
           /\ task' = [task EXCEPT ![i].step = Identified,
                                   ![i].pass = Sent(Answer(task[i].number), task[i].pass)]
  <2>1. task[i].step = "lookup"
    BY <1>3 DEF LookupAnswered
  <2>2. Identified \in {"guest", "join"}
        /\ Sent(Answer(task[i].number), task[i].pass) \in {NoPass, task[i].pass}
    BY DEF Identified, Sent
  <2>3. task' = [task EXCEPT ![i] =
                   [task[i] EXCEPT !.step = Identified,
                                   !.pass = Sent(Answer(task[i].number), task[i].pass)]]
    BY <1>1, <1>3
  <2> QED BY <1>3, <2>1, <2>2, <2>3, StepKeeps
<1> QED BY <1>2, <1>3

LEMMA LookupIsOf == ASSUME NEW n PROVE Answer(n).number = n
BY DEF Answer

LEMMA FailsIs ==
    ASSUME Inv, NEW t, NEW p, p = Fails(t) \/ p = Form(page) \/ p = [page EXCEPT !.phase = "fatal"]
    PROVE  p = PageOf(p) /\ p.number = page.number /\ p.pass = page.pass /\ p.lookup = page.lookup
<1>1. page = PageOf(page)
  BY DEF Inv, Shape
<1>2. p = [page EXCEPT !.phase = "fatal"] \/ p = [page EXCEPT !.phase = "form"]
  BY DEF Fails, Form
<1> QED BY <1>1, <1>2, PhaseIs

(* A task that ends on an answer or a failure. *)
LEMMA AnswerKeeps ==
    ASSUME Inv, NEW i \in Tasks,
           \/ ProbeAnswered(i) \/ JoinRefused(i) \/ RequestFailed(i)
           \/ LookupAnswered(i) /\ End(i)
              /\ Here(task[i], [Form(page) EXCEPT !.lookup = Answer(task[i].number)])
    PROVE  Inv'
<1> DEFINE t == task[i]
<1> DEFINE found == [Form(page) EXCEPT !.lookup = Answer(t.number)]
<1>1. page = PageOf(page) /\ (Live(t) => t.number = page.number)
  BY DEF Inv, Shape, Waits
<1>2. /\ found = PageOf(found) /\ found.number = page.number /\ found.pass = page.pass
      /\ found.lookup.number = t.number
  <2>1. Form(page) = PageOf(Form(page)) /\ Form(page).number = page.number
        /\ Form(page).pass = page.pass
    BY <1>1, PhaseIs DEF Form
  <2>2. /\ found = PageOf(found) /\ found.number = Form(page).number
        /\ found.pass = Form(page).pass /\ found.lookup = Answer(t.number)
    BY <2>1, LookupIs
  <2> QED BY <2>1, <2>2, LookupIsOf
<1>3. t.step # "idle" /\ End(i)
  BY DEF ProbeAnswered, JoinRefused, RequestFailed, LookupAnswered
<1>4. t.live \/ page' = page
  <2>1. CASE t.step = "probe"
    BY <2>1 DEF Inv, SendsItsOwn
  <2>2. CASE t.step # "probe"
    BY <2>2 DEF ProbeAnswered, JoinRefused, RequestFailed, LookupAnswered, Here
  <2> QED BY <2>1, <2>2
<1>5. \/ page' = page \/ page' = found
      \/ page' \in {Fails(t), Form(page), [page EXCEPT !.phase = "fatal"]}
  BY DEF ProbeAnswered, JoinRefused, RequestFailed, LookupAnswered, Here
<1>6. t.live => t.number = page.number
  BY <1>1, <1>3 DEF Live
<1> HIDE DEF found
<1>7. /\ page' = page \/ page' = PageOf(page')
      /\ page'.number = page.number /\ page'.pass = page.pass
      /\ page'.lookup = page.lookup \/ page'.lookup.number = t.number
  BY <1>2, <1>5, FailsIs
<1> QED BY <1>1, <1>3, <1>4, <1>6, <1>7, EndKeeps

-----------------------------------------------------------------------------
(* The theorems *)

LEMMA InitEstablishes == Init => Inv
<1> SUFFICES ASSUME Init PROVE Inv
  OBVIOUS
<1>1. page = PageOf(page) /\ page.lookup = NoProbe /\ page.pass = NoPass
  BY DEF Init, Away, Page, PageOf
<1>2. task = [i \in Tasks |-> task[i]] /\ \A i \in Tasks : task[i] = Idle
  BY DEF Init
<1> QED BY <1>1, <1>2, IdleIs DEF Inv, Shape, Alone, KnowsItself

LEMMA NextKeeps == Inv /\ [Next]_vars => Inv'
<1> SUFFICES ASSUME Inv, [Next]_vars PROVE Inv'
  OBVIOUS
<1>1. CASE UNCHANGED <<page, task>>
  BY <1>1 DEF Inv, Shape, Alone, KnowsItself, SendsItsOwn, Live, Waits, PageOf, TaskOf
<1>2. CASE UNCHANGED vars \/ Move \/ Dismiss \/ StorageEvent \/ OpenList(-1) \/ OpenList(0)
           \/ OtherTabSigns
  BY <1>1, <1>2 DEF vars, Move, Dismiss, StorageEvent, OpenList, OtherTabSigns
<1>3. ASSUME NEW number \in Numbers,
             OtherTabJoins(number) \/ MeetingEnds(number) \/ MeetingStarts(number)
      PROVE  Inv'
  BY <1>1, <1>3 DEF OtherTabJoins, MeetingEnds, MeetingStarts
<1>4. CASE OpenJoin \/ GoAway
  BY <1>4, OpenKeeps
<1>5. CASE Choose \/ TypeNumber(NoNumber) \/ \E right \in BOOLEAN : TypePasscode(right)
  BY <1>5, EditKeeps
<1>6. ASSUME NEW number \in Numbers,
             TypeNumber(number) \/ \E invite \in BOOLEAN : OpenLink(number, invite)
      PROVE  Inv'
  BY <1>6, EditKeeps, LinkKeeps
<1>7. ASSUME NEW i \in Tasks, SubmitForm(i) \/ SubmitLink(i) PROVE Inv'
  BY <1>7, SubmitKeeps
<1>8. ASSUME NEW i \in Tasks, Answered(i) PROVE Inv'
  <2>1. CASE LookupAnswered(i)
    BY <2>1, AnswerKeeps, ContinueKeeps DEF LookupAnswered
  <2>2. CASE ~LookupAnswered(i)
    BY <1>8, <2>2, AnswerKeeps, ContinueKeeps, OpenKeeps DEF Answered
  <2> QED BY <2>1, <2>2
<1> QED BY <1>2, <1>3, <1>4, <1>5, <1>6, <1>7, <1>8 DEF Next

(* The invariant that the next theorem follows from holds in every run: the page  *)
(* waits for at most one task, and that is of the number it shows.                  *)
THEOREM InvHolds == Spec => []Inv
<1> QED BY InitEstablishes, NextKeeps, PTL DEF Spec

(* What a page knows and what a submission sends is of the meeting it names, for  *)
(* any numbers typed, chosen and answered in any order.                             *)
THEOREM OfThisMeetingHolds == Spec => []OfThisMeeting
<1>1. Inv => OfThisMeeting
  BY DEF Inv, KnowsItself, SendsItsOwn, OfThisMeeting
<1> QED BY <1>1, InvHolds, PTL

-----------------------------------------------------------------------------
(* Lists of numbers *)

(* A set of natural numbers has a least one. *)
LEMMA LeastNumber ==
    ASSUME NEW T \in SUBSET Nat, T # {}
    PROVE  \E n \in T : \A m \in T : n <= m
<1>1. PICK n \in T : \A m \in T : <<m, n>> \notin OpToRel(<, Nat)
  BY WFMin, NatLessThanWellFounded, Zenon
<1>2. \A m \in T : ~(m < n)
  BY <1>1, Zenon DEF OpToRel
<1> QED BY <1>2

Increasing(f, n) == \A a, b \in 1..n : a < b => f[a] < f[b]

(* Any of the places 1..n can be put in order. *)
Enumerable(n) ==
    \A S \in SUBSET (1..n) :
        \E f \in [1..Cardinality(S) -> S] : Increasing(f, Cardinality(S))

(* One number more: it comes last. *)
LEMMA OneMore ==
    ASSUME NEW n \in Nat, Enumerable(n)
    PROVE  Enumerable(n + 1)
<1> SUFFICES ASSUME NEW S \in SUBSET (1..(n + 1))
             PROVE  \E f \in [1..Cardinality(S) -> S] : Increasing(f, Cardinality(S))
  BY DEF Enumerable
<1>1. CASE n + 1 \notin S
  <2>1. S \in SUBSET (1..n)
    BY <1>1
  <2> QED BY <2>1 DEF Enumerable
<1>2. CASE n + 1 \in S
  <2> DEFINE R == S \ {n + 1}
             k == Cardinality(R)
  <2>1. IsFiniteSet(1..(n + 1))
    BY FS_Interval
  <2>2. IsFiniteSet(S) /\ IsFiniteSet(R) /\ k \in Nat /\ Cardinality(S) \in Nat
    BY <2>1, FS_Subset, FS_CardinalityType
  <2>3. Cardinality(S) = k + 1
    BY <1>2, <2>2, FS_RemoveElement
  <2>4. R \in SUBSET (1..n)
    OBVIOUS
  <2>5. PICK g \in [1..k -> R] : Increasing(g, k)
    BY <2>4 DEF Enumerable
  <2> HIDE DEF R, k
  <2> DEFINE f == [a \in 1..(k + 1) |-> IF a = k + 1 THEN n + 1 ELSE g[a]]
  <2>6. \A a \in 1..(k + 1) : a # k + 1 => a \in 1..k
    BY <2>2
  <2>7. \A a \in 1..k : g[a] \in R
    BY <2>5
  <2>8. f \in [1..(k + 1) -> S]
    BY <1>2, <2>6, <2>7 DEF R
  <2>9. ASSUME NEW a \in 1..(k + 1), NEW b \in 1..(k + 1), a < b
        PROVE  f[a] < f[b]
    <3>0. a # k + 1
      BY <2>2, <2>9
    <3>1. a \in 1..k /\ f[a] = g[a] /\ g[a] \in 1..n
      BY <2>4, <2>6, <2>7, <3>0
    <3>2. CASE b = k + 1
      BY <3>1, <3>2
    <3>3. CASE b # k + 1
      BY <2>5, <2>6, <2>9, <3>1, <3>3 DEF Increasing
    <3> QED BY <3>2, <3>3
  <2>10. Increasing(f, k + 1)
    BY <2>9 DEF Increasing
  <2> HIDE DEF f
  <2> QED BY <2>3, <2>8, <2>10
<1> QED BY <1>1, <1>2

(* Any places of a list can be put in order: were there a number of places for *)
(* which this fails, there would be a least one.                                *)
LEMMA AllEnumerable == \A n \in Nat : Enumerable(n)
<1> DEFINE T == {n \in Nat : ~Enumerable(n)}
<1>1. ASSUME T # {} PROVE FALSE
  <2>1. PICK n \in T : \A m \in T : n <= m
    <3>1. T \in SUBSET Nat
      OBVIOUS
    <3> HIDE DEF T
    <3> QED BY <1>1, <3>1, LeastNumber
  <2>2. n \in Nat /\ ~Enumerable(n)
    BY <2>1
  <2>3. n # 0
    <3>1. Enumerable(0)
      <4> SUFFICES ASSUME NEW S \in SUBSET (1..0)
                   PROVE  \E f \in [1..Cardinality(S) -> S] : Increasing(f, Cardinality(S))
        BY DEF Enumerable
      <4>0. S = {}
        OBVIOUS
      <4>1. S = {} /\ Cardinality(S) = 0
        BY <4>0, FS_EmptySet
      <4>2. [a \in 1..0 |-> 0] \in [1..0 -> {}]
        OBVIOUS
      <4>3. Increasing([a \in 1..0 |-> 0], 0)
        BY DEF Increasing
      <4> QED BY <4>1, <4>2, <4>3
    <3> QED BY <2>2, <3>1
  <2>4. n - 1 \in Nat /\ Enumerable(n - 1)
    BY <2>1, <2>2, <2>3
  <2>5. Enumerable((n - 1) + 1)
    BY <2>4, OneMore
  <2> QED BY <2>2, <2>5
<1> QED BY <1>1

-----------------------------------------------------------------------------
(* The list without a number keeps the others, each as often as before. *)
LEMMA WithoutIs ==
    ASSUME NEW r \in Seq(Numbers), NEW n,
           \A a, b \in DOMAIN r : r[a] = r[b] => a = b
    PROVE  /\ Without(r, n) \in Seq(Numbers) /\ Len(Without(r, n)) \in Nat
           /\ Len(Without(r, n)) >= Len(r) - 1
           /\ \A a \in DOMAIN Without(r, n) :
                 Without(r, n)[a] # n /\ \E i \in DOMAIN r : Without(r, n)[a] = r[i]
           /\ \A a, b \in DOMAIN Without(r, n) : Without(r, n)[a] = Without(r, n)[b] => a = b
<1> DEFINE K == Kept(r, n)
           k == Cardinality(K)
           place == CHOOSE f \in [1..k -> K] : \A a, b \in DOMAIN f : a < b => f[a] < f[b]
           w == Without(r, n)
<1>1. /\ Len(r) \in Nat /\ DOMAIN r = 1..Len(r) /\ K \in SUBSET (1..Len(r))
      /\ \A i \in 1..Len(r) : r[i] \in Numbers
      /\ \A i \in K : r[i] # n
  BY DEF Kept
<1>2. IsFiniteSet(1..Len(r)) /\ Cardinality(1..Len(r)) = Len(r)
  <2>1. ASSUME NEW l \in Nat PROVE IsFiniteSet(1..l) /\ Cardinality(1..l) = l
    BY FS_Interval
  <2> QED BY <1>1, <2>1
<1>3. IsFiniteSet(K) /\ k \in Nat
  BY <1>1, <1>2, FS_Subset, FS_CardinalityType
<1>4. k >= Len(r) - 1
  <2>1. CASE K = 1..Len(r)
    BY <1>1, <1>2, <2>1
  <2>2. CASE K # 1..Len(r)
    <3>1. PICK i \in 1..Len(r) : i \notin K
      BY <1>1, <2>2
    <3>2. \A j \in 1..Len(r) : j \notin K => r[j] = n
      BY <1>1 DEF Kept
    <3>3. \A j \in 1..Len(r) : j \notin K => j = i
      BY <1>1, <3>1, <3>2
    <3>4. K = (1..Len(r)) \ {i}
      BY <1>1, <3>1, <3>3
    <3>5. Cardinality((1..Len(r)) \ {i}) = Len(r) - 1
      BY <1>2, FS_RemoveElement
    <3> QED BY <1>1, <3>4, <3>5
  <2> QED BY <2>1, <2>2
<1>5. \E f \in [1..k -> K] : \A a, b \in DOMAIN f : a < b => f[a] < f[b]
  <2>1. \E f \in [1..k -> K] : Increasing(f, k)
    BY <1>1, AllEnumerable DEF Enumerable
  <2> QED BY <2>1 DEF Increasing
<1> HIDE DEF K, k
<1>6. place \in [1..k -> K] /\ \A a, b \in 1..k : a < b => place[a] < place[b]
  BY <1>5
<1>7. w = [a \in 1..k |-> r[place[a]]]
  BY <1>6 DEF Without, K, k
<1> HIDE DEF place, w
<1>8. \A a \in 1..k : place[a] \in K /\ place[a] \in 1..Len(r)
  BY <1>1, <1>6
<1>9. /\ DOMAIN w = 1..k /\ w \in Seq(Numbers) /\ Len(w) = k
      /\ \A a \in 1..k : w[a] = r[place[a]]
  <2>1. \A a \in 1..k : r[place[a]] \in Numbers
    BY <1>1, <1>8
  <2>2. w \in [1..k -> Numbers]
    BY <1>7, <2>1
  <2> QED BY <1>3, <1>7, <2>2
<1>10. \A a \in 1..k : w[a] # n /\ \E i \in 1..Len(r) : w[a] = r[i]
  BY <1>1, <1>8, <1>9
<1>11. ASSUME NEW a \in 1..k, NEW b \in 1..k, w[a] = w[b] PROVE a = b
  <2>1. place[a] = place[b]
    BY <1>1, <1>8, <1>9, <1>11
  <2>2. ~(a < b) /\ ~(b < a)
    BY <1>1, <1>6, <1>8, <2>1
  <2> QED BY <1>3, <2>2
<1> QED BY <1>1, <1>3, <1>4, <1>9, <1>10, <1>11 DEF w

(* Remembering keeps a list sound, and makes it no shorter. *)
LEMMA RememberIs ==
    ASSUME NEW r \in Seq(Numbers), Sound(r), NEW n \in Held
    PROVE  /\ Remember(r, n) \in Seq(Numbers) /\ Sound(Remember(r, n))
           /\ Len(Remember(r, n)) \in Nat /\ Len(Remember(r, n)) >= Len(r)
<1> DEFINE w    == Without(r, n)
           next == <<n>> \o w
           k    == IF Len(next) < MaxRecent THEN Len(next) ELSE MaxRecent
           s    == Remember(r, n)
<1>1. /\ w \in Seq(Numbers) /\ Len(w) \in Nat /\ Len(w) >= Len(r) - 1
      /\ \A a \in DOMAIN w : w[a] # n /\ \E i \in DOMAIN r : w[a] = r[i]
      /\ \A a, b \in DOMAIN w : w[a] = w[b] => a = b
  BY WithoutIs DEF Sound
<1>2. n \in Numbers /\ MaxRecent \in Nat \ {0} /\ Len(r) \in Nat /\ Len(r) <= MaxRecent
      /\ \A i \in DOMAIN r : r[i] \in Held
  BY EntryAssumption DEF EntryAssumption, Sound, ToSet
<1> HIDE DEF w
<1>3. /\ next \in Seq(Numbers) /\ Len(next) = Len(w) + 1 /\ next[1] = n
      /\ \A a \in 2..(Len(w) + 1) : a - 1 \in DOMAIN w /\ next[a] = w[a - 1]
  <2>1. next \in Seq(Numbers) /\ Len(next) = Len(w) + 1 /\ next[1] = n
    BY <1>1, <1>2
  <2>2. ASSUME NEW a \in 2..(Len(w) + 1) PROVE a - 1 \in DOMAIN w /\ next[a] = w[a - 1]
    <3>1. a \in Nat /\ 1 < a /\ a <= 1 + Len(w) /\ a - 1 \in 1..Len(w)
      BY <1>1
    <3> QED BY <1>1, <1>2, <3>1
  <2> QED BY <2>1, <2>2
<1> HIDE DEF next
<1>4. /\ k \in Nat /\ k <= Len(next) /\ k <= MaxRecent /\ k >= Len(r)
      /\ s = SubSeq(next, 1, k)
  BY <1>1, <1>2, <1>3 DEF Remember, w, next
<1> HIDE DEF k, s
<1>5. s \in Seq(Numbers) /\ Len(s) = k /\ DOMAIN s = 1..k /\ \A a \in 1..k : s[a] = next[a]
  BY <1>3, <1>4
<1>6. \A a \in 1..k : a = 1 \/ a \in 2..(Len(w) + 1)
  BY <1>1, <1>3, <1>4
<1>7. ToSet(s) \subseteq Held
  <2> SUFFICES ASSUME NEW a \in 1..k PROVE s[a] \in Held
    BY <1>5 DEF ToSet
  <2>1. CASE a = 1
    BY <1>3, <1>5, <2>1
  <2>2. CASE a # 1
    <3>1. a - 1 \in DOMAIN w /\ s[a] = w[a - 1]
      BY <1>3, <1>5, <1>6, <2>2
    <3> QED BY <1>1, <1>2, <3>1
  <2> QED BY <2>1, <2>2
<1>8. ASSUME NEW a \in 1..k, NEW b \in 1..k, s[a] = s[b] PROVE a = b
  <2>1. next[a] = next[b]
    BY <1>5, <1>8
  <2>2. CASE a = 1 /\ b = 1
    BY <2>2
  <2>3. CASE a # 1 /\ b # 1
    <3>1. /\ a - 1 \in DOMAIN w /\ b - 1 \in DOMAIN w /\ w[a - 1] = w[b - 1]
      BY <1>3, <1>6, <2>1, <2>3
    <3>2. a - 1 = b - 1
      BY <1>1, <3>1
    <3> QED BY <1>4, <3>2
  <2>4. CASE (a = 1 /\ b # 1) \/ (a # 1 /\ b = 1)
    BY <1>1, <1>3, <1>6, <2>1, <2>4
  <2> QED BY <2>2, <2>3, <2>4
<1> QED BY <1>4, <1>5, <1>7, <1>8 DEF Sound, s

-----------------------------------------------------------------------------
(* The lists, the stored one and the one on offer *)

(* The list on offer is an older one, and so it is no longer; the highlight   *)
(* of an open one stays on it when it is replaced.                            *)
Lists ==
    /\ recents \in Seq(Numbers) /\ Sound(recents)
    /\ cached \in Caches
    /\ cached # NotCached => /\ cached \in Seq(Numbers) /\ Sound(cached)
                             /\ Len(cached) <= Len(recents)
    /\ page.kind = "join" => cached # NotCached
    /\ open => page.kind = "join" /\ active < Len(cached)
    /\ told \in BOOLEAN /\ open \in BOOLEAN /\ active \in -1..(MaxRecent - 1)

LEMMA NoListIs == NotCached \notin Seq(Numbers)
<1>1. SUFFICES ASSUME NotCached \in Seq(Numbers) PROVE FALSE
  OBVIOUS
<1>2. NotCached[1] = "null" /\ Len(NotCached) = 1
  BY DEF NotCached
<1>3. NotCached[1] \in Numbers
  BY <1>1, <1>2
<1> QED BY <1>2, <1>3, NumberAssumption DEF NumberAssumption

(* A list that is closed may be any sound one. *)
LEMMA ClosedKeeps ==
    ASSUME Lists, CloseList, UNCHANGED <<recents, told>>,
           \/ cached' = cached /\ (page'.kind = "join" => page.kind = "join")
           \/ cached' = recents
           \/ cached' = NotCached /\ page'.kind # "join"
    PROVE  Lists'
<1>1. recents # NotCached
  BY NoListIs DEF Lists
<1>2. active' = -1 /\ open' = FALSE /\ -1 \in -1..(MaxRecent - 1)
  BY EntryAssumption DEF EntryAssumption, CloseList
<1>3. /\ recents \in Caches /\ NotCached \in Caches /\ Len(recents) <= Len(recents)
      /\ Sound(recents)' <=> Sound(recents)
  BY DEF Lists, Caches, Sound
<1>4. CASE cached' = cached /\ (page'.kind = "join" => page.kind = "join")
  BY <1>2, <1>4 DEF Lists, Sound
<1>5. CASE cached' = recents
  BY <1>1, <1>2, <1>3, <1>5 DEF Lists, Sound
<1>6. CASE cached' = NotCached /\ page'.kind # "join"
  BY <1>2, <1>3, <1>6 DEF Lists, Sound
<1> QED BY <1>4, <1>5, <1>6

(* Other tabs make the stored list longer, not shorter. *)
LEMMA OtherTabKeepsLists ==
    ASSUME Lists, over \subseteq Held, NEW number, OtherTabJoins(number)
    PROVE  Lists'
<1>1. number \in Held /\ recents' = Remember(recents, number)
  BY DEF OtherTabJoins
<1>2. /\ recents' \in Seq(Numbers) /\ Sound(recents') /\ Len(recents') \in Nat
      /\ Len(recents') >= Len(recents)
  BY <1>1, RememberIs DEF Lists
<1>3. cached # NotCached => Len(cached) \in Nat /\ Len(recents) \in Nat
                            /\ Len(cached) <= Len(recents')
  BY <1>2 DEF Lists
<1>4. UNCHANGED <<page, cached, open, active>> /\ told' \in BOOLEAN
  BY DEF OtherTabJoins, list, Lists
<1> QED BY <1>2, <1>3, <1>4 DEF Lists, Sound

LEMMA StorageKeepsLists == ASSUME Lists, StorageEvent PROVE Lists'
<1>1. recents # NotCached /\ recents \in Caches
  BY NoListIs DEF Lists, Caches
<1>2. UNCHANGED <<page, recents, open, active>> /\ told' = FALSE
  BY DEF StorageEvent
<1>3. CASE cached' = cached
  BY <1>2, <1>3 DEF Lists, Sound
<1>4. CASE cached' = recents /\ page.kind = "join"
  <2>1. open => active < Len(recents)
    <3>1. ASSUME open PROVE active < Len(recents)
      <4>1. cached # NotCached /\ active < Len(cached) /\ Len(cached) <= Len(recents)
            /\ Len(cached) \in Nat /\ Len(recents) \in Nat /\ active \in Int
        BY <3>1 DEF Lists
      <4> QED BY <4>1
    <3> QED BY <3>1
  <2>2. Len(recents) <= Len(recents)
    BY DEF Lists
  <2> QED BY <1>1, <1>2, <1>4, <2>1, <2>2 DEF Lists, Sound
<1> QED BY <1>3, <1>4 DEF StorageEvent

LEMMA JoinedKeepsLists ==
    ASSUME Lists, NEW i \in Tasks, JoinAnswered(i)
    PROVE  Lists'
<1>1. /\ recents' = Remember(recents, task[i].number) /\ cached' = recents'
      /\ task[i].number \in Held /\ open' = FALSE /\ active' = -1 /\ told' = told
  BY DEF JoinAnswered, CloseList
<1>2. recents' \in Seq(Numbers) /\ Sound(recents') /\ Len(recents') \in Nat
  BY <1>1, RememberIs DEF Lists
<1>3. recents' # NotCached /\ recents' \in Caches /\ Len(recents') <= Len(recents')
  BY <1>2, NoListIs DEF Caches
<1>4. -1 \in -1..(MaxRecent - 1)
  BY EntryAssumption DEF EntryAssumption
<1> QED BY <1>1, <1>2, <1>3, <1>4 DEF Lists, Sound

(* The highlight moves on the list that is shown. *)
LEMMA HighlightKeepsLists ==
    ASSUME Lists, Move \/ OpenList(-1) \/ OpenList(0)
    PROVE  Lists'
<1>1. page.kind = "join" /\ UNCHANGED <<page, recents, cached, told>> /\ open' = TRUE
  BY DEF Move, OpenList, FormShown, Shows, shared, Lists
<1>2. /\ cached \in Seq(Numbers) /\ Len(cached) \in Nat /\ Len(cached) <= MaxRecent
      /\ MaxRecent \in Nat
  BY <1>1, EntryAssumption DEF EntryAssumption, Lists, Sound
<1>3. active' \in -1..(Len(cached) - 1)
  <2>1. CASE Move
    BY <1>2, <2>1 DEF Move
  <2>2. CASE OpenList(-1) \/ OpenList(0)
    <3>1. cached # <<>> /\ active' \in {-1, 0}
      BY <2>2 DEF OpenList
    <3>2. Len(cached) # 0
      BY <1>2, <3>1
    <3> QED BY <1>2, <3>1, <3>2
  <2> QED BY <2>1, <2>2
<1>4. active' < Len(cached) /\ active' \in -1..(MaxRecent - 1)
  BY <1>2, <1>3
<1> QED BY <1>1, <1>4 DEF Lists, Sound

-----------------------------------------------------------------------------
(* The types of pages and tasks *)

Types == /\ page \in Pages /\ task \in [Tasks -> Calls]
         /\ token \in BOOLEAN /\ over \subseteq Held

LEMMA NoneIs ==
    /\ NoProbe \in Probes /\ NoPass \in Passes
    /\ \A p \in Probes : p # NoProbe => p.number \in Numbers
    /\ \A n \in Numbers : Answer(n) \in Probes
    /\ \A n \in Numbers, right \in BOOLEAN : [of |-> n, right |-> right] \in Passes
    /\ Idle \in Calls
<1>1. NoProbe \in Probes /\ NoPass \in Passes
  BY DEF Probes, Passes
<1>2. \A p \in Probes : p # NoProbe => p.number \in Numbers
  BY DEF Probes
<1>3. \A n \in Numbers : Answer(n) \in Probes
  BY DEF Answer, Probes
<1>4. \A n \in Numbers, right \in BOOLEAN : [of |-> n, right |-> right] \in Passes
  BY DEF Passes
<1>5. Idle \in Calls
  BY <1>1 DEF Idle, Calls
<1> QED BY <1>1, <1>2, <1>3, <1>4, <1>5

(* A new page, and a page of which one thing has changed. *)
LEMMA NewPageIs ==
    ASSUME NEW kind \in {"away", "join", "link", "room"}, NEW invite \in BOOLEAN,
           NEW number \in Numbers \union {NoNumber},
           NEW phase \in {"form", "busy", "probing", "fatal"}
    PROVE  Page(kind, number, invite, phase) \in Pages
BY NoneIs DEF Page, Pages

LEMMA PhaseIsTyped ==
    ASSUME NEW p \in Pages, NEW phase \in {"form", "busy", "probing", "fatal"}
    PROVE  [p EXCEPT !.phase = phase] \in Pages /\ [p EXCEPT !.phase = phase].kind = p.kind
BY DEF Pages

LEMMA LookupIsTyped ==
    ASSUME NEW p \in Pages, NEW probe \in Probes
    PROVE  [p EXCEPT !.lookup = probe] \in Pages /\ [p EXCEPT !.lookup = probe].kind = p.kind
BY DEF Pages

LEMMA PassIsTyped ==
    ASSUME NEW p \in Pages, NEW pass \in Passes
    PROVE  [p EXCEPT !.pass = pass] \in Pages /\ [p EXCEPT !.pass = pass].kind = p.kind
BY DEF Pages

LEMMA NumberIsTyped ==
    ASSUME page \in Pages, NEW number \in Numbers \union {NoNumber}
    PROVE  /\ handleMeetingIdChange(number) \in Pages
           /\ handleMeetingIdChange(number).kind = page.kind
BY NoneIs DEF Pages, handleMeetingIdChange

LEMMA OrphanedIsTyped ==
    ASSUME Types
    PROVE  /\ Orphaned \in [Tasks -> Calls]
           /\ \A i \in Tasks : [Orphaned EXCEPT ![i] = Idle] \in [Tasks -> Calls]
<1>1. ASSUME NEW i \in Tasks
      PROVE  (IF task[i].step = "probe" THEN Idle ELSE [task[i] EXCEPT !.live = FALSE]) \in Calls
  <2>1. task[i] \in Calls
    BY DEF Types
  <2>2. [task[i] EXCEPT !.live = FALSE] \in Calls
    BY <2>1 DEF Calls
  <2> QED BY <2>2, NoneIs
<1>2. Orphaned \in [Tasks -> Calls]
  BY <1>1 DEF Orphaned
<1> QED BY <1>2, NoneIs

(* A task that is set to what a task can be. *)
LEMMA TaskIsTyped ==
    ASSUME Types, NEW i \in Tasks, NEW t \in Calls, task' = [task EXCEPT ![i] = t]
    PROVE  task' \in [Tasks -> Calls]
BY DEF Types

(* What edits the page or waits leaves its kind. *)
LEMMA FormIsTyped ==
    ASSUME Types, Inv,
           \/ Choose /\ Lists
           \/ \E number \in Numbers \union {NoNumber} : TypeNumber(number)
           \/ \E right \in BOOLEAN : TypePasscode(right)
    PROVE  page' \in Pages /\ page'.kind = page.kind /\ task' = task
<1>1. ASSUME NEW number \in Numbers \union {NoNumber}, page' = handleMeetingIdChange(number)
      PROVE  page' \in Pages /\ page'.kind = page.kind
  BY <1>1, NumberIsTyped DEF Types
<1>2. CASE Choose /\ Lists
  <2>1. cached \in Seq(Numbers) /\ active + 1 \in 1..Len(cached)
    BY <1>2 DEF Choose, FormShown, Shows, Lists
  <2>2. cached[active + 1] \in Numbers
    BY <2>1
  <2> QED BY <1>1, <1>2, <2>2 DEF Choose
<1>3. CASE \E number \in Numbers \union {NoNumber} : TypeNumber(number)
  BY <1>1, <1>3 DEF TypeNumber
<1>4. ASSUME NEW right \in BOOLEAN, TypePasscode(right)
      PROVE  page' \in Pages /\ page'.kind = page.kind /\ task' = task
  <2>1. page.lookup # NoProbe
    BY <1>4 DEF TypePasscode, needsPasscode, NoProbe
  <2>2. page.lookup \in Probes
    BY DEF Types, Pages
  <2>3. page.number \in Numbers
    BY <2>1, <2>2, NoneIs DEF Inv, KnowsItself
  <2>4. [of |-> page.number, right |-> right] \in Passes
    BY <2>3, NoneIs
  <2>5. page' = [page EXCEPT !.pass = [of |-> page.number, right |-> right]] /\ task' = task
    BY <1>4 DEF TypePasscode
  <2> QED BY <2>4, <2>5, PassIsTyped DEF Types
<1> QED BY <1>2, <1>3, <1>4

LEMMA SubmitIsTyped ==
    ASSUME Types, NEW i \in Tasks, SubmitForm(i) \/ SubmitLink(i)
    PROVE  /\ page' \in Pages /\ page'.kind = page.kind /\ task' \in [Tasks -> Calls]
<1>1. page' = Busy /\ page.kind \in {"join", "link"}
  BY DEF SubmitForm, SubmitLink, FormShown, LinkForm, Shows
<1>2. page' \in Pages /\ page'.kind = page.kind
  BY <1>1, PhaseIsTyped DEF Types, Busy
<1>3. /\ page.pass \in Passes /\ NoPass \in Passes /\ page.invite \in BOOLEAN
      /\ page.number \in Numbers \union {NoNumber}
  BY NoneIs DEF Types, Pages
<1>4. PICK step \in {"lookup", "guest", "join"}, pass \in {NoPass, page.pass} :
         Begin(i, step, page.number, pass)
  <2>1. CASE SubmitForm(i)
    BY <2>1 DEF SubmitForm, Identified, Sent
  <2>2. CASE SubmitLink(i)
    BY <2>2 DEF SubmitLink, Identified
  <2> QED BY <2>1, <2>2
<1> DEFINE new == [step |-> step, kind |-> page.kind, number |-> page.number,
                   pass |-> pass, invite |-> page.invite, live |-> TRUE]
<1>5. task' = [task EXCEPT ![i] = new] /\ new \in Calls
  BY <1>1, <1>3, <1>4 DEF Begin, Calls
<1> HIDE DEF new
<1> QED BY <1>2, <1>5, TaskIsTyped

(* A task that goes on, or ends. *)
LEMMA AnswerIsTyped ==
    ASSUME Types, NEW i \in Tasks,
           \/ LookupAnswered(i) \/ ProbeAnswered(i) \/ GuestAnswered(i)
           \/ JoinRefused(i) \/ RequestFailed(i)
    PROVE  /\ page' \in Pages /\ page'.kind = page.kind /\ task' \in [Tasks -> Calls]
<1> DEFINE t == task[i]
           found == [Form(page) EXCEPT !.lookup = Answer(t.number)]
<1>1. t \in Calls /\ page \in Pages /\ t.pass \in Passes
  BY DEF Types, Calls
<1>2. /\ Form(page) \in Pages /\ Form(page).kind = page.kind
      /\ Fails(t) \in Pages /\ Fails(t).kind = page.kind
      /\ [page EXCEPT !.phase = "fatal"] \in Pages
      /\ [page EXCEPT !.phase = "fatal"].kind = page.kind
  BY <1>1, PhaseIsTyped DEF Form, Fails
<1>3. t.number \in Held => found \in Pages /\ found.kind = page.kind
  <2>1. t.number \in Held => Answer(t.number) \in Probes
    BY NoneIs, EntryAssumption DEF EntryAssumption
  <2> QED BY <1>2, <2>1, LookupIsTyped
<1>4. page' \in Pages /\ page'.kind = page.kind
  <2>1. CASE LookupAnswered(i)
    BY <1>1, <1>3, <2>1 DEF LookupAnswered, Here
  <2>2. CASE ProbeAnswered(i)
    BY <1>2, <1>3, <2>2 DEF ProbeAnswered
  <2>3. CASE GuestAnswered(i)
    BY <1>1, <2>3 DEF GuestAnswered
  <2>4. CASE JoinRefused(i)
    BY <1>1, <1>2, <2>4 DEF JoinRefused, Here
  <2>5. CASE RequestFailed(i)
    BY <1>1, <1>2, <2>5 DEF RequestFailed, Here
  <2> QED BY <2>1, <2>2, <2>3, <2>4, <2>5
<1>5. task' \in [Tasks -> Calls]
  <2>1. CASE End(i)
    BY <2>1, NoneIs, TaskIsTyped DEF End
  <2>2. CASE GuestAnswered(i)
    <3>1. [t EXCEPT !.step = "join"] \in Calls
      BY <1>1 DEF Calls
    <3>2. task' = [task EXCEPT ![i] = [t EXCEPT !.step = "join"]]
      BY <2>2 DEF GuestAnswered
    <3> QED BY <3>1, <3>2, TaskIsTyped
  <2>3. CASE LookupAnswered(i) /\ ~End(i)
    <3> DEFINE pass == Sent(Answer(t.number), t.pass)
    <3>1. Identified \in {"guest", "join"} /\ pass \in Passes
      BY <1>1, NoneIs DEF Identified, Sent
    <3>2. task' = [task EXCEPT ![i].step = Identified, ![i].pass = pass]
      BY <2>3 DEF LookupAnswered
    <3> HIDE DEF pass
    <3>3. task' = [task EXCEPT ![i] = [t EXCEPT !.step = Identified, !.pass = pass]]
      BY <3>2 DEF Types
    <3>4. [t EXCEPT !.step = Identified, !.pass = pass] \in Calls
      BY <1>1, <3>1 DEF Calls
    <3> QED BY <3>3, <3>4, TaskIsTyped
  <2> QED BY <2>1, <2>2, <2>3 DEF ProbeAnswered, JoinRefused, RequestFailed
<1> QED BY <1>4, <1>5

(* A page that opens has its tasks orphaned or dropped. *)
LEMMA OpenIsTyped ==
    ASSUME Types, \/ OpenJoin \/ GoAway \/ \E i \in Tasks : JoinAnswered(i)
                  \/ \E number \in Numbers, invite \in BOOLEAN : OpenLink(number, invite)
    PROVE  page' \in Pages /\ task' \in [Tasks -> Calls]
<1>1. CASE OpenJoin \/ GoAway \/ \E i \in Tasks : JoinAnswered(i)
  <2>1. \E kind \in {"join", "away", "room"} : page' = Page(kind, NoNumber, FALSE, "form")
    BY <1>1 DEF OpenJoin, GoAway, JoinAnswered, Away
  <2>2. task' = Orphaned \/ \E i \in Tasks : task' = [Orphaned EXCEPT ![i] = Idle]
    BY <1>1 DEF OpenJoin, GoAway, JoinAnswered
  <2>3. page' \in Pages
    BY <2>1, NewPageIs
  <2>4. task' \in [Tasks -> Calls]
    BY <2>2, OrphanedIsTyped
  <2> QED BY <2>3, <2>4
<1>2. ASSUME NEW number \in Numbers, NEW invite \in BOOLEAN, OpenLink(number, invite)
      PROVE  page' \in Pages /\ task' \in [Tasks -> Calls]
  <2> DEFINE probe == [step |-> "probe", kind |-> "link", number |-> number,
                       pass |-> NoPass, invite |-> invite, live |-> TRUE]
  <2>1. probe \in Calls
    BY NoneIs DEF Calls
  <2>2. task' = [k \in Tasks |-> IF k = 1 THEN probe ELSE Idle]
        /\ page' = Page("link", number, invite, "probing")
    BY <1>2 DEF OpenLink
  <2> HIDE DEF probe
  <2> QED BY <2>1, <2>2, NoneIs, NewPageIs
<1> QED BY <1>1, <1>2

-----------------------------------------------------------------------------
(* Both together: what is chosen from a list is a number, as the list is sound; *)
(* and the list is there for as long as the form is.                            *)

Known == Inv /\ Types /\ Lists

LEMMA KnownInit == Init => Known
<1> SUFFICES ASSUME Init PROVE Known
  OBVIOUS
<1>1. Types
  BY NewPageIs, NoneIs DEF Init, Types, Away
<1>2. Lists
  <2>1. Sound(<<>>) /\ <<>> \in Seq(Numbers)
    BY EntryAssumption DEF EntryAssumption, Sound, ToSet
  <2>2. -1 \in -1..(MaxRecent - 1)
    BY EntryAssumption DEF EntryAssumption
  <2>3. page.kind = "away" /\ NotCached \in Caches
    BY DEF Init, Away, Page, Caches
  <2> QED BY <2>1, <2>2, <2>3 DEF Init, Lists
<1> QED BY <1>1, <1>2, InitEstablishes DEF Known

(* The page keeps its kind, and nothing happens to the lists. *)
LEMMA ElsewhereKeepsLists ==
    ASSUME Lists, page'.kind = page.kind, UNCHANGED <<recents, told, list>>
    PROVE  Lists'
BY DEF Lists, Sound, list

LEMMA KnownNext == Known /\ [Next]_vars => Known'
<1> SUFFICES ASSUME Known, [Next]_vars PROVE Known'
  OBVIOUS
<1> USE DEF Known
<1>1. Inv'
  BY NextKeeps
<1>2. CASE UNCHANGED vars
  BY <1>1, <1>2, ElsewhereKeepsLists DEF vars, list, Types
<1>3. ASSUME NEW i \in Tasks, JoinAnswered(i) PROVE Known'
  <2>1. Types'
    BY <1>3, OpenIsTyped DEF Types, JoinAnswered
  <2> QED BY <1>1, <1>3, <2>1, JoinedKeepsLists
<1>4. CASE OpenJoin
  <2>1. Types'
    BY <1>4, OpenIsTyped DEF Types, OpenJoin, shared
  <2>2. \/ cached' = recents
        \/ cached' = cached /\ cached # NotCached
    BY <1>4 DEF OpenJoin, SnapshotIn
  <2>3. Lists'
    <3>1. CASE cached' = recents
      BY <1>4, <3>1, ClosedKeeps DEF OpenJoin, shared
    <3>2. CASE cached' = cached /\ cached # NotCached
      <4>1. open' = FALSE /\ active' = -1 /\ UNCHANGED <<recents, told, cached>>
        BY <1>4, <3>2 DEF OpenJoin, CloseList, shared
      <4>2. -1 \in -1..(MaxRecent - 1)
        BY EntryAssumption DEF EntryAssumption
      <4> QED BY <3>2, <4>1, <4>2 DEF Lists, Sound
    <3> QED BY <2>2, <3>1, <3>2
  <2> QED BY <1>1, <2>1, <2>3
<1>5. CASE GoAway
  <2>1. Types'
    BY <1>5, OpenIsTyped DEF Types, GoAway, shared
  <2>2. page'.kind = "away"
    BY <1>5 DEF GoAway, Away, Page
  <2>3. Lists'
    BY <1>5, <2>2, ClosedKeeps DEF GoAway, shared
  <2> QED BY <1>1, <2>1, <2>3
<1>6. ASSUME NEW number \in Numbers, NEW invite \in BOOLEAN, OpenLink(number, invite)
      PROVE  Known'
  <2>1. Types'
    BY <1>6, OpenIsTyped DEF Types, OpenLink, shared
  <2>2. page'.kind = "link"
    BY <1>6 DEF OpenLink, Page
  <2>3. Lists'
    BY <1>6, <2>2, ClosedKeeps DEF OpenLink, shared
  <2> QED BY <1>1, <2>1, <2>3
<1>7. CASE Choose \/ TypeNumber(NoNumber) \/ (\E number \in Numbers : TypeNumber(number))
           \/ (\E right \in BOOLEAN : TypePasscode(right))
  <2>1. page' \in Pages /\ page'.kind = page.kind /\ task' = task
    BY <1>7, FormIsTyped
  <2>2. Types'
    BY <1>7, <2>1 DEF Types, Choose, TypeNumber, TypePasscode, shared
  <2>3. CASE Choose
    BY <1>1, <2>1, <2>2, <2>3, ClosedKeeps DEF Choose, shared
  <2>4. CASE ~Choose
    BY <1>1, <1>7, <2>1, <2>2, <2>4, ElsewhereKeepsLists DEF TypeNumber, TypePasscode, shared
  <2> QED BY <2>3, <2>4
<1>8. ASSUME NEW i \in Tasks, SubmitForm(i) \/ SubmitLink(i) PROVE Known'
  <2>1. page' \in Pages /\ page'.kind = page.kind /\ task' \in [Tasks -> Calls]
    BY <1>8, SubmitIsTyped
  <2>2. Types'
    BY <1>8, <2>1 DEF Types, SubmitForm, SubmitLink, shared
  <2>3. CASE SubmitForm(i)
    BY <1>1, <2>1, <2>2, <2>3, ClosedKeeps DEF SubmitForm, shared
  <2>4. CASE SubmitLink(i)
    BY <1>1, <2>1, <2>2, <2>4, ElsewhereKeepsLists DEF SubmitLink, shared
  <2> QED BY <1>8, <2>3, <2>4
<1>9. ASSUME NEW i \in Tasks,
             \/ LookupAnswered(i) \/ ProbeAnswered(i) \/ GuestAnswered(i)
             \/ JoinRefused(i) \/ RequestFailed(i)
      PROVE  Known'
  <2>1. page' \in Pages /\ page'.kind = page.kind /\ task' \in [Tasks -> Calls]
    BY <1>9, AnswerIsTyped
  <2>2. UNCHANGED <<over, recents, told, list>> /\ token' \in BOOLEAN
    BY <1>9 DEF Types, LookupAnswered, ProbeAnswered, GuestAnswered, JoinRefused,
                RequestFailed, shared
  <2>3. Types'
    BY <2>1, <2>2 DEF Types
  <2> QED BY <1>1, <2>1, <2>2, <2>3, ElsewhereKeepsLists
<1>10. CASE Dismiss
  <2>1. Types'
    BY <1>10 DEF Types, Dismiss, shared
  <2> QED BY <1>1, <1>10, <2>1, ClosedKeeps DEF Dismiss, shared
<1>11. CASE Move \/ OpenList(-1) \/ OpenList(0)
  <2>1. Types'
    BY <1>11 DEF Types, Move, OpenList, shared
  <2> QED BY <1>1, <1>11, <2>1, HighlightKeepsLists
<1>12. CASE StorageEvent
  <2>1. Types'
    BY <1>12 DEF Types, StorageEvent
  <2> QED BY <1>1, <1>12, <2>1, StorageKeepsLists
<1>13. ASSUME NEW number \in Numbers, OtherTabJoins(number) PROVE Known'
  <2>1. Types'
    BY <1>13 DEF Types, OtherTabJoins
  <2> QED BY <1>1, <1>13, <2>1, OtherTabKeepsLists DEF Types
<1>14. ASSUME NEW number \in Numbers,
              MeetingEnds(number) \/ MeetingStarts(number)
       PROVE  Known'
  <2>1. Types' /\ UNCHANGED <<page, recents, told, list>>
    BY <1>14 DEF Types, MeetingEnds, MeetingStarts
  <2> QED BY <1>1, <2>1, ElsewhereKeepsLists
<1>15. CASE OtherTabSigns
  <2>1. Types' /\ UNCHANGED <<page, recents, told, list>>
    BY <1>15 DEF Types, OtherTabSigns
  <2> QED BY <1>1, <2>1, ElsewhereKeepsLists
<1> HIDE DEF Known
<1> QED
  BY <1>2, <1>3, <1>4, <1>5, <1>6, <1>7, <1>8, <1>9, <1>10, <1>11, <1>12, <1>13, <1>14,
     <1>15 DEF Next, Answered

(* The invariant of the pages and the lists together. *)
THEOREM KnownHolds == Spec => []Known
BY KnownInit, KnownNext, PTL DEF Spec

(* Every page, task and list of the model is one of the program. *)
THEOREM TypesHold == Spec => []TypeOK
<1>1. Known => TypeOK
  BY DEF Known, Types, Lists, TypeOK
<1> QED BY <1>1, KnownHolds, PTL

(* The recent numbers, stored and on offer, are at most MAX_RECENT, none twice, *)
(* each of a meeting, and the highlight is on one of them, however many tabs    *)
(* join, in whatever order their storage events arrive.                         *)
THEOREM RecentsSoundHolds == Spec => []RecentsSound
<1>1. Known => RecentsSound
  BY DEF Known, Lists, RecentsSound
<1> QED BY <1>1, KnownHolds, PTL
=============================================================================
