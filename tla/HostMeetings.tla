---------------------------- MODULE HostMeetings ----------------------------
(***************************************************************************)
(* The meetings rows of one host, as REST requests create, change and list *)
(* them (meeting_service.py), and a walk through the pages of a list while *)
(* they change.                                                            *)
(*                                                                         *)
(* A request is one step here: that each decides and writes apart is in    *)
(* Room.  A time is a number, NULL is 0, and several things may happen at  *)
(* one time.  Ids are random and so in no order of creation.  Other hosts, *)
(* numbers (of which the personal one serves for one row ever, by the      *)
(* unique index) and what the lists do not look at are left out.           *)
(***************************************************************************)
EXTENDS SequencesExt, Integers

CONSTANTS
    Ids,            \* bound: ids of meetings
    Limit,          \* the page size asked for
    MaxTime,        \* bound: the last time
    DayLength,      \* times in a day
    Filters,        \* the lists walked through: <<filter_, date>>
    MaxPages        \* bound: pages of a walk

ASSUME HostMeetingsAssumption ==
    /\ Ids \subseteq Nat \ {0} /\ IsFiniteSet(Ids)
    /\ Limit \in Nat \ {0} /\ MaxTime \in Nat \ {0}
    /\ DayLength \in Nat \ {0} /\ MaxPages \in Nat
    /\ Filters \subseteq {"upcoming", "recent", "day", "all"} \X Nat

NULL     == 0
NoCursor == 0
Times    == 1..MaxTime

VARIABLES
    now,
    row,            \* the table, a function on the ids in use
    walk            \* the pages read so far, and what happened meanwhile

listVars == <<now, row, walk>>

Rows == [status : {"scheduled", "live", "ended", "cancelled"},
         scheduled_start : 0..(MaxTime + 1), created_at : Times,
         ended_at : 0..MaxTime]

NoWalk == [state |-> "none", filter |-> <<"all", 0>>, cursor |-> NoCursor,
           seen |-> <<>>, pages |-> 0,
           moved |-> {},            \* rows that came, went or changed their key
           disturbed |-> FALSE]     \* one did while it was the cursor

ListTypeOK ==
    /\ now \in Times
    /\ DOMAIN row \subseteq Ids /\ \A m \in DOMAIN row : row[m] \in Rows
    /\ walk.state \in {"none", "going", "over"}
    /\ walk.state = "going" <=> walk.cursor # NoCursor
    /\ walk.seen \in Seq(DOMAIN row)
    /\ Len(walk.seen) <= Limit * walk.pages

ListInit ==
    /\ now = 1 /\ row = <<>> /\ walk = NoWalk

-----------------------------------------------------------------------------
(* list_for_host *)

Date(t) == t \div DayLength

(* The WHERE clause of each filter, for row r at time t. *)
Matches(r, f, t) ==
    CASE f[1] = "upcoming" -> /\ r.status \in {"scheduled", "live"}
                              /\ r.scheduled_start # NULL /\ r.scheduled_start >= t
      [] f[1] = "recent"   -> r.status = "ended"
      [] f[1] = "day"      -> /\ r.status # "cancelled" /\ r.scheduled_start # NULL
                              /\ Date(r.scheduled_start) = f[2]
      [] f[1] = "all"      -> TRUE

Key(r, f) ==
    CASE f[1] \in {"upcoming", "day"} -> r.scheduled_start
      [] f[1] = "recent"              -> r.ended_at
      [] f[1] = "all"                 -> r.created_at

(* Its ORDER BY: the id breaks the tie, in the direction of the key. *)
Before(f, k, m, l, n) ==
    IF f[1] \in {"upcoming", "day"}
    THEN k < l \/ (k = l /\ m < n)
    ELSE k > l \/ (k = l /\ m > n)

(* _apply_cursor, whose cursor has a key (AnchorIsLost).  A key of NULL       *)
(* compares with nothing.  The faulty ones drop the id, or let the cursor's   *)
(* own key in again.                                                           *)
PastKey(f, c, m) ==
    LET k == Key(row[c], f)
        l == Key(row[m], f)
    IN  l # NULL /\ k # l /\ Before(f, k, c, l, m)

FromKey(f, c, m) ==
    LET k == Key(row[c], f)
        l == Key(row[m], f)
    IN  l # NULL /\ (k = l \/ Before(f, k, c, l, m))

Past(f, c, m) ==
    LET k == Key(row[c], f)
        l == Key(row[m], f)
    IN  l # NULL /\ Before(f, k, c, l, m)

(* Its rows, in its order: as the ids break the ties there is one way. *)
Selected(f, c) == {m \in DOMAIN row : /\ Matches(row[m], f, now)
                                      /\ c = NoCursor \/ Past(f, c, m)}

Sorted(f, S) ==
    {rows \in SetToSeqs(S) :
        \A a, b \in DOMAIN rows : a < b =>
            Before(f, Key(row[rows[a]], f), rows[a], Key(row[rows[b]], f), rows[b])}

(* One row more than the page is read, and tells whether there are more.      *)
AllRead(rows) == rows
Trimmed(rows) == SubSeq(rows, 1, IF Len(rows) > Limit THEN Limit ELSE Len(rows))

Read(f, c, w) ==
    \E rows \in Sorted(f, Selected(f, c)) :
        LET more  == Len(rows) > Limit
            items == Trimmed(rows)
        IN  /\ walk' = [w EXCEPT !.state = IF more THEN "going" ELSE "over",
                                 !.cursor = IF more THEN Last(items) ELSE NoCursor,
                                 !.seen = @ \o items,
                                 !.pages = @ + 1]
            /\ UNCHANGED <<now, row>>

FirstPage(f) ==
    /\ walk.state = "none" /\ MaxPages > 0
    /\ Read(f, NoCursor, [NoWalk EXCEPT !.filter = f])

AnchorIsLost == Key(row[walk.cursor], walk.filter) = NULL

NextPage ==
    /\ walk.state = "going" /\ walk.pages < MaxPages
    /\ ~AnchorIsLost
    /\ Read(walk.filter, walk.cursor, walk)

(* "<" and ">" of a column and None raise (SQLAlchemy), and the request fails: *)
(* the walk is given up.                                                        *)
NextPageFails ==
    /\ walk.state = "going" /\ walk.pages < MaxPages
    /\ AnchorIsLost
    /\ walk' = NoWalk
    /\ UNCHANGED <<now, row>>

-----------------------------------------------------------------------------
(* Changes.  A walk takes note of them, which is no state of the program; one *)
(* that is over is forgotten, and the next may begin.                         *)

(* Where row m of a table stands in the list of the walk. *)
Place(table, t, m) ==
    IF m \in DOMAIN table /\ Matches(table[m], walk.filter, t)
    THEN Key(table[m], walk.filter) ELSE NULL

AnchorKey(table) == Key(table[walk.cursor], walk.filter)

Rewrites(table, t) ==
    /\ row' = table /\ now' = t
    /\ walk' = IF walk.state # "going" THEN NoWalk
               ELSE [walk EXCEPT
                        !.moved = @ \union {m \in Ids : Place(table, t, m) # Place(row, now, m)},
                        !.disturbed = @ \/ AnchorKey(table) # AnchorKey(row)]

Tick == now < MaxTime /\ Rewrites(row, now + 1)

(* create_meeting. *)
create_meeting(m, start) ==
    /\ m \in Ids \ DOMAIN row
    /\ start = NULL \/ start > now
    /\ LET r == [status |-> IF start = NULL THEN "live" ELSE "scheduled",
                 scheduled_start |-> start, created_at |-> now, ended_at |-> NULL]
       IN  Rewrites([n \in DOMAIN row \union {m} |-> IF n = m THEN r ELSE row[n]], now)

update_meeting(m, start) ==
    /\ row[m].status = "scheduled" /\ start > now
    /\ Rewrites([row EXCEPT ![m].scheduled_start = start], now)

cancel_meeting(m) ==
    /\ row[m].status = "scheduled"
    /\ Rewrites([row EXCEPT ![m].status = "cancelled"], now)

start_meeting(m) ==
    /\ row[m].status \in {"scheduled", "ended"}
    /\ Rewrites([row EXCEPT ![m].status = "live", ![m].ended_at = NULL], now)

end_meeting(m) ==
    /\ row[m].status = "live"
    /\ Rewrites([row EXCEPT ![m].status = "ended", ![m].ended_at = now], now)

ListNext ==
    \/ Tick \/ NextPage \/ NextPageFails
    \/ \E f \in Filters : FirstPage(f)
    \/ \E m \in Ids, start \in 0..(MaxTime + 1) : create_meeting(m, start)
    \/ \E m \in DOMAIN row : \/ cancel_meeting(m) \/ start_meeting(m) \/ end_meeting(m)
                             \/ \E start \in Times : update_meeting(m, start + 1)

ListSpec == ListInit /\ [][ListNext]_listVars

-----------------------------------------------------------------------------
(* Properties *)

(* A walk that came to its end has shown every row that was in the list all    *)
(* the time and kept its place, whatever was created, changed or cancelled     *)
(* around it, unless the cursor itself was moved ("offsets skip or repeat rows *)
(* under concurrent inserts", list_for_host, which the cursor is to avoid).     *)
SkipsNone ==
    walk.state = "over" /\ ~walk.disturbed =>
        \A m \in DOMAIN row :
            Place(row, now, m) # NULL /\ m \notin walk.moved
                => m \in ToSet(walk.seen)

(* And it shows such rows in the order of the list, none of them twice: the   *)
(* id makes that order total (_apply_cursor).                                   *)
InOrder ==
    ~walk.disturbed =>
        \A a, b \in DOMAIN walk.seen :
            LET m == walk.seen[a]
                n == walk.seen[b]
                f == walk.filter
            IN  a < b /\ {m, n} \intersect walk.moved = {}
                  => Before(f, Key(row[m], f), m, Key(row[n], f), n)
=============================================================================
