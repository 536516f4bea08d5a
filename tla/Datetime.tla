------------------------------ MODULE Datetime ------------------------------
(***************************************************************************)
(* The times of the schedule form (lib/utils/datetime.ts): a moment is     *)
(* minutes since a midnight, in the browser's zone, and the form splits it *)
(* into a date, a 12-hour time and a meridiem.  Every minute can be split: *)
(* a meeting need not have been scheduled with this form.  The select for  *)
(* the time offers half hours only.  Calendars and changes of the clock    *)
(* are left out: a date is the number of a day.                            *)
(***************************************************************************)
EXTENDS Integers

Moments == Nat

Day == 24 * 60

(* What the form holds, and what its controls offer. *)
Whens           == [date : Nat, hour : 1..12, minute : 0..59, pm : BOOLEAN]
halfHourOptions == [date : Nat, hour : 1..12, minute : {0, 30}, pm : BOOLEAN]

Hours24(t) == (t % Day) \div 60

(* Faulty variants, for trying out what the runs can tell apart: without the *)
(* 12 for 0 here, without the remainder below.                                *)
splitAtZero(t) ==
    [date |-> t \div Day, hour |-> Hours24(t) % 12, minute |-> t % 60,
     pm |-> Hours24(t) >= 12]

splitDateAndTime(t) ==
    [date   |-> t \div Day,
     hour   |-> IF Hours24(t) % 12 = 0 THEN 12 ELSE Hours24(t) % 12,
     minute |-> t % 60,
     pm     |-> Hours24(t) >= 12]

combineDateAndTime(when) ==
    Day * when.date + 60 * ((when.hour % 12) + (IF when.pm THEN 12 ELSE 0)) + when.minute

(* Past the last half hour of a day it is the first of the next. *)
nextHalfHour(t) == t - (t % 60) + (IF t % 60 < 30 THEN 30 ELSE 60)
=============================================================================
