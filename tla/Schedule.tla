------------------------------- MODULE Schedule -------------------------------
(***************************************************************************)
(* The wall-clock arithmetic of core-operations: how long an aligned task  *)
(* sleeps.  Times are counted from midnight of a Monday, in a unit of      *)
(* which day make a day.                                                   *)
(***************************************************************************)
EXTENDS Naturals

(* From now to the next occurrence of the time at of the day. *)
seconds_until_next_utc_hour(day, at, now) ==
  LET target == (now \div day) * day + at
  IN  IF target <= now THEN target + day - now ELSE target - now

(* From now to the next full hour. *)
seconds_until_next_utc_top_of_hour(hour, now) ==
  (now \div hour) * hour + hour - now

(* From now to the next occurrence of the time at of a weekday. *)
seconds_until_next_utc_weekday_hour(day, weekday, at, now) ==
  LET today  == (now \div day) % 7
      target == (now \div day) * day + at + ((weekday + 7 - today) % 7) * day
  IN  IF target <= now THEN target + 7 * day - now ELSE target - now
=============================================================================
