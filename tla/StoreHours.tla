----------------------------- MODULE StoreHours -----------------------------
(***************************************************************************)
(* Whether the kitchen takes orders, and when it says it will again.  A    *)
(* moment counts minutes from the start of day 0; day d falls on weekday   *)
(* d % Week, and no summer time shifts the days.                           *)
(***************************************************************************)
EXTENDS Integers, FiniteSetsExt

CONSTANTS
  Week,       \* days of a week (bound: 7 in the code)
  DayMinutes  \* minutes of a day (bound: 1440 in the code)

ASSUME CalendarAssumption == Week \in Nat \ {0} /\ DayMinutes \in Nat \ {0}

Never == -1

Day(moment) == moment \div DayMinutes
Minute(moment) == moment % DayMinutes

Hours(shop, day) == shop.hours[day % Week]

\* What nextOpen looks at: a day that is neither closed nor a holiday.
Listed(shop, day) == ~ Hours(shop, day).closed /\ day \notin shop.holidays

\* A day with hours in it.
Served(shop, day) == Listed(shop, day) /\ Hours(shop, day).open < Hours(shop, day).close

IsOpen(shop, moment) ==
  /\ ~ shop.forceClosed
  /\ Served(shop, Day(moment))
  /\ Hours(shop, Day(moment)).open <= Minute(moment)
  /\ Minute(moment) < Hours(shop, Day(moment)).close

Opening(shop, day) == day * DayMinutes + Hours(shop, day).open

\* The days nextOpen scans: the same weekday next week is the last.
BugScan(today) == today + 1 .. today + Week - 1

Scan(today) == today + 1 .. today + Week

\* nextOpen is only ever asked for tomorrow and later.
NextOpen(shop, today) ==
  LET days == {d \in Scan(today) : Listed(shop, d)}
  IN IF days = {} THEN Never ELSE Opening(shop, Min(days))

\* nextOpenAt of a store that is closed.
NextOpenAt(shop, moment) ==
  LET today == Day(moment) IN
    CASE shop.forceClosed -> Never
      [] ~ shop.forceClosed /\ Served(shop, today) /\ Minute(moment) < Hours(shop, today).open ->
           Opening(shop, today)
      [] OTHER -> NextOpen(shop, today)
=============================================================================
