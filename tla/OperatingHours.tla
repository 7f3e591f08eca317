--------------------------- MODULE OperatingHours ---------------------------
(***************************************************************************)
(* A venue's opening hours.  They are local wall-clock times, bookings are *)
(* instants, and a zone's offset changes under both.  Instants and local   *)
(* readings are integers on one scale; a date is a number of days and a    *)
(* clock the time since local midnight.  A zone here has one transition.   *)
(***************************************************************************)
EXTENDS Integers

CONSTANTS
  DAY,     \* 24 hours
  WEEK     \* days after which the weekly hours repeat

ASSUME CalendarAssumption == DAY \in Nat \ {0} /\ WEEK \in Nat \ {0}

-----------------------------------------------------------------------------
(* zoneOffsetMs: local time minus UTC, at an instant. *)
zoneOffset(zone, t) == IF t < zone.changes THEN zone.before ELSE zone.after

(* toLocalParts, split into the date and the time of day. *)
toLocal(zone, t) == t + zoneOffset(zone, t)
LocalDate(zone, t) == toLocal(zone, t) \div DAY
LocalClock(zone, t) == toLocal(zone, t) % DAY

(* One round of the fixed-point search for the instant that reads target. *)
Correct(zone, target, utc) == target - zoneOffset(zone, utc)

(* fromLocalParts: the reading itself as a first guess, three corrections. *)
fromLocal(zone, date, clock) ==
  LET target == date * DAY + clock
      once == Correct(zone, target, target)
      twice == Correct(zone, target, once) IN
  Correct(zone, target, twice)

(* Stepped from noon, which no shift can move to another date. *)
nextLocalDay(zone, date) ==
  LocalDate(zone, fromLocal(zone, date, DAY \div 2) + DAY)

-----------------------------------------------------------------------------
Closed == [open |-> -1, close |-> -1]

(* Slip: an overnight window closes so many hours after it has opened. *)
ClosesAt_Elapsed(zone, spec, date) ==
  fromLocal(zone, date, spec.open)
    + (IF spec.close > spec.open THEN 0 ELSE DAY) + spec.close - spec.open

(* A close at or before the open is on the next date; one at 24:00 lands on  *)
(* the midnight before the opening and is pushed to the one after it.        *)
ClosesAt(zone, spec, date) ==
  LET next == nextLocalDay(zone, date)
      crossesMidnight == spec.close <= spec.open
      closes == fromLocal(zone, IF crossesMidnight THEN next ELSE date, spec.close % DAY) IN
  IF ~crossesMidnight /\ closes <= fromLocal(zone, date, spec.open)
    THEN fromLocal(zone, next, 0) ELSE closes

(* windowForLocalDate: the window that opens on a date, if there is one. *)
windowForLocalDate(venue, date) ==
  LET spec == venue.hours[date % WEEK] IN
  IF spec = Closed THEN {}
  ELSE {[opensAt |-> fromLocal(venue.zone, date, spec.open),
         closesAt |-> ClosesAt(venue.zone, spec, date)]}

(* The windows of the start's date and of the date 24 hours before it. *)
isWithinOperatingHours(venue, startsAt, endsAt) ==
  \E w \in windowForLocalDate(venue, LocalDate(venue.zone, startsAt))
             \cup windowForLocalDate(venue, LocalDate(venue.zone, startsAt - DAY)) :
    startsAt >= w.opensAt /\ endsAt <= w.closesAt

(* Every window that meets [from, to), walking the local calendar from a    *)
(* day before to a day after.                                               *)
openWindowsBetween(venue, from, to) ==
  {w \in UNION {windowForLocalDate(venue, date) :
                  date \in LocalDate(venue.zone, from - DAY) .. LocalDate(venue.zone, to + DAY)} :
     w.closesAt > from /\ w.opensAt < to}

-----------------------------------------------------------------------------
(* When the calendar and the clock agree.  The code does not demand it of a *)
(* venue; what it promises can only be said of venues for which it holds.   *)

Shift(zone) == zone.after - zone.before

(* The readings that a change of the clocks skips or repeats. *)
Shifted(zone) ==
  LET skipped == (zone.changes + zone.before) .. (zone.changes + zone.after - 1)
      repeated == (zone.changes + zone.after) .. (zone.changes + zone.before - 1) IN
  skipped \cup repeated

(* When a window closes, as a reading counted from the date it opens on. *)
ClosingReading(spec) == spec.close + (IF spec.close <= spec.open THEN DAY ELSE 0)

(* The readings a date's window is computed from. *)
DoorReadings(venue, date) ==
  LET spec == venue.hours[date % WEEK] IN
  IF spec = Closed THEN {}
  ELSE {date * DAY + spec.open, date * DAY + ClosingReading(spec)}
         \cup (IF spec.close = DAY THEN {date * DAY} ELSE {})

(* No door opens or closes at a reading that does not exist exactly once,   *)
(* none opens at 24:00, and noon stays on its date.                         *)
Orderly(venue) ==
  /\ -DAY < 2 * Shift(venue.zone) /\ 2 * Shift(venue.zone) < DAY
  /\ \A day \in 0..(WEEK - 1) : venue.hours[day].open < DAY
  /\ \A r \in Shifted(venue.zone) : \A date \in {r \div DAY - 1, r \div DAY} :
       r \notin DoorReadings(venue, date)

(* While last night's window is open, 24 hours ago was yesterday. *)
YesterdayReached(venue) ==
  \A t \in venue.zone.changes .. (venue.zone.changes + DAY - 1) :
    LET today == LocalDate(venue.zone, t)
        spec == venue.hours[(today - 1) % WEEK] IN
    spec.close <= spec.open /\ LocalClock(venue.zone, t) < spec.close
      => LocalDate(venue.zone, t - DAY) = today - 1

=============================================================================
