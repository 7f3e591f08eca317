---------------------------- MODULE Availability ----------------------------
(***************************************************************************)
(* One room's availability: what GET availability and search tell a        *)
(* customer, beside what the hold path would do with the same request.     *)
(* The three are separate pieces of code: enumerate walks the open windows *)
(* on a half-hour grid, search asks for one interval, and a hold is judged *)
(* by assertBookable and by the room's exclusion constraint.               *)
(*                                                                         *)
(* Reading is stateless, so the state is what is read: the clock, the      *)
(* venue's zone and hours, and the room's rows.                            *)
(***************************************************************************)
EXTENDS OperatingHours, Sums

CONSTANTS
  GRID, TURNAROUND,            \* half an hour; the cleaning after a booking
  MIN_LEAD, MAX_LEAD,          \* how far ahead a booking starts
  MinDuration, MaxDuration,    \* what the room takes
  MIN_DURATION, MAX_DURATION,  \* lengths the calendar may be asked for, of any room
  Settings,                    \* zones and weekly hours the venue may have
  Starts, Queries,             \* bounds: starts of holds; ranges asked about
  MaxRows, MaxNow              \* bounds: rows of the room; the last instant

ASSUME GridAssumption ==
  /\ GRID \in Nat \ {0} /\ TURNAROUND \in Nat
  /\ MIN_LEAD \in Nat /\ MAX_LEAD \in Nat
  /\ MinDuration \in Nat \ {0} /\ MaxDuration \in Nat
  /\ MIN_DURATION \in Nat \ {0} /\ MAX_DURATION \in Nat
  /\ Starts \subseteq Int
  /\ \A q \in Queries : q.from \in Int /\ q.to \in Int /\ q.from < q.to

(* A zone has its offsets; an opening time is 00:00 to 24:00, as parseClock *)
(* accepts it.                                                              *)
ASSUME SettingsAssumption ==
  \A v \in Settings :
    /\ v.zone.changes \in Int /\ v.zone.before \in Int /\ v.zone.after \in Int
    /\ \A day \in 0..(WEEK - 1) :
         v.hours[day] = Closed \/ v.hours[day] \in [open : 0..DAY, close : 0..DAY]

VARIABLES
  now,
  venue,    \* venues.timezone and venues.operating_hours
  rows      \* the room's HELD, PENDING_PAYMENT and CONFIRMED rows

vars == <<now, venue, rows>>

(* A row.  A HELD row is due at the very instant its time is up, and lapsed *)
(* from then until somebody sweeps it.                                      *)
Row == [startsAt : Int, endsAt : Int, life : {"live", "due", "lapsed"}]

Init == now = 0 /\ venue \in Settings /\ rows = {}

OnGrid(t) == t % GRID = 0

(* Lengths a hold of the room may have, and those the calendar is asked for: *)
(* the schema of the query knows neither the room nor the grid.              *)
Durations == {d \in MinDuration..MaxDuration : OnGrid(d)}
AskedDurations == MIN_DURATION..MAX_DURATION

-----------------------------------------------------------------------------
(* What the hold path decides. *)

assertBookable(startsAt, endsAt) ==
  /\ startsAt - now >= MIN_LEAD /\ startsAt - now <= MAX_LEAD
  /\ endsAt - startsAt \in MinDuration..MaxDuration
  /\ isWithinOperatingHours(venue, startsAt, endsAt)

Meets(r, startsAt, endsAt) ==
  r.startsAt < endsAt + TURNAROUND /\ startsAt < r.endsAt + TURNAROUND

(* no_room_overlap, after the hold has expired the room's lapsed rows: with *)
(* a strict comparison, so that a row that is due is still in the way.      *)
Conflict(startsAt, endsAt) ==
  \E r \in rows : r.life # "lapsed" /\ Meets(r, startsAt, endsAt)

HoldAccepts(startsAt, endsAt) ==
  /\ OnGrid(startsAt) /\ OnGrid(endsAt)
  /\ assertBookable(startsAt, endsAt) /\ ~Conflict(startsAt, endsAt)

LiveRows == {r \in rows : r.life # "lapsed"}

(* The hold expires the room's lapsed rows and takes its own place. *)
Hold(startsAt, endsAt) ==
  /\ HoldAccepts(startsAt, endsAt)
  /\ Cardinality(LiveRows) < MaxRows
  /\ rows' = LiveRows \cup {[startsAt |-> startsAt, endsAt |-> endsAt, life |-> "live"]}
  /\ UNCHANGED <<now, venue>>

(* Its time comes, and passes. *)
Lapse(r) ==
  /\ r.life # "lapsed"
  /\ rows' = (rows \ {r}) \cup {[r EXCEPT !.life = IF @ = "live" THEN "due" ELSE "lapsed"]}
  /\ UNCHANGED <<now, venue>>

(* Cancelled, failed or swept: the row no longer occupies the room. *)
Release(r) == rows' = rows \ {r} /\ UNCHANGED <<now, venue>>

UpdateSettings(v) == v # venue /\ venue' = v /\ UNCHANGED <<now, rows>>

Tick == now < MaxNow /\ now' = now + 1 /\ UNCHANGED <<venue, rows>>

Next ==
  \/ \E s \in Starts, d \in Durations : Hold(s, s + d)
  \/ \E r \in rows : Lapse(r) \/ Release(r)
  \/ \E v \in Settings : UpdateSettings(v)
  \/ Tick

AvailabilitySpec == Init /\ [][Next]_vars

-----------------------------------------------------------------------------
(* What the customer is shown. *)

(* Slip: holds that nobody has swept yet keep the room busy. *)
busyIntervals_Unswept(from, to) ==
  {r \in rows : r.startsAt < to /\ from < r.endsAt + TURNAROUND}

(* The slots that meet the range asked about; a hold that is due is as good *)
(* as gone here.                                                            *)
busyIntervals(from, to) ==
  {r \in rows : r.life = "live" /\ r.startsAt < to /\ from < r.endsAt + TURNAROUND}

ceilToGrid(t) == ((t + GRID - 1) \div GRID) * GRID

(* Slip: the interval asked for, not the one that would be occupied. *)
Clashes_Requested(busy, startsAt, endsAt) ==
  \E b \in busy : b.startsAt < endsAt /\ b.endsAt + TURNAROUND > startsAt

Clashes(busy, startsAt, endsAt) ==
  \E b \in busy : b.startsAt < endsAt + TURNAROUND /\ b.endsAt + TURNAROUND > startsAt

(* enumerate's loop: the grid from the later of opening and from, as long   *)
(* as the slot ends inside the window and the range.                        *)
enumerate(from, to, duration) ==
  {c \in from..to :
     /\ OnGrid(c) /\ c + duration <= to
     /\ \E w \in openWindowsBetween(venue, from, to) :
          c >= ceilToGrid(w.opensAt) /\ c + duration <= w.closesAt
     /\ ~Clashes(busyIntervals(from, to), c, c + duration)
     /\ c >= now + MIN_LEAD}

(* A length above the room's is refused; one below its minimum is not.      *)
forRoom(from, to, duration) ==
  IF duration > MaxDuration THEN {} ELSE enumerate(from, to, duration)

freeRoom(from, to) == ~ \E r \in rows : r.life = "live" /\ Meets(r, from, to)

(* Slip: a window counts in full as soon as it meets the range. *)
OpenFor_Unclipped(w, from, to) == w.closesAt - w.opensAt

OpenFor(w, from, to) == (IF w.closesAt < to THEN w.closesAt ELSE to)
                          - (IF w.opensAt > from THEN w.opensAt ELSE from)

(* The denominator of the report's utilisation, for one room. *)
openMinutes(from, to) ==
  LET windows == openWindowsBetween(venue, from, to) IN
  SumOver([w \in windows |-> OpenFor(w, from, to)], windows)

SearchLists(from, to) == isWithinOperatingHours(venue, from, to) /\ freeRoom(from, to)

-----------------------------------------------------------------------------
(* A hold of this slot would have to displace one whose time is up just now. *)
InTheWayOfDue(startsAt, endsAt) == \E r \in rows : r.life = "due" /\ Meets(r, startsAt, endsAt)

(* A slot that the calendar or search advertises would be granted, by the   *)
(* clock and the rows it was computed from.  The code is more generous than *)
(* "never enumerate a start time the hold path is going to refuse", and not *)
(* claimed is what it advertises and a hold is refused:                     *)
(* - a length below the room's minimum or off the grid, which the calendar  *)
(*   enumerates (search looks at no length and no lead time at all);        *)
(* - a slot beyond the booking horizon, which enumerate does not know;      *)
(* - one so close to the end of the range asked about that its turnaround   *)
(*   reaches beyond it, where busy rows are not read;                       *)
(* - one that a hold occupies whose time is up at this very instant: the    *)
(*   calendar drops it at <=, the hold path expires it at <.                *)
AdvertisedIsBookable ==
  /\ \A q \in Queries, d \in AskedDurations : \A c \in forRoom(q.from, q.to, d) :
       HoldAccepts(c, c + d) \/ d < MinDuration \/ ~OnGrid(d) \/ c - now > MAX_LEAD
         \/ c + d + TURNAROUND > q.to \/ InTheWayOfDue(c, c + d)
  /\ \A s \in Starts, d \in Durations :
       assertBookable(s, s + d) /\ OnGrid(s) /\ SearchLists(s, s + d)
         => HoldAccepts(s, s + d) \/ InTheWayOfDue(s, s + d)

(* And a slot that would be granted is advertised by both: nothing is kept  *)
(* from the customer by an unswept hold, by a window that opened on the day *)
(* before, or by the range's start being off the grid.                      *)
BookableIsAdvertised ==
  \A q \in Queries, d \in Durations : \A c \in q.from..(q.to - d) :
    HoldAccepts(c, c + d) => c \in forRoom(q.from, q.to, d) /\ SearchLists(c, c + d)

(* The doors open and close when the clock on the wall says so, on the date *)
(* they should, although the clock may change while they are open.          *)
WindowsFollowTheClock ==
  \A date \in 1..(2 * WEEK) : \A w \in windowForLocalDate(venue, date) :
    LET spec == venue.hours[date % WEEK] IN
    /\ LocalDate(venue.zone, w.opensAt) = date
    /\ LocalClock(venue.zone, w.opensAt) = spec.open
    /\ LocalClock(venue.zone, w.closesAt) = spec.close % DAY
    /\ LocalDate(venue.zone, w.closesAt) = IF spec.close <= spec.open \/ spec.close = DAY
                                             THEN date + 1 ELSE date

(* The report's open time is the time the venue is open, over any range and *)
(* across a change of the clocks, as long as no window is still open when   *)
(* the next one opens: such hours are counted twice.                        *)
OpenTimeCounted ==
  \A q \in Queries :
    LET windows == openWindowsBetween(venue, q.from, q.to)
        OpenAt(t) == \E w \in windows : w.opensAt <= t /\ t < w.closesAt IN
    (\A v, w \in windows : v.opensAt < w.opensAt => v.closesAt <= w.opensAt)
      => openMinutes(q.from, q.to) = Cardinality({t \in q.from..(q.to - 1) : OpenAt(t)})

(* What operating-hours.ts says of isWithinOperatingHours, "an overnight    *)
(* window opened yesterday can still be open now": a booking inside any     *)
(* open window is within the operating hours.                               *)
InsideWindowIsOpen ==
  \A q \in Queries, d \in Durations : \A c \in q.from..(q.to - d) :
    (\E w \in openWindowsBetween(venue, q.from, q.to) : w.opensAt <= c /\ c + d <= w.closesAt)
      => isWithinOperatingHours(venue, c, c + d)

=============================================================================
