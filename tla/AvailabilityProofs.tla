------------------------- MODULE AvailabilityProofs -------------------------
(***************************************************************************)
(* What the calendar and search advertise is what a hold is granted, doors *)
(* follow the clock on the wall, and open time is counted once: for every  *)
(* zone, week, grid and set of rows, as long as the venue's doors keep     *)
(* clear of its clock change (Orderly), and, where the previous day has to *)
(* be found, the change does not hide it (YesterdayReached).               *)
(*                                                                         *)
(* All of it rests on one fact: at a reading that exists once, fromLocal   *)
(* finds the instant that divides the readings before it from those after  *)
(* it (Reads).  From there on, windows are compared by their readings.     *)
(***************************************************************************)
EXTENDS Availability, SumsProofs

-----------------------------------------------------------------------------
(* Division by a number that is not a numeral. *)

(* Multiples of a number lie at least that number apart. *)
LEMMA Product ==
  ASSUME NEW d \in Nat \ {0}, NEW a \in Int, NEW b \in Int, a < b
  PROVE  a * d + d <= b * d
<1>1. b - a >= 1 /\ b - a \in Int OBVIOUS
<1>2. (b - a) * d >= d BY <1>1
<1>3. (b - a) * d = b * d - a * d BY <1>1
<1> QED BY <1>2, <1>3

(* Quotient and remainder make up the number, *)
LEMMA Division ==
  ASSUME NEW t \in Int, NEW d \in Nat \ {0}
  PROVE  /\ t \div d \in Int /\ t % d \in 0..(d - 1)
         /\ t = (t \div d) * d + (t % d)
OBVIOUS

(* and nothing else does. *)
LEMMA DivisionUnique ==
  ASSUME NEW d \in Nat \ {0}, NEW q \in Int, NEW r \in 0..(d - 1)
  PROVE  (q * d + r) \div d = q /\ (q * d + r) % d = r
<1> DEFINE t == q * d + r
           p == t \div d
           s == t % d
<1>0. q * d \in Int /\ t \in Int OBVIOUS
<1>1. p \in Int /\ s \in 0..(d - 1) /\ t = p * d + s
  BY <1>0, Division
<1>2. p * d \in Int BY <1>1
<1>3. q * d + r = p * d + s BY <1>1
<1> HIDE DEF t, p, s
<1>4. ~(p < q) 
  BY <1>0, <1>1, <1>2, <1>3, Product
<1>5. ~(q < p) 
  BY <1>0, <1>1, <1>2, <1>3, Product
<1>6. p = q BY <1>1, <1>4, <1>5
<1>7. s = r BY <1>0, <1>1, <1>3, <1>6
<1> QED BY <1>6, <1>7 DEF p, s, t

(* A number below the divisor is its own remainder. *)
LEMMA RemainderOfSmall ==
  ASSUME NEW d \in Nat \ {0}, NEW n \in 0..(d - 1)
  PROVE  n % d = n
<1>1. 0 * d + n = n
  OBVIOUS
<1>2. (0 * d + n) % d = n
  BY DivisionUnique
<1> QED BY <1>1, <1>2

-----------------------------------------------------------------------------
(* Zones, readings and windows. *)

ZoneOK(zone) == zone.changes \in Int /\ zone.before \in Int /\ zone.after \in Int

VenueOK(v) ==
  /\ ZoneOK(v.zone)
  /\ \A day \in 0..(WEEK - 1) :
       v.hours[day] = Closed \/ v.hours[day] \in [open : 0..DAY, close : 0..DAY]

(* The instant t is the one the clock on the wall reads r at. *)
Reads(zone, t, r) ==
  /\ t \in Int /\ r \in Int /\ toLocal(zone, t) = r
  /\ \A s \in Int : s < t <=> toLocal(zone, s) < r

(* A reading is the instant moved by one of the two offsets. *)
LEMMA LocalIsInt ==
  ASSUME NEW zone, ZoneOK(zone), NEW t \in Int
  PROVE  /\ zoneOffset(zone, t) \in {zone.before, zone.after}
         /\ toLocal(zone, t) \in Int
         /\ t < zone.changes => toLocal(zone, t) = t + zone.before
         /\ t >= zone.changes => toLocal(zone, t) = t + zone.after
BY DEF ZoneOK, zoneOffset, toLocal

(* A reading that is neither skipped nor repeated is before the change in   *)
(* both offsets, or in neither.                                             *)
LEMMA ReadOnce ==
  ASSUME NEW zone, ZoneOK(zone), NEW r \in Int, r \notin Shifted(zone)
  PROVE  r - zone.before < zone.changes <=> r - zone.after < zone.changes
BY DEF ZoneOK, Shifted

(* The fixed-point search finds the instant of such a reading in its three  *)
(* rounds, whatever the offsets are.                                        *)
LEMMA FromLocalInverts ==
  ASSUME NEW zone, ZoneOK(zone), NEW date \in Int, NEW clock \in Int,
         date * DAY + clock \notin Shifted(zone)
  PROVE  Reads(zone, fromLocal(zone, date, clock), date * DAY + clock)
<1> DEFINE r == date * DAY + clock
           t == fromLocal(zone, date, clock)
<1>1. r \in Int
  BY CalendarAssumption
<1>2. r - zone.before < zone.changes <=> r - zone.after < zone.changes
  BY <1>1, ReadOnce
<1>3. /\ r - zone.before < zone.changes => t = r - zone.before
      /\ r - zone.before >= zone.changes => t = r - zone.after
  <2>1. t = r - zoneOffset(zone, r - zoneOffset(zone, r - zoneOffset(zone, r)))
    BY DEF fromLocal, Correct
  <2> HIDE DEF r, t
  <2> QED BY <1>1, <1>2, <2>1 DEF ZoneOK, zoneOffset
<1> HIDE DEF r, t
<1>4. t \in Int /\ toLocal(zone, t) = r
  BY <1>1, <1>2, <1>3 DEF ZoneOK, zoneOffset, toLocal
<1>5. ASSUME NEW s \in Int PROVE s < t <=> toLocal(zone, s) < r
  BY <1>1, <1>2, <1>3 DEF ZoneOK, zoneOffset, toLocal
<1> QED BY <1>1, <1>4, <1>5 DEF Reads, r, t

(* A reading is its date and its time of day, *)
LEMMA LocalReading ==
  ASSUME NEW zone, ZoneOK(zone), NEW t \in Int
  PROVE  /\ LocalDate(zone, t) \in Int /\ LocalClock(zone, t) \in 0..(DAY - 1)
         /\ toLocal(zone, t) = LocalDate(zone, t) * DAY + LocalClock(zone, t)
<1> DEFINE r == toLocal(zone, t)
<1>1. r \in Int
  BY LocalIsInt
<1> HIDE DEF r
<1>2. r \div DAY \in Int /\ r % DAY \in 0..(DAY - 1) /\ r = (r \div DAY) * DAY + (r % DAY)
  BY <1>1, Division, CalendarAssumption
<1> QED BY <1>2 DEF LocalDate, LocalClock, r

(* and of no other date or time. *)
LEMMA DateAndClock ==
  ASSUME NEW zone, NEW t, NEW date \in Int, NEW clock \in 0..(DAY - 1),
         toLocal(zone, t) = date * DAY + clock
  PROVE  LocalDate(zone, t) = date /\ LocalClock(zone, t) = clock
BY DivisionUnique, CalendarAssumption DEF LocalDate, LocalClock

(* The day after is the next date: noon and a day later is still that date, *)
(* if a change of the clocks is less than half a day.                       *)
LEMMA NextDay ==
  ASSUME NEW zone, ZoneOK(zone), -DAY < 2 * Shift(zone), 2 * Shift(zone) < DAY,
         NEW date \in Int
  PROVE  nextLocalDay(zone, date) = date + 1
<1> DEFINE noon == DAY \div 2
           r == date * DAY + noon
           u == r - zoneOffset(zone, r)
           w == r - zoneOffset(zone, u)
           n == r - zoneOffset(zone, w)
<1>1. noon \in Int /\ 2 * noon <= DAY /\ DAY <= 2 * noon + 1 /\ date * DAY \in Int
  BY CalendarAssumption
<1>2. fromLocal(zone, date, noon) = n
  BY DEF fromLocal, Correct
<1>3. r \in Int /\ n + DAY \in Int /\ zoneOffset(zone, w) \in {zone.before, zone.after}
  <2> HIDE DEF noon
  <2>1. r \in Int
    BY <1>1
  <2> HIDE DEF r
  <2>2. u \in Int
    BY <2>1, LocalIsInt DEF ZoneOK
  <2> HIDE DEF u
  <2>3. w \in Int
    BY <2>1, <2>2, LocalIsInt DEF ZoneOK
  <2> HIDE DEF w
  <2> QED BY <2>1, <2>3, LocalIsInt, CalendarAssumption DEF ZoneOK
<1>4. \E k \in 0..(DAY - 1) : toLocal(zone, n + DAY) = (date + 1) * DAY + k
  <2> DEFINE off == zoneOffset(zone, n + DAY)
             k == noon + off - zoneOffset(zone, w)
  <2>1. off \in {zone.before, zone.after}
    BY <1>3, LocalIsInt
  <2>2. toLocal(zone, n + DAY) = r - zoneOffset(zone, w) + DAY + off
    BY DEF toLocal
  <2>3. (date + 1) * DAY = date * DAY + DAY
    BY CalendarAssumption
  <2> HIDE DEF off, noon, w
  <2>4. k \in 0..(DAY - 1)
    BY <1>1, <1>3, <2>1, CalendarAssumption DEF ZoneOK, Shift
  <2>5. toLocal(zone, n + DAY) = (date + 1) * DAY + k
    BY <1>1, <1>3, <2>1, <2>2, <2>3, CalendarAssumption DEF ZoneOK
  <2> QED BY <2>4, <2>5
<1> HIDE DEF n
<1> QED BY <1>2, <1>4, DateAndClock DEF nextLocalDay

(* The readings of a date at which doors open and close exist once. *)
LEMMA DoorsOpen ==
  ASSUME NEW v, VenueOK(v), Orderly(v), NEW date \in Int,
         v.hours[date % WEEK] # Closed
  PROVE  LET spec == v.hours[date % WEEK] IN
         /\ spec.open \in 0..(DAY - 1) /\ spec.close \in 0..DAY
         /\ date * DAY + spec.open \notin Shifted(v.zone)
         /\ date * DAY + ClosingReading(spec) \notin Shifted(v.zone)
         /\ spec.close = DAY => date * DAY \notin Shifted(v.zone)
<1> DEFINE spec == v.hours[date % WEEK]
<1>1. date % WEEK \in 0..(WEEK - 1)
  BY Division, CalendarAssumption
<1> HIDE DEF spec
<1>2. spec \in [open : 0..DAY, close : 0..DAY] /\ spec.open < DAY
  BY <1>1 DEF VenueOK, Orderly, spec
<1>3. spec.open \in 0..(DAY - 1) /\ spec.close \in 0..DAY
  BY <1>2, CalendarAssumption
<1>4. ASSUME NEW x \in 0..(2 * DAY - 1), date * DAY + x \in DoorReadings(v, date)
      PROVE  date * DAY + x \notin Shifted(v.zone)
  <2> DEFINE r == date * DAY + x
  <2>1. date \in {r \div DAY - 1, r \div DAY}
    <3>1. CASE x < DAY
      BY <3>1, DivisionUnique, CalendarAssumption
    <3>2. CASE x >= DAY
      <4> DEFINE q == date + 1
                 y == x - DAY
      <4>1. r = q * DAY + y /\ y \in 0..(DAY - 1) /\ q \in Int
        BY <3>2, CalendarAssumption
      <4>2. r \div DAY = q
        <5> HIDE DEF r, q, y
        <5> QED BY <4>1, DivisionUnique, CalendarAssumption
      <4> QED BY <4>2
    <3> QED BY <3>1, <3>2, CalendarAssumption
  <2> QED BY <1>4, <2>1 DEF Orderly
<1>5. DoorReadings(v, date) =
        {date * DAY + spec.open, date * DAY + ClosingReading(spec)}
          \cup (IF spec.close = DAY THEN {date * DAY} ELSE {})
  BY DEF DoorReadings, spec
<1>6. spec.open \in 0..(2 * DAY - 1) /\ ClosingReading(spec) \in 0..(2 * DAY - 1) /\ 0 \in 0..(2 * DAY - 1)
  BY <1>3, CalendarAssumption DEF ClosingReading
<1>7. date * DAY + 0 = date * DAY
  BY CalendarAssumption
<1>8. /\ date * DAY + spec.open \notin Shifted(v.zone)
      /\ date * DAY + ClosingReading(spec) \notin Shifted(v.zone)
      /\ spec.close = DAY => date * DAY \notin Shifted(v.zone)
  BY <1>4, <1>5, <1>6, <1>7
<1> QED BY <1>3, <1>8 DEF spec

(* The window of a date opens and closes at its readings, overnight and at  *)
(* 24:00 too.                                                               *)
LEMMA WindowReads ==
  ASSUME NEW v, VenueOK(v), Orderly(v), NEW date \in Int,
         NEW w \in windowForLocalDate(v, date)
  PROVE  LET spec == v.hours[date % WEEK] IN
         /\ spec # Closed /\ spec.open \in 0..(DAY - 1) /\ spec.close \in 0..DAY
         /\ w = [opensAt |-> w.opensAt, closesAt |-> w.closesAt]
         /\ Reads(v.zone, w.opensAt, date * DAY + spec.open)
         /\ Reads(v.zone, w.closesAt, date * DAY + ClosingReading(spec))
<1> DEFINE spec == v.hours[date % WEEK]
           z == v.zone
           opens == fromLocal(z, date, spec.open)
           day == IF spec.close <= spec.open THEN date + 1 ELSE date
           closes == fromLocal(z, day, spec.close % DAY)
           shut == ClosesAt(z, spec, date)
<1>1. spec # Closed /\ w = [opensAt |-> opens, closesAt |-> shut]
  BY DEF windowForLocalDate
<1> HIDE DEF spec, shut
<1>2. /\ spec.open \in 0..(DAY - 1) /\ spec.close \in 0..DAY
      /\ date * DAY + spec.open \notin Shifted(z)
      /\ date * DAY + ClosingReading(spec) \notin Shifted(z)
      /\ spec.close = DAY => date * DAY \notin Shifted(z)
  BY <1>1, DoorsOpen DEF spec
<1>3. ZoneOK(z) /\ nextLocalDay(z, date) = date + 1
  BY NextDay DEF VenueOK, Orderly
<1>4. Reads(z, opens, date * DAY + spec.open)
  BY <1>2, <1>3, FromLocalInverts
<1>5. shut = IF ~(spec.close <= spec.open) /\ closes <= opens
               THEN fromLocal(z, date + 1, 0) ELSE closes
  BY <1>3 DEF ClosesAt, shut
<1>6. (date + 1) * DAY = date * DAY + DAY /\ date * DAY \in Int /\ DAY \in Nat \ {0}
  BY CalendarAssumption
<1>7. CASE spec.close = DAY
  <2>1. spec.close % DAY = 0
    BY <1>6, <1>7
  <2>2. ClosingReading(spec) = DAY /\ ~(spec.close <= spec.open)
    BY <1>2, <1>6, <1>7 DEF ClosingReading
  <2>3. Reads(z, closes, date * DAY)
    <3>1. date * DAY + 0 = date * DAY
      BY <1>6
    <3> QED BY <1>2, <1>3, <1>7, <2>1, <2>2, <3>1, FromLocalInverts
  <2>4. Reads(z, fromLocal(z, date + 1, 0), date * DAY + DAY)
    <3>1. (date + 1) * DAY + 0 = date * DAY + DAY /\ date + 1 \in Int
      BY <1>6
    <3> QED BY <1>2, <1>3, <2>2, <3>1, FromLocalInverts
  <2> HIDE DEF closes, opens
  <2>5. closes <= opens
    BY <1>2, <1>4, <1>6, <2>3 DEF Reads
  <2> QED BY <1>1, <1>2, <1>4, <1>5, <2>2, <2>4, <2>5 DEF opens, spec
<1>8. CASE spec.close # DAY
  <2>1. spec.close \in 0..(DAY - 1) /\ spec.close % DAY = spec.close
    <3>1. spec.close \in 0..DAY
      BY <1>2
    <3>2. spec.close \in 0..(DAY - 1)
      BY <1>8, <3>1, CalendarAssumption
    <3> QED BY <1>6, <3>2, RemainderOfSmall
  <2>2. day * DAY + (spec.close % DAY) = date * DAY + ClosingReading(spec)
    BY <1>2, <1>6, <2>1 DEF ClosingReading
  <2>3. Reads(z, closes, date * DAY + ClosingReading(spec))
    <3>1. day \in Int /\ spec.close % DAY \in Int
      BY <2>1
    <3> HIDE DEF day
    <3> QED BY <1>2, <1>3, <2>2, <3>1, FromLocalInverts
  <2> HIDE DEF closes, opens
  <2>4. ~(spec.close <= spec.open) => ~(closes <= opens)
    <3>1. ClosingReading(spec) \in Int
      BY <1>2, <1>6 DEF ClosingReading
    <3> QED BY <1>2, <1>4, <1>6, <2>3, <3>1 DEF ClosingReading, Reads
  <2>5. shut = closes
    BY <1>5, <2>4
  <2> QED BY <1>1, <1>2, <1>4, <2>3, <2>5 DEF opens, spec
<1> QED BY <1>7, <1>8

(* Later readings have later dates. *)
LEMMA DateMonotone ==
  ASSUME NEW zone, ZoneOK(zone), NEW s \in Int, NEW t \in Int,
         toLocal(zone, s) <= toLocal(zone, t)
  PROVE  LocalDate(zone, s) <= LocalDate(zone, t)
<1> DEFINE p == LocalDate(zone, s)
           q == LocalDate(zone, t)
<1>1. /\ p \in Int /\ LocalClock(zone, s) \in 0..(DAY - 1)
      /\ toLocal(zone, s) = p * DAY + LocalClock(zone, s)
      /\ q \in Int /\ LocalClock(zone, t) \in 0..(DAY - 1)
      /\ toLocal(zone, t) = q * DAY + LocalClock(zone, t)
  BY LocalReading
<1> HIDE DEF p, q
<1>2. p * DAY \in Int /\ q * DAY \in Int /\ DAY \in Nat \ {0}
  BY <1>1, CalendarAssumption
<1>3. ~(q < p)
  <2>1. q < p => q * DAY + DAY <= p * DAY
    BY <1>1, <1>2, Product
  <2> QED BY <1>1, <1>2, <2>1
<1> QED BY <1>1, <1>3 DEF p, q

(* A booking inside a window is within the operating hours: its window is   *)
(* that of its own date or of the date 24 hours before.                     *)
LEMMA InsideIsWithin ==
  ASSUME NEW v, VenueOK(v), Orderly(v), YesterdayReached(v), NEW date \in Int,
         NEW w \in windowForLocalDate(v, date), NEW s \in Int, NEW e \in Int,
         w.opensAt <= s, s < e, e <= w.closesAt
  PROVE  isWithinOperatingHours(v, s, e)
<1> DEFINE spec == v.hours[date % WEEK]
           z == v.zone
<1>1. /\ spec.open \in 0..(DAY - 1) /\ spec.close \in 0..DAY
      /\ Reads(z, w.opensAt, date * DAY + spec.open)
      /\ Reads(z, w.closesAt, date * DAY + ClosingReading(spec))
  BY WindowReads
<1>2. ZoneOK(z) /\ date * DAY \in Int /\ DAY \in Nat \ {0}
  BY CalendarAssumption DEF VenueOK
<1>3. toLocal(z, s) \in Int /\ toLocal(z, s - DAY) \in Int
  BY <1>2, LocalIsInt
<1> HIDE DEF spec, z
<1>4. ClosingReading(spec) \in Int
  BY <1>1, <1>2 DEF ClosingReading
<1>5. date * DAY + spec.open <= toLocal(z, s) /\ toLocal(z, s) < date * DAY + ClosingReading(spec)
  BY <1>1, <1>2, <1>3, <1>4 DEF Reads
<1>6. SUFFICES date \in {LocalDate(z, s), LocalDate(z, s - DAY)}
  BY <1>1, <1>6 DEF isWithinOperatingHours, z, Reads
<1>7. CASE toLocal(z, s) < date * DAY + DAY
  <2> DEFINE c == toLocal(z, s) - date * DAY
  <2>1. c \in 0..(DAY - 1) /\ toLocal(z, s) = date * DAY + c
    BY <1>1, <1>2, <1>3, <1>5, <1>7
  <2> QED BY <1>2, <2>1, DateAndClock
<1>8. CASE toLocal(z, s) >= date * DAY + DAY
  <2> DEFINE c == toLocal(z, s) - date * DAY - DAY
             today == date + 1
  <2>1. spec.close <= spec.open /\ c \in 0..(DAY - 1) /\ c < spec.close
    BY <1>1, <1>2, <1>3, <1>4, <1>5, <1>8 DEF ClosingReading
  <2>2. toLocal(z, s) = today * DAY + c /\ today \in Int /\ today - 1 = date
    BY <1>2, <1>3
  <2>3. LocalDate(z, s) = today /\ LocalClock(z, s) = c
    <3> HIDE DEF c, today
    <3> QED BY <2>1, <2>2, DateAndClock
  <2>4. CASE s \in z.changes .. (z.changes + DAY - 1)
    BY <2>1, <2>2, <2>3, <2>4 DEF YesterdayReached, z, spec
  <2>5. CASE s \notin z.changes .. (z.changes + DAY - 1)
    <3>1. toLocal(z, s - DAY) = date * DAY + c
      BY <1>2, <1>3, <2>5 DEF ZoneOK, toLocal, zoneOffset
    <3> QED BY <1>2, <2>1, <3>1, DateAndClock
  <2> QED BY <2>4, <2>5
<1> QED BY <1>2, <1>3, <1>7, <1>8

(* The walk along the local calendar comes by every window that             *)
(* isWithinOperatingHours could find for an instant of the range, also      *)
(* where the clocks go back between the two.                                *)
LEMMA WalkMeets ==
  ASSUME NEW v, VenueOK(v), Orderly(v), NEW date \in Int,
         NEW w \in windowForLocalDate(v, date),
         NEW s \in Int, NEW from \in Int, NEW to \in Int,
         w.opensAt <= s, s < w.closesAt, from <= s, s < to,
         date \in {LocalDate(v.zone, s), LocalDate(v.zone, s - DAY)}
  PROVE  w \in openWindowsBetween(v, from, to)
<1> DEFINE spec == v.hours[date % WEEK]
           z == v.zone
<1>1. /\ spec.open \in 0..(DAY - 1) /\ spec.close \in 0..DAY
      /\ Reads(z, w.opensAt, date * DAY + spec.open)
      /\ Reads(z, w.closesAt, date * DAY + ClosingReading(spec))
  BY WindowReads
<1>2. /\ ZoneOK(z) /\ date * DAY \in Int /\ DAY \in Nat \ {0}
      /\ -DAY < 2 * Shift(z) /\ 2 * Shift(z) < DAY
  BY CalendarAssumption DEF VenueOK, Orderly
<1>3. /\ LocalDate(z, from - DAY) \in Int /\ LocalDate(z, to + DAY) \in Int
      /\ from - DAY \in Int /\ to + DAY \in Int /\ s - DAY \in Int
  <2>1. from - DAY \in Int /\ to + DAY \in Int /\ s - DAY \in Int
    BY <1>2
  <2> QED BY <1>2, <2>1, LocalReading
<1>4. date <= LocalDate(z, to + DAY)
  <2>1. toLocal(z, s) <= toLocal(z, to + DAY) /\ toLocal(z, s - DAY) <= toLocal(z, to + DAY)
    BY <1>2 DEF ZoneOK, Shift, toLocal, zoneOffset
  <2> QED BY <1>2, <1>3, <2>1, DateMonotone
<1>5. LocalDate(z, from - DAY) <= date
  <2> SUFFICES ASSUME date + 1 <= LocalDate(z, from - DAY)
               PROVE  FALSE
    BY <1>3
  <2>1. date * DAY + DAY <= toLocal(z, from - DAY)
    <3> DEFINE q == LocalDate(z, from - DAY)
    <3>1. q \in Int /\ LocalClock(z, from - DAY) \in 0..(DAY - 1)
          /\ toLocal(z, from - DAY) = q * DAY + LocalClock(z, from - DAY)
      BY <1>2, <1>3, LocalReading
    <3> HIDE DEF q
    <3>2. date * DAY + DAY <= q * DAY
      <4>1. date < q
        BY <1>3 DEF q
      <4> QED BY <1>2, <3>1, <4>1, Product
    <3> QED BY <1>2, <3>1, <3>2
  <2>2. ASSUME NEW t \in Int, LocalDate(z, t) = date
        PROVE  toLocal(z, t) < date * DAY + DAY
    BY <1>2, <2>2, LocalReading
  <2>3. CASE date = LocalDate(z, s)
    <3>1. toLocal(z, s) < date * DAY + DAY
      BY <2>2, <2>3
    <3> QED BY <1>2, <2>1, <3>1 DEF ZoneOK, Shift, toLocal, zoneOffset
  <2>4. CASE date = LocalDate(z, s - DAY)
    <3>1. toLocal(z, s - DAY) < date * DAY + DAY
      BY <1>3, <2>2, <2>4
    <3> HIDE DEF spec, z
    <3>2. ClosingReading(spec) \in Int /\ ClosingReading(spec) <= spec.open + DAY
      BY <1>1, <1>2 DEF ClosingReading
    <3>3. /\ toLocal(z, s) \in Int /\ toLocal(z, s) < date * DAY + ClosingReading(spec)
      BY <1>1, <1>2, LocalIsInt DEF Reads
    <3>4. from - DAY >= w.opensAt
      <4>1. toLocal(z, from - DAY) \in Int
        BY <1>2, <1>3, LocalIsInt
      <4> QED BY <1>1, <1>2, <1>3, <2>1, <4>1 DEF Reads
    <3>5. date * DAY + spec.open <= toLocal(z, s - DAY)
      <4>1. toLocal(z, s - DAY) \in Int
        BY <1>2, <1>3, LocalIsInt
      <4> QED BY <1>1, <1>2, <1>3, <3>4, <4>1 DEF Reads
    <3>6. CASE s - DAY < z.changes /\ z.changes <= s
      BY <1>2, <2>1, <3>1, <3>6 DEF ZoneOK, toLocal, zoneOffset
    <3>7. CASE ~(s - DAY < z.changes /\ z.changes <= s)
      <4>1. toLocal(z, s) = toLocal(z, s - DAY) + DAY
        BY <1>2, <3>7 DEF ZoneOK, toLocal, zoneOffset
      <4>2. toLocal(z, s - DAY) \in Int
        BY <1>2, <1>3, LocalIsInt
      <4> QED BY <1>1, <1>2, <3>2, <3>3, <3>5, <4>1, <4>2
    <3> QED BY <3>6, <3>7
  <2> QED BY <2>3, <2>4
<1>6. date \in LocalDate(z, from - DAY) .. LocalDate(z, to + DAY)
  BY <1>3, <1>4, <1>5
<1>7. w.opensAt \in Int /\ w.closesAt \in Int
  BY <1>1 DEF Reads
<1> QED BY <1>6, <1>7 DEF openWindowsBetween

-----------------------------------------------------------------------------
(* The settings are one of those given, and rows are rows. *)
AInv == now \in Nat /\ venue \in Settings /\ rows \subseteq Row

(* The venue keeps one of its settings and the rows stay rows: a hold       *)
(* writes the interval it was asked for, a lapse and a release change no    *)
(* interval.                                                                *)
THEOREM AvailabilityTypeCorrect == AvailabilitySpec => []AInv
<1>1. Init => AInv
  BY DEF Init, AInv
<1>2. AInv /\ [Next]_vars => AInv'
  <2> SUFFICES ASSUME AInv, [Next]_vars PROVE AInv'
    OBVIOUS
  <2> USE DEF AInv
  <2>1. ASSUME NEW s \in Starts, NEW d \in Durations, Hold(s, s + d) PROVE AInv'
    <3>1. s \in Int /\ s + d \in Int
      BY GridAssumption DEF Durations
    <3>2. [startsAt |-> s, endsAt |-> s + d, life |-> "live"] \in Row
      BY <3>1 DEF Row
    <3> QED BY <2>1, <3>2 DEF Hold, LiveRows
  <2>2. ASSUME NEW r \in rows, Lapse(r) PROVE AInv'
    <3>1. [r EXCEPT !.life = IF @ = "live" THEN "due" ELSE "lapsed"] \in Row
      BY DEF Row
    <3> QED BY <2>2, <3>1 DEF Lapse
  <2>3. ASSUME NEW r \in rows, Release(r) PROVE AInv'
    BY <2>3 DEF Release
  <2>4. ASSUME NEW v \in Settings, UpdateSettings(v) PROVE AInv'
    BY <2>4 DEF UpdateSettings
  <2>5. CASE Tick
    BY <2>5 DEF Tick
  <2>6. CASE UNCHANGED vars
    BY <2>6 DEF vars
  <2> QED BY <2>1, <2>2, <2>3, <2>4, <2>5, <2>6 DEF Next
<1> QED BY <1>1, <1>2, PTL DEF AvailabilitySpec

(* So its zone and hours are those the code can have parsed. *)
LEMMA VenueIsOK ==
  ASSUME AInv
  PROVE  VenueOK(venue)
BY SettingsAssumption DEF AInv, VenueOK, ZoneOK

(* A booking of whole grid steps that starts on the grid ends on it. *)
LEMMA GridAdds ==
  ASSUME NEW s \in Int, NEW d \in Int, OnGrid(s), OnGrid(d)
  PROVE  OnGrid(s + d)
<1> DEFINE p == s \div GRID
           q == d \div GRID
<1>1. p \in Int /\ q \in Int /\ s = p * GRID + 0 /\ d = q * GRID + 0
  BY Division, GridAssumption DEF OnGrid
<1> HIDE DEF p, q
<1>2. s + d = (p + q) * GRID + 0 /\ p + q \in Int /\ 0 \in 0..(GRID - 1)
  BY <1>1, GridAssumption
<1>3. ((p + q) * GRID + 0) % GRID = 0
  BY <1>2, DivisionUnique, GridAssumption
<1> QED BY <1>2, <1>3 DEF OnGrid

(* ceilToGrid is the first grid point from there on. *)
LEMMA CeilIsLeast ==
  ASSUME NEW t \in Int
  PROVE  /\ ceilToGrid(t) \in Int /\ t <= ceilToGrid(t)
         /\ \A c \in Int : OnGrid(c) /\ t <= c => ceilToGrid(t) <= c
<1> DEFINE q == (t + GRID - 1) \div GRID
           r == (t + GRID - 1) % GRID
<1>1. q \in Int /\ r \in 0..(GRID - 1) /\ t + GRID - 1 = q * GRID + r
  <2>1. t + GRID - 1 \in Int
    BY GridAssumption
  <2> QED BY <2>1, Division, GridAssumption
<1>2. ceilToGrid(t) = q * GRID
  BY DEF ceilToGrid
<1> HIDE DEF q, r
<1>3. q * GRID \in Int /\ t <= q * GRID
  BY <1>1, GridAssumption
<1>4. ASSUME NEW c \in Int, OnGrid(c), t <= c PROVE q * GRID <= c
  <2> DEFINE p == c \div GRID
  <2>1. p \in Int /\ c = p * GRID + 0
    BY <1>4, Division, GridAssumption DEF OnGrid
  <2> HIDE DEF p
  <2>2. p < q => p * GRID + GRID <= q * GRID
    BY <1>1, <2>1, Product, GridAssumption
  <2>3. p >= q => q * GRID <= p * GRID
    <3>1. q < p => q * GRID + GRID <= p * GRID
      BY <1>1, <2>1, Product, GridAssumption
    <3>2. p * GRID \in Int
      BY <2>1, GridAssumption
    <3> QED BY <1>1, <1>3, <2>1, <3>1, <3>2, GridAssumption
  <2>4. p * GRID \in Int
    BY <2>1, GridAssumption
  <2> QED BY <1>1, <1>3, <1>4, <2>1, <2>2, <2>3, <2>4, GridAssumption
<1> QED BY <1>2, <1>3, <1>4

(* The lengths a booking may have. *)
LEMMA LengthsAreInts ==
  ASSUME NEW d \in Durations
  PROVE  d \in Nat \ {0} /\ OnGrid(d) /\ d \in MinDuration..MaxDuration
BY GridAssumption DEF Durations

(* What occupies the room, as the three pieces of code see it: they differ   *)
(* by the holds whose time is up at this very instant.                       *)

(* Search takes a room for free exactly if the constraint will, once those   *)
(* holds are out of the way.                                                 *)
LEMMA FreeIsFree ==
  ASSUME AInv, NEW s, NEW e
  PROVE  Conflict(s, e) <=> ~freeRoom(s, e) \/ InTheWayOfDue(s, e)
<1>1. \A r \in rows : r.life # "lapsed" <=> r.life = "live" \/ r.life = "due"
  BY DEF AInv, Row
<1> QED BY <1>1 DEF freeRoom, Conflict, InTheWayOfDue

(* A slot that enumerate finds free is free for the constraint, if its      *)
(* turnaround ends within the range read.                                   *)
LEMMA ListedIsFree ==
  ASSUME AInv, NEW from \in Int, NEW to \in Int, NEW s \in Int, NEW e \in Int,
         from <= s, s < e, e + TURNAROUND <= to,
         ~Clashes(busyIntervals(from, to), s, e)
  PROVE  Conflict(s, e) => InTheWayOfDue(s, e)
<1> SUFFICES ASSUME NEW r \in rows, r.life # "lapsed", Meets(r, s, e), r.life # "due"
             PROVE  FALSE
  BY DEF Conflict, InTheWayOfDue
<1>1. r.startsAt \in Int /\ r.endsAt \in Int /\ r.life = "live" /\ TURNAROUND \in Nat
  BY GridAssumption DEF AInv, Row
<1>2. r \in busyIntervals(from, to)
  BY <1>1 DEF busyIntervals, Meets
<1> QED BY <1>1, <1>2 DEF Clashes, Meets

(* A slot that the constraint would take is one that enumerate finds free. *)
LEMMA FreeIsListed ==
  ASSUME AInv, NEW from, NEW to, NEW s \in Int, NEW e \in Int, ~Conflict(s, e)
  PROVE  ~Clashes(busyIntervals(from, to), s, e)
<1> SUFFICES ASSUME NEW r \in busyIntervals(from, to), r.startsAt < e + TURNAROUND,
                    r.endsAt + TURNAROUND > s
             PROVE  FALSE
  BY DEF Clashes
<1>1. r \in rows /\ r.life # "lapsed"
  BY DEF busyIntervals
<1>2. r.startsAt \in Int /\ r.endsAt \in Int /\ TURNAROUND \in Nat
  BY <1>1, GridAssumption DEF AInv, Row
<1> QED BY <1>1, <1>2 DEF Conflict, Meets

(* What the calendar and search advertise, HoldAccepts grants by the same   *)
(* rows and clock, for every length asked for and every range, or it is one *)
(* of the slots AdvertisedIsBookable names: too short or off the grid, too  *)
(* far ahead, at the end of the range, or held by a hold that is just due.  *)
THEOREM AdvertisedSlotsAreGranted ==
  ASSUME \A v \in Settings : Orderly(v) /\ YesterdayReached(v)
  PROVE  AvailabilitySpec => []AdvertisedIsBookable
<1>1. AInv => AdvertisedIsBookable
  <2> SUFFICES ASSUME AInv PROVE AdvertisedIsBookable
    OBVIOUS
  <2>0. VenueOK(venue) /\ Orderly(venue) /\ YesterdayReached(venue) /\ now \in Nat
    BY VenueIsOK DEF AInv
  <2>1. ASSUME NEW q \in Queries, NEW d \in AskedDurations, NEW c \in forRoom(q.from, q.to, d),
               ~(d < MinDuration), OnGrid(d), ~(c - now > MAX_LEAD),
               ~(c + d + TURNAROUND > q.to), ~InTheWayOfDue(c, c + d)
        PROVE  HoldAccepts(c, c + d)
    <3>0. d <= MaxDuration /\ c \in enumerate(q.from, q.to, d)
      BY GridAssumption DEF forRoom, AskedDurations
    <3>1. /\ q.from \in Int /\ q.to \in Int /\ c \in Int /\ q.from <= c
          /\ d \in Nat \ {0} /\ d \in MinDuration..MaxDuration
          /\ MIN_LEAD \in Nat /\ MAX_LEAD \in Nat /\ TURNAROUND \in Nat
          /\ c - now <= MAX_LEAD /\ c + d + TURNAROUND <= q.to
      BY <2>0, <2>1, <3>0, GridAssumption DEF enumerate, AskedDurations
    <3>2. /\ OnGrid(c) /\ c >= now + MIN_LEAD
          /\ ~Clashes(busyIntervals(q.from, q.to), c, c + d)
      BY <3>0 DEF enumerate
    <3>3. PICK w \in openWindowsBetween(venue, q.from, q.to) :
            c >= ceilToGrid(w.opensAt) /\ c + d <= w.closesAt
      BY <3>0 DEF enumerate
    <3>4. PICK date \in LocalDate(venue.zone, q.from - DAY) .. LocalDate(venue.zone, q.to + DAY) :
            w \in windowForLocalDate(venue, date)
      BY <3>3 DEF openWindowsBetween
    <3>5. date \in Int
      OBVIOUS
    <3>6. w.opensAt \in Int
      BY <2>0, <3>4, <3>5, WindowReads DEF Reads
    <3>7. w.opensAt <= c
      BY <3>1, <3>3, <3>6, CeilIsLeast
    <3>8. c + d \in Int /\ c < c + d /\ (c + d) - c = d
      BY <3>1
    <3>9. isWithinOperatingHours(venue, c, c + d)
      BY <2>0, <3>1, <3>3, <3>4, <3>5, <3>7, <3>8, InsideIsWithin
    <3>10. ~Conflict(c, c + d)
      BY <2>1, <3>1, <3>2, <3>8, ListedIsFree
    <3>11. OnGrid(c + d)
      <4>1. d \in Int /\ OnGrid(d)
        BY <2>1, <3>1
      <4> QED BY <4>1, <3>1, <3>2, GridAdds
    <3>12. c - now >= MIN_LEAD
      BY <2>0, <3>1, <3>2
    <3> QED BY <2>1, <3>1, <3>2, <3>8, <3>9, <3>10, <3>11, <3>12 DEF HoldAccepts, assertBookable
  <2>2. ASSUME NEW s \in Starts, NEW d \in Durations,
               assertBookable(s, s + d), OnGrid(s), SearchLists(s, s + d), ~InTheWayOfDue(s, s + d)
        PROVE  HoldAccepts(s, s + d)
    <3>1. s \in Int /\ d \in Int /\ OnGrid(d)
      BY LengthsAreInts, GridAssumption
    <3> QED BY <2>2, <3>1, GridAdds, FreeIsFree DEF HoldAccepts, SearchLists
  <2> QED BY <2>1, <2>2 DEF AdvertisedIsBookable
<1> QED BY <1>1, AvailabilityTypeCorrect, PTL

(* And what HoldAccepts grants is advertised by both: neither the walk over *)
(* windows nor the grid nor an unswept hold keeps a slot from the customer. *)
THEOREM GrantedSlotsAreAdvertised ==
  ASSUME \A v \in Settings : Orderly(v)
  PROVE  AvailabilitySpec => []BookableIsAdvertised
<1>1. AInv => BookableIsAdvertised
  <2> SUFFICES ASSUME AInv, NEW q \in Queries, NEW d \in Durations, NEW c \in q.from..(q.to - d),
                      HoldAccepts(c, c + d)
               PROVE  c \in forRoom(q.from, q.to, d) /\ SearchLists(c, c + d)
    BY DEF BookableIsAdvertised
  <2>0. VenueOK(venue) /\ Orderly(venue) /\ now \in Nat
    BY VenueIsOK DEF AInv
  <2>1. /\ q.from \in Int /\ q.to \in Int /\ d \in Nat \ {0} /\ MIN_LEAD \in Nat
        /\ c \in Int /\ q.from <= c /\ c + d <= q.to /\ c < q.to /\ c \in q.from..q.to
        /\ c + d \in Int
    BY LengthsAreInts, GridAssumption
  <2>2. /\ OnGrid(c) /\ isWithinOperatingHours(venue, c, c + d) /\ ~Conflict(c, c + d)
        /\ c >= now + MIN_LEAD
    BY <2>0, <2>1 DEF HoldAccepts, assertBookable
  <2>3. PICK date \in {LocalDate(venue.zone, c), LocalDate(venue.zone, c - DAY)} :
          \E w \in windowForLocalDate(venue, date) : c >= w.opensAt /\ c + d <= w.closesAt
    BY <2>2 DEF isWithinOperatingHours
  <2>4. PICK w \in windowForLocalDate(venue, date) : c >= w.opensAt /\ c + d <= w.closesAt
    BY <2>3
  <2>5. date \in Int
    <3>1. c - DAY \in Int
      BY <2>1, CalendarAssumption
    <3> QED BY <2>0, <2>1, <2>3, <3>1, LocalReading DEF VenueOK
  <2>6. w.opensAt \in Int /\ w.closesAt \in Int
    BY <2>0, <2>5, WindowReads DEF Reads
  <2>7. w \in openWindowsBetween(venue, q.from, q.to)
    <3>1. c < w.closesAt /\ w.opensAt <= c
      BY <2>1, <2>4, <2>6
    <3> QED BY <2>0, <2>1, <2>3, <2>5, <3>1, WalkMeets
  <2>8. c >= ceilToGrid(w.opensAt)
    BY <2>1, <2>2, <2>4, <2>6, CeilIsLeast
  <2>9. c \in enumerate(q.from, q.to, d)
    BY <2>1, <2>2, <2>4, <2>7, <2>8, FreeIsListed DEF enumerate
  <2>10. d \in MinDuration..MaxDuration /\ MaxDuration \in Nat
    BY LengthsAreInts, GridAssumption
  <2>11. c \in forRoom(q.from, q.to, d)
    BY <2>1, <2>9, <2>10 DEF forRoom
  <2> QED BY <2>2, <2>11, FreeIsFree DEF SearchLists
<1> QED BY <1>1, AvailabilityTypeCorrect, PTL

(* A booking inside any open window is within the operating hours, as the   *)
(* comment on isWithinOperatingHours says, where yesterday is reached: the  *)
(* step of 24 hours across a change is all that can break it.               *)
THEOREM OnlyTheChangeUpsets ==
  ASSUME \A v \in Settings : Orderly(v) /\ YesterdayReached(v)
  PROVE  AvailabilitySpec => []InsideWindowIsOpen
<1>1. AInv => InsideWindowIsOpen
  <2> SUFFICES ASSUME AInv, NEW q \in Queries, NEW d \in Durations, NEW c \in q.from..(q.to - d),
                      NEW w \in openWindowsBetween(venue, q.from, q.to),
                      w.opensAt <= c, c + d <= w.closesAt
               PROVE  isWithinOperatingHours(venue, c, c + d)
    BY DEF InsideWindowIsOpen
  <2>1. VenueOK(venue) /\ Orderly(venue) /\ YesterdayReached(venue)
    BY VenueIsOK DEF AInv
  <2>2. c \in Int /\ c + d \in Int /\ c < c + d
    BY LengthsAreInts, GridAssumption
  <2>3. PICK date \in LocalDate(venue.zone, q.from - DAY) .. LocalDate(venue.zone, q.to + DAY) :
          w \in windowForLocalDate(venue, date)
    BY DEF openWindowsBetween
  <2>4. date \in Int
    OBVIOUS
  <2> QED BY <2>1, <2>2, <2>3, <2>4, InsideIsWithin
<1> QED BY <1>1, AvailabilityTypeCorrect, PTL

(* windowForLocalDate opens and closes on the reading and the date the      *)
(* venue named, across any change of the clocks it keeps clear of.          *)
THEOREM DoorsFollowTheClock ==
  ASSUME \A v \in Settings : Orderly(v)
  PROVE  AvailabilitySpec => []WindowsFollowTheClock
<1>1. AInv => WindowsFollowTheClock
  <2> SUFFICES ASSUME AInv, NEW date \in 1..(2 * WEEK), NEW w \in windowForLocalDate(venue, date)
               PROVE  LET spec == venue.hours[date % WEEK] IN
                      /\ LocalDate(venue.zone, w.opensAt) = date
                      /\ LocalClock(venue.zone, w.opensAt) = spec.open
                      /\ LocalClock(venue.zone, w.closesAt) = spec.close % DAY
                      /\ LocalDate(venue.zone, w.closesAt) =
                           IF spec.close <= spec.open \/ spec.close = DAY THEN date + 1 ELSE date
    BY DEF WindowsFollowTheClock
  <2> DEFINE spec == venue.hours[date % WEEK]
             z == venue.zone
  <2>1. VenueOK(venue) /\ Orderly(venue) /\ date \in Int /\ DAY \in Nat \ {0} /\ date * DAY \in Int
    BY VenueIsOK, CalendarAssumption DEF AInv
  <2>2. /\ spec.open \in 0..(DAY - 1) /\ spec.close \in 0..DAY
        /\ Reads(z, w.opensAt, date * DAY + spec.open)
        /\ Reads(z, w.closesAt, date * DAY + ClosingReading(spec))
    BY <2>1, WindowReads
  <2> HIDE DEF spec, z
  <2>3. LocalDate(z, w.opensAt) = date /\ LocalClock(z, w.opensAt) = spec.open
    BY <2>1, <2>2, DateAndClock DEF Reads
  <2>6. toLocal(z, w.closesAt) = date * DAY + ClosingReading(spec)
    BY <2>2 DEF Reads
  <2>4. CASE spec.close <= spec.open \/ spec.close = DAY
    <3> DEFINE c == spec.close % DAY
               q == date + 1
    <3>1. spec.close = DAY => c = 0
      BY <2>1, <2>2
    <3>2. spec.close # DAY => c = spec.close
      <4>1. spec.close # DAY => spec.close \in 0..(DAY - 1)
        BY <2>1, <2>2
      <4> QED BY <2>1, <4>1, RemainderOfSmall
    <3>3. c \in 0..(DAY - 1)
      BY <2>1, <2>2
    <3> HIDE DEF c
    <3>4. toLocal(z, w.closesAt) = q * DAY + c /\ q \in Int
      <4>1. ClosingReading(spec) = DAY + c
        BY <2>1, <2>2, <2>4, <3>1, <3>2 DEF ClosingReading
      <4>2. (date + 1) * DAY = date * DAY + DAY
        BY <2>1
      <4> QED BY <2>1, <2>6, <3>3, <4>1, <4>2
    <3>5. LocalDate(z, w.closesAt) = q /\ LocalClock(z, w.closesAt) = c
      <4> HIDE DEF q
      <4> QED BY <3>3, <3>4, DateAndClock
    <3> QED BY <2>3, <2>4, <3>5 DEF spec, z, c
  <2>5. CASE ~(spec.close <= spec.open \/ spec.close = DAY)
    <3>1. spec.close \in 0..(DAY - 1)
      <4>1. spec.close \in 0..DAY /\ spec.close # DAY
        BY <2>2, <2>5
      <4> QED BY <4>1, CalendarAssumption
    <3>2. spec.close % DAY = spec.close
      BY <2>1, <3>1, RemainderOfSmall
    <3>3. toLocal(z, w.closesAt) = date * DAY + spec.close
      <4>1. ClosingReading(spec) = spec.close
        BY <2>2, <2>5, <3>1 DEF ClosingReading
      <4> QED BY <2>6, <4>1
    <3>4. LocalDate(z, w.closesAt) = date /\ LocalClock(z, w.closesAt) = spec.close
      BY <2>1, <3>1, <3>3, DateAndClock
    <3> QED BY <2>3, <2>5, <3>2, <3>4 DEF spec, z
  <2> QED BY <2>4, <2>5
<1> QED BY <1>1, AvailabilityTypeCorrect, PTL

(* The windows of a range close after they open, meet it, and are told      *)
(* apart by their opening.                                                  *)
LEMMA WindowsOrdered ==
  ASSUME AInv, Orderly(venue), NEW from \in Int, NEW to \in Int, from < to,
         NEW w \in openWindowsBetween(venue, from, to)
  PROVE  /\ w.opensAt \in Int /\ w.closesAt \in Int /\ w.opensAt < w.closesAt
         /\ from < w.closesAt /\ w.opensAt < to
         /\ \A v \in openWindowsBetween(venue, from, to) : v.opensAt = w.opensAt => v = w
<1>0. VenueOK(venue) /\ DAY \in Nat \ {0}
  BY VenueIsOK, CalendarAssumption
<1>1. PICK date \in LocalDate(venue.zone, from - DAY) .. LocalDate(venue.zone, to + DAY) :
        w \in windowForLocalDate(venue, date)
  BY DEF openWindowsBetween
<1> DEFINE spec == venue.hours[date % WEEK]
<1>2. /\ date \in Int /\ date * DAY \in Int
      /\ spec.open \in 0..(DAY - 1) /\ spec.close \in 0..DAY
      /\ Reads(venue.zone, w.opensAt, date * DAY + spec.open)
      /\ Reads(venue.zone, w.closesAt, date * DAY + ClosingReading(spec))
  BY <1>0, <1>1, WindowReads
<1> HIDE DEF spec
<1>3. w.opensAt \in Int /\ w.closesAt \in Int /\ w.opensAt < w.closesAt
  <2>1. ClosingReading(spec) \in Int /\ spec.open < ClosingReading(spec)
    BY <1>0, <1>2 DEF ClosingReading
  <2> QED BY <1>0, <1>2, <2>1 DEF Reads
<1>4. from < w.closesAt /\ w.opensAt < to
  BY <1>3 DEF openWindowsBetween
<1>5. ASSUME NEW v \in openWindowsBetween(venue, from, to), v.opensAt = w.opensAt
      PROVE  v = w
  <2>1. PICK other \in LocalDate(venue.zone, from - DAY) .. LocalDate(venue.zone, to + DAY) :
          v \in windowForLocalDate(venue, other)
    BY DEF openWindowsBetween
  <2> DEFINE theirs == venue.hours[other % WEEK]
  <2>2. /\ other \in Int /\ theirs.open \in 0..(DAY - 1)
        /\ Reads(venue.zone, v.opensAt, other * DAY + theirs.open)
    BY <1>0, <2>1, WindowReads
  <2> HIDE DEF theirs
  <2>3. LocalDate(venue.zone, v.opensAt) = other /\ LocalDate(venue.zone, w.opensAt) = date
    BY <1>2, <2>2, DateAndClock DEF Reads
  <2>4. other = date
    BY <1>5, <2>3
  <2> QED BY <1>1, <2>1, <2>4 DEF windowForLocalDate
<1> QED BY <1>3, <1>4, <1>5

(* The open minutes of a report are the instants of the range at which the  *)
(* venue is open: clipping loses none and counts none twice, over any range *)
(* and change of the clocks.                                                *)
THEOREM OpenTimeIsOpen ==
  ASSUME \A v \in Settings : Orderly(v)
  PROVE  AvailabilitySpec => []OpenTimeCounted
<1>1. AInv => OpenTimeCounted
  <2> DEFINE W(q) == openWindowsBetween(venue, q.from, q.to)
             OpenAt(q, t) == \E w \in W(q) : w.opensAt <= t /\ t < w.closesAt
             T(q) == {t \in q.from..(q.to - 1) : OpenAt(q, t)}
  <2> SUFFICES ASSUME AInv, NEW q \in Queries,
                      \A v, w \in W(q) : v.opensAt < w.opensAt => v.closesAt <= w.opensAt
               PROVE  openMinutes(q.from, q.to) = Cardinality(T(q))
    BY DEF OpenTimeCounted
  <2> DEFINE f == [w \in W(q) |-> OpenFor(w, q.from, q.to)]
             Later(w) == IF w.opensAt > q.from THEN w.opensAt ELSE q.from
             A == Units(f, W(q))
             h == [u \in A |-> Later(u[1]) + u[2] - 1]
  <2>1. Orderly(venue) /\ q.from \in Int /\ q.to \in Int /\ q.from < q.to
    BY GridAssumption DEF AInv
  <2>2. ASSUME NEW w \in W(q)
        PROVE  /\ w.opensAt \in Int /\ w.closesAt \in Int /\ w.opensAt < w.closesAt
               /\ q.from < w.closesAt /\ w.opensAt < q.to
               /\ \A v \in W(q) : v.opensAt = w.opensAt => v = w
    BY <2>1, WindowsOrdered
  <2>3. ASSUME NEW w \in W(q)
        PROVE  /\ f[w] \in Nat /\ Later(w) \in Int
               /\ \A t \in Int : t \in q.from..(q.to - 1) /\ w.opensAt <= t /\ t < w.closesAt
                                 <=> t - Later(w) + 1 \in 1..f[w]
    BY <2>1, <2>2 DEF OpenFor
  <2>4. ASSUME NEW u \in A
        PROVE  u[1] \in W(q) /\ u[2] \in 1..f[u[1]] /\ u = <<u[1], u[2]>>
    BY <2>4 DEF Units
  <2>5. ASSUME NEW w \in W(q), NEW k \in 1..f[w]
        PROVE  <<w, k>> \in A
    BY <2>5 DEF Units
  <2>6. IsFiniteSet(T(q))
    <3>1. IsFiniteSet(q.from..(q.to - 1))
      BY <2>1, FS_Interval
    <3> QED BY <3>1, FS_Subset
  <2>7. ASSUME NEW u \in A
        PROVE  /\ h[u] \in T(q) /\ h[u] \in Int
               /\ u[1].opensAt <= h[u] /\ h[u] < u[1].closesAt /\ h[u] - Later(u[1]) + 1 = u[2]
    <3>1. u[1] \in W(q) /\ u[2] \in 1..f[u[1]]
      BY <2>4
    <3>2. h[u] \in Int /\ h[u] - Later(u[1]) + 1 = u[2]
      BY <2>3, <3>1
    <3>3. h[u] \in q.from..(q.to - 1) /\ u[1].opensAt <= h[u] /\ h[u] < u[1].closesAt
      BY <2>3, <3>1, <3>2
    <3> QED BY <3>1, <3>2, <3>3
  <2>8. ASSUME NEW u \in A, NEW v \in A, h[u] = h[v] PROVE u = v
    <3>1. u[1] \in W(q) /\ v[1] \in W(q)
      BY <2>4
    <3>2. u[1].opensAt = v[1].opensAt
      <4>1. u[1].opensAt <= h[u] /\ h[u] < u[1].closesAt /\ v[1].opensAt <= h[u] /\ h[u] < v[1].closesAt
            /\ h[u] \in Int
        BY <2>7, <2>8
      <4> HIDE DEF h
      <4>2. ~(u[1].opensAt < v[1].opensAt) /\ ~(v[1].opensAt < u[1].opensAt)
        BY <2>2, <3>1, <4>1
      <4> QED BY <2>2, <3>1, <4>2
    <3>3. u[1] = v[1]
      BY <2>2, <3>1, <3>2
    <3>4. u[2] = v[2]
      BY <2>7, <2>8, <3>3
    <3> QED BY <2>4, <3>3, <3>4
  <2>9. \A t \in T(q) : \E u \in A : h[u] = t
    <3> SUFFICES ASSUME NEW t \in T(q) PROVE \E u \in A : h[u] = t
      OBVIOUS
    <3>1. PICK w \in W(q) : w.opensAt <= t /\ t < w.closesAt
      OBVIOUS
    <3> DEFINE k == t - Later(w) + 1
    <3>2. t \in q.from..(q.to - 1) /\ t \in Int
      BY <2>1
    <3>3. k \in 1..f[w]
      BY <2>3, <3>1, <3>2
    <3>4. <<w, k>> \in A
      BY <2>5, <3>3
    <3>5. h[<<w, k>>] = t
      BY <2>3, <3>2, <3>4
    <3> QED BY <3>4, <3>5
  <2>10. h \in Injection(A, T(q)) /\ h \in Surjection(A, T(q))
    <3>1. h \in [A -> T(q)]
      BY <2>7
    <3> QED BY <2>8, <2>9, <3>1 DEF Injection, IsInjective, Surjection
  <2>11. Cardinality(A) = Cardinality(T(q))
    <3> HIDE DEF A, h, T
    <3> QED BY <2>6, <2>10, FS_Injection
  <2> QED BY <2>11 DEF openMinutes, SumOver
<1> QED BY <1>1, AvailabilityTypeCorrect, PTL
=============================================================================
