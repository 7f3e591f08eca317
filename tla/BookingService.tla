--------------------------- MODULE BookingService ---------------------------
(***************************************************************************)
(* The booking half of the API: concurrent hold transactions with their    *)
(* room lock, in-transaction expiry, equipment locks and the no_room_      *)
(* overlap constraint; checkout and pay, whose unlocked read and locked    *)
(* write are separate steps; cancel; the hold sweeper; and the outcome of  *)
(* a charge as it lands on the booking row.                                *)
(*                                                                         *)
(* One element of Booking is one hold request and the row it may become.   *)
(* Database transactions run READ COMMITTED: a statement sees what was     *)
(* committed when it started, a row lock re-reads the row, and the writes  *)
(* of a transaction appear at its commit.  There is one clock, read by the *)
(* replicas as Date.now() and by the database as now(), which inside a     *)
(* transaction is the instant it began.  The interval a booking asks for   *)
(* is on another axis (it starts an hour or more after any hold it has     *)
(* lapsed): startsAt and endsAt are in units of the turnaround's scale.    *)
(***************************************************************************)
EXTENDS BookingStates, Sums

CONSTANTS
  Booking,              \* hold requests, each the row it becomes if admitted
  Room, Equipment,      \* rooms; equipment type ids, numbers so that they sort
  MAX_ID,               \* ids are numbers of bounded width (UUIDs)
  Session,              \* checkout and pay calls in flight, over all replicas
  roomOf, startsAt, endsAt, quantity,   \* what each request asks for
  MAX_QUANTITY,         \* most units one line item may ask for
  unitsOwned,           \* equipment_types.units_owned
  BufferPcts,           \* values the venue's overbooking buffer takes
  rowOrder,             \* how the database happens to order equal rows
  TURNAROUND,           \* minutes of cleaning after a booking, in slot units
  HOLD_TTL, CHECKOUT_REARM, MAX_HOLD_REARMS, MAX_HOLD_LIFETIME,
  RETRY_ATTEMPTS,       \* TRANSIENT_RETRY_ATTEMPTS
  BATCH_SIZE,           \* rows one sweep may expire
  HoldsEnd, CallsEnd,   \* bounds: holds are asked for before HoldsEnd, checkout
                        \* and pay before CallsEnd
  MaxNow                \* bound: the last instant

ASSUME RequestAssumption ==
  /\ IsFiniteSet(Booking) /\ Booking # {}
  /\ MAX_ID \in Nat /\ Equipment \subseteq 0..MAX_ID
  /\ roomOf \in [Booking -> Room]
  /\ startsAt \in [Booking -> Nat] /\ endsAt \in [Booking -> Nat]
  /\ \A b \in Booking : startsAt[b] < endsAt[b]
  /\ MAX_QUANTITY \in Nat
  /\ quantity \in [Booking -> [Equipment -> 0..MAX_QUANTITY]]
  /\ rowOrder \in [Booking -> 1..Cardinality(Booking)]

ASSUME VenueAssumption ==
  /\ unitsOwned \in [Equipment -> Nat]
  /\ BufferPcts \subseteq 0..10 /\ BufferPcts # {}

ASSUME LimitAssumption ==
  /\ TURNAROUND \in Nat
  /\ HOLD_TTL \in Nat \ {0} /\ CHECKOUT_REARM \in Nat \ {0}
  /\ MAX_HOLD_REARMS \in Nat /\ MAX_HOLD_LIFETIME \in Nat
  /\ RETRY_ATTEMPTS \in Nat \ {0} /\ BATCH_SIZE \in Nat \ {0}
  /\ HoldsEnd \in Nat /\ CallsEnd \in Nat /\ MaxNow \in Nat

VARIABLES
  now,           \* the clock
  status,        \* bookings.status; DRAFT is "no row yet"
  expiresAt,     \* bookings.expires_at, NULL when there is none
  createdAt,     \* bookings.created_at
  rearmCount,    \* bookings.rearm_count
  bufferPct,     \* venues.overbooking_buffer_pct
  hold,          \* the hold request of each booking, see HoldCall
  session,       \* checkout and pay calls, see SessionCall
  revived        \* history: rows re-armed or sent to payment after they lapsed

rows == <<status, expiresAt, createdAt, rearmCount>>
vars == <<now, rows, bufferPct, hold, session, revived>>

NULL == 0    \* no expiry; a real one is at least HOLD_TTL

(***************************************************************************)
(* A hold call.  at: idle, queued (context read), begun (in its            *)
(* transaction, waiting for the room lock), locking (room locked, stale    *)
(* holds expired, taking equipment locks), admitted (equipment decided),   *)
(* or one of its 409 answers.  since is the transaction's now(); pct the   *)
(* buffer read with the room's context; stale the rows it has expired and  *)
(* so has locked; locked the equipment rows it holds.                      *)
(***************************************************************************)
InTransaction == {"begun", "locking", "admitted"}
Answers == {"idle", "room_taken", "equipment_short", "contended"}

HoldCall == [at : {"queued"} \cup InTransaction \cup Answers,
             since : Nat, pct : Nat, attempt : Nat,
             stale : SUBSET Booking, locked : SUBSET Equipment]

NoHold == [at |-> "idle", since |-> 0, pct |-> 0, attempt |-> 0,
           stale |-> {}, locked |-> {}]

(* A checkout or pay call, with what its unlocked read saw. *)
SessionCall == [op : {"none", "checkout", "pay", "told_expired"},
                bk : Booking, expires : Nat, rearm : Nat]

NoCall == [op |-> "none", bk |-> CHOOSE b \in Booking : TRUE, expires |-> 0, rearm |-> 0]

TypeOK ==
  /\ now \in Nat
  /\ status \in [Booking -> Statuses]
  /\ expiresAt \in [Booking -> Nat]
  /\ createdAt \in [Booking -> Nat]
  /\ rearmCount \in [Booking -> Nat]
  /\ bufferPct \in BufferPcts
  /\ hold \in [Booking -> HoldCall]
  /\ session \in [Session -> SessionCall]
  /\ revived \in SUBSET Booking

Init ==
  /\ now = 0
  /\ status = [b \in Booking |-> "DRAFT"]
  /\ expiresAt = [b \in Booking |-> NULL]
  /\ createdAt = [b \in Booking |-> 0]
  /\ rearmCount = [b \in Booking |-> 0]
  /\ bufferPct \in BufferPcts
  /\ hold = [b \in Booking |-> NoHold]
  /\ session = [s \in Session |-> NoCall]
  /\ revived = {}

-----------------------------------------------------------------------------
(* Rooms and equipment as the database sees them. *)

(* bookings.slot, [starts_at, ends_at + 15 min): two of them intersect. *)
SlotsOverlap(a, b) ==
  /\ roomOf[a] = roomOf[b]
  /\ startsAt[a] < endsAt[b] + TURNAROUND
  /\ startsAt[b] < endsAt[a] + TURNAROUND

(* expires_at <= t, as the replicas and the equipment query put it, and    *)
(* expires_at < t, as the two expiry statements put it; NULL is neither.   *)
Lapsed(b, t) == expiresAt[b] # NULL /\ expiresAt[b] <= t
ExpiredBefore(b, t) == expiresAt[b] # NULL /\ expiresAt[b] < t

(* The rows the equipment query counts at transaction time t. *)
Reserving(t) == {b \in Booking : /\ status[b] \in ACTIVE
                                 /\ ~(status[b] = "HELD" /\ Lapsed(b, t))}

During(b, t) == startsAt[b] <= t /\ t < endsAt[b]

(* Units of e the bookings in S have out at instant t, one element a unit. *)
UnitsOut(S, e, t) == {u \in S \X (1..MAX_QUANTITY) :
                         During(u[1], t) /\ u[2] <= quantity[u[1]][e]}

(* Math.floor(unitsOwned * (1 + bufferPct / 100)): for whole percentages up *)
(* to 10 the floating-point product is never below the exact one.          *)
admissionCeiling(units, pct) == (units * (100 + pct)) \div 100

(***************************************************************************)
(* peakConcurrentUsage: the line items of e that meet b's interval, clipped *)
(* to it, give two events each, <<row, 1>> when its units are taken and     *)
(* <<row, 0>> when they are back.  The peak is the largest running total.   *)
(***************************************************************************)
Overlapping(b, e, S) ==
  {c \in S : quantity[c][e] > 0 /\ startsAt[c] < endsAt[b] /\ endsAt[c] > startsAt[b]}

(* GREATEST(b.starts_at, req.s) and LEAST(b.ends_at, req.e) *)
WindowStart(b, c) == IF startsAt[c] >= startsAt[b] THEN startsAt[c] ELSE startsAt[b]
WindowEnd(b, c) == IF endsAt[c] <= endsAt[b] THEN endsAt[c] ELSE endsAt[b]

EventAt(b, g) == IF g[2] = 1 THEN WindowStart(b, g[1]) ELSE WindowEnd(b, g[1])

(* ORDER BY at, tie_break ROWS UNBOUNDED PRECEDING: f is not after g.  The  *)
(* query leaves open how events equal in both are ordered.                  *)
UpToEvent(b, f, g) ==
  \/ EventAt(b, f) < EventAt(b, g)
  \/ /\ EventAt(b, f) = EventAt(b, g)
     /\ \/ f[2] < g[2]
        \/ f[2] = g[2] /\ rowOrder[f[1]] <= rowOrder[g[1]]

(* SUM(delta) up to and including g. *)
InUse(b, e, O, g) ==
  LET units == [c \in O |-> quantity[c][e]]
      Seen(k) == {c \in O : UpToEvent(b, <<c, k>>, g)} IN
  SumOver(units, Seen(1)) - SumOver(units, Seen(0))

(* COALESCE(MAX(in_use), 0): the total after the last event is 0. *)
peakConcurrentUsage(b, e, S) ==
  LET O == Overlapping(b, e, S)
      totals == {0} \cup {InUse(b, e, O, g) : g \in O \X {0, 1}} IN
  CHOOSE peak \in totals : \A n \in totals : n <= peak

(* Slip: usage sampled when the booking starts, not at its peak. *)
PeakFits_AtStart(b, e, S, pct) ==
  Cardinality(UnitsOut(S, e, startsAt[b])) + quantity[b][e]
    <= admissionCeiling(unitsOwned[e], pct)

(* peak + want <= ceiling *)
PeakFits(b, e, S, pct) ==
  peakConcurrentUsage(b, e, S) + quantity[b][e] <= admissionCeiling(unitsOwned[e], pct)

Wanted(b) == {e \in Equipment : quantity[b][e] > 0}

(* Row locks: a hold transaction keeps the rows it expired until it ends. *)
RowLocked(x) == \E b \in Booking : x \in hold[b].stale

RoomLocked(r) == \E b \in Booking : /\ roomOf[b] = r
                                    /\ hold[b].at \in {"locking", "admitted"}

-----------------------------------------------------------------------------
(* The hold path. *)

(* hold: the room's context, buffer included, is read outside the transaction. *)
HoldRequest(b) ==
  /\ now < HoldsEnd
  /\ status[b] = "DRAFT" /\ hold[b].at \in Answers
  /\ hold' = [hold EXCEPT ![b] = [NoHold EXCEPT !.at = "queued", !.pct = bufferPct,
                                                !.attempt = 1]]
  /\ UNCHANGED <<now, rows, bufferPct, session, revived>>

HoldBegin(b) ==
  /\ hold[b].at = "queued"
  /\ hold' = [hold EXCEPT ![b].at = "begun", ![b].since = now]
  /\ UNCHANGED <<now, rows, bufferPct, session, revived>>

(* Slip: expiry left to the sweeper. *)
StaleForRoom_None(r, t) == {}

(* expireStaleHoldsForRoom's WHERE clause at transaction time t. *)
StaleForRoom(r, t) ==
  {x \in Booking : roomOf[x] = r /\ status[x] = "HELD" /\ ExpiredBefore(x, t)}

(* The advisory room lock, then the in-transaction expiry. *)
HoldExpireStale(b) ==
  /\ hold[b].at = "begun"
  /\ ~RoomLocked(roomOf[b])
  /\ hold' = [hold EXCEPT ![b].at = "locking",
                          ![b].stale = StaleForRoom(roomOf[b], hold[b].since)]
  /\ UNCHANGED <<now, rows, bufferPct, session, revived>>

(* Slip: rows locked in the order the request happens to list them. *)
NextLock_AsListed(b, e) ==
  /\ e \in Wanted(b) \ hold[b].locked
  /\ \A f \in Wanted(b) \ hold[b].locked : IF startsAt[b] = 0 THEN e <= f ELSE f <= e

(* lockEquipmentTypes: ORDER BY id, so the next lock is the least one missing. *)
NextLock(b, e) == /\ e \in Wanted(b) \ hold[b].locked
                  /\ \A f \in Wanted(b) \ hold[b].locked : e <= f

(* Slip: a plain SELECT, without FOR UPDATE. *)
HoldLockEquipment_NoLock(b) ==
  /\ hold[b].at = "locking"
  /\ \E e \in Equipment :
       /\ NextLock(b, e)
       /\ hold' = [hold EXCEPT ![b].locked = @ \cup {e}]
  /\ UNCHANGED <<now, rows, bufferPct, session, revived>>

HoldLockEquipment(b) ==
  /\ hold[b].at = "locking"
  /\ \E e \in Equipment :
       /\ NextLock(b, e)
       /\ \A c \in Booking : e \notin hold[c].locked
       /\ hold' = [hold EXCEPT ![b].locked = @ \cup {e}]
  /\ UNCHANGED <<now, rows, bufferPct, session, revived>>

(* Slip: the connection goes back to the pool with its transaction open. *)
RolledBack_StaysOpen(b, answer) == [NoHold EXCEPT !.at = answer, !.stale = hold[b].stale]

(* A transaction that ends without committing: locks and writes are gone. *)
RolledBack(b, answer) == [NoHold EXCEPT !.at = answer]

(* Slip: a lapsed hold counts until the sweeper has been. *)
HoldAdmitEquipment_Unswept(b) ==
  /\ hold[b].at = "locking"
  /\ Wanted(b) \subseteq hold[b].locked
  /\ IF \A e \in Wanted(b) :
          PeakFits(b, e, {c \in Booking : status[c] \in ACTIVE} \ hold[b].stale, hold[b].pct)
       THEN hold' = [hold EXCEPT ![b].at = "admitted"]
       ELSE hold' = [hold EXCEPT ![b] = RolledBack(b, "equipment_short")]
  /\ UNCHANGED <<now, rows, bufferPct, session, revived>>

(* peakConcurrentUsage and the ceiling, for every type asked for. *)
HoldAdmitEquipment(b) ==
  /\ hold[b].at = "locking"
  /\ Wanted(b) \subseteq hold[b].locked
  /\ IF \A e \in Wanted(b) :
          PeakFits(b, e, Reserving(hold[b].since) \ hold[b].stale, hold[b].pct)
       THEN hold' = [hold EXCEPT ![b].at = "admitted"]
       ELSE hold' = [hold EXCEPT ![b] = RolledBack(b, "equipment_short")]
  /\ UNCHANGED <<now, rows, bufferPct, session, revived>>

(* Slip: the constraint over the booked interval, turnaround forgotten. *)
RoomConflict_NoTurnaround(b) ==
  \E x \in Booking \ hold[b].stale :
    /\ status[x] \in ACTIVE /\ roomOf[x] = roomOf[b]
    /\ startsAt[x] < endsAt[b] /\ startsAt[b] < endsAt[x]

(* no_room_overlap against the committed rows and this transaction's own. *)
RoomConflict(b) ==
  \E x \in Booking \ hold[b].stale : status[x] \in ACTIVE /\ SlotsOverlap(x, b)

(* Slip: the time to live subtracted. *)
HoldExpiry_Backwards(t) == t - HOLD_TTL

HoldExpiry(t) == t + HOLD_TTL

(* createHeld and the line items, then COMMIT; 23P01 is a 409. *)
HoldInsert(b) ==
  /\ hold[b].at = "admitted"
  /\ IF RoomConflict(b)
       THEN /\ hold' = [hold EXCEPT ![b] = RolledBack(b, "room_taken")]
            /\ UNCHANGED rows
       ELSE /\ status' = [x \in Booking |->
                 IF x = b THEN "HELD"
                 ELSE IF x \in hold[b].stale THEN "EXPIRED" ELSE status[x]]
            /\ expiresAt' = [expiresAt EXCEPT ![b] = HoldExpiry(now)]
            /\ createdAt' = [createdAt EXCEPT ![b] = hold[b].since]
            /\ UNCHANGED rearmCount
            /\ hold' = [hold EXCEPT ![b] = NoHold]
  /\ UNCHANGED <<now, bufferPct, session, revived>>

(* withTransientRetry: a class-40 abort starts over with the same context, *)
(* or gives up with a 409.  A lost connection ends here too.               *)
HoldAbort(b) ==
  /\ hold[b].at \in InTransaction
  /\ hold' = [hold EXCEPT ![b] =
       IF hold[b].attempt < RETRY_ATTEMPTS
         THEN [NoHold EXCEPT !.at = "queued", !.pct = hold[b].pct,
                             !.attempt = hold[b].attempt + 1]
         ELSE RolledBack(b, "contended")]
  /\ UNCHANGED <<now, rows, bufferPct, session, revived>>

-----------------------------------------------------------------------------
(* Checkout: an unlocked read, then recordSideEffect under the row lock. *)

LifetimeCap(b) == createdAt[b] + MAX_HOLD_LIFETIME

(* Slip: the re-arm not clamped. *)
RearmTo_Unclamped(b) == now + CHECKOUT_REARM

(* Math.min(requested, lifetimeCap) *)
RearmTo(b) == IF now + CHECKOUT_REARM <= LifetimeCap(b)
                THEN now + CHECKOUT_REARM ELSE LifetimeCap(b)

CheckoutRead(s, b) ==
  /\ now < CallsEnd
  /\ session[s].op = "none"
  /\ status[b] \in {"HELD", "PENDING_PAYMENT"}
  /\ ~Lapsed(b, now)
  /\ rearmCount[b] < MAX_HOLD_REARMS
  /\ now < LifetimeCap(b)
  /\ session' = [session EXCEPT ![s] =
       [op |-> "checkout", bk |-> b, expires |-> RearmTo(b), rearm |-> rearmCount[b]]]
  /\ UNCHANGED <<now, rows, bufferPct, hold, revived>>

(* The re-arm, unless the booking has left the two states it may be in. *)
CheckoutWrite(s) ==
  LET b == session[s].bk IN
  /\ session[s].op = "checkout"
  /\ ~RowLocked(b)
  /\ IF status[b] \in {"HELD", "PENDING_PAYMENT"}
       THEN /\ expiresAt' = [expiresAt EXCEPT ![b] = session[s].expires]
            /\ rearmCount' = [rearmCount EXCEPT ![b] = session[s].rearm + 1]
            /\ revived' = IF Lapsed(b, now) THEN revived \cup {b} ELSE revived
       ELSE UNCHANGED <<expiresAt, rearmCount, revived>>
  /\ session' = [session EXCEPT ![s] = NoCall]
  /\ UNCHANGED <<now, status, createdAt, bufferPct, hold>>

-----------------------------------------------------------------------------
(* pay's first transaction, up to its commit; the provider call follows it. *)

PayRead(s, b) ==
  /\ now < CallsEnd
  /\ session[s].op = "none"
  /\ status[b] = "HELD" /\ ~Lapsed(b, now)
  /\ session' = [session EXCEPT ![s] = [NoCall EXCEPT !.op = "pay", !.bk = b]]
  /\ UNCHANGED <<now, rows, bufferPct, hold, revived>>

(* Slip: the status read before the lock is trusted after it. *)
PayWrite_Unchecked(s) ==
  LET b == session[s].bk IN
  /\ session[s].op = "pay"
  /\ ~RowLocked(b)
  /\ status' = [status EXCEPT ![b] = "PENDING_PAYMENT"]
  /\ revived' = IF Lapsed(b, now) THEN revived \cup {b} ELSE revived
  /\ session' = [session EXCEPT ![s] = NoCall]
  /\ UNCHANGED <<now, expiresAt, createdAt, rearmCount, bufferPct, hold>>

(* transition to PENDING_PAYMENT, expectedFrom HELD. *)
PayWrite(s) ==
  LET b == session[s].bk IN
  /\ session[s].op = "pay"
  /\ ~RowLocked(b)
  /\ IF status[b] = "HELD"
       THEN /\ status' = [status EXCEPT ![b] = "PENDING_PAYMENT"]
            /\ revived' = IF Lapsed(b, now) THEN revived \cup {b} ELSE revived
       ELSE UNCHANGED <<status, revived>>
  /\ session' = [session EXCEPT ![s] = NoCall]
  /\ UNCHANGED <<now, expiresAt, createdAt, rearmCount, bufferPct, hold>>

(* Both calls find a lapsed hold: the row is moved to EXPIRED and then the  *)
(* 409 is thrown inside the same transaction, which rolls the move back.    *)
RefuseLapsed(s, b) ==
  /\ now < CallsEnd
  /\ session[s].op = "none"
  /\ status[b] \in {"HELD", "PENDING_PAYMENT"}
  /\ Lapsed(b, now) /\ ~RowLocked(b)
  /\ session' = [session EXCEPT ![s] = [NoCall EXCEPT !.op = "told_expired", !.bk = b]]
  /\ UNCHANGED <<now, rows, bufferPct, hold, revived>>

Hangup(s) ==
  /\ session[s].op # "none"
  /\ session' = [session EXCEPT ![s] = NoCall]
  /\ UNCHANGED <<now, rows, bufferPct, hold, revived>>

-----------------------------------------------------------------------------
(* Everything else that moves a row. *)

Transition(b, to) ==
  /\ ~RowLocked(b)
  /\ isLegalTransition(status[b], to)
  /\ status' = [status EXCEPT ![b] = to]

Cancel(b) ==
  /\ Transition(b, "CANCELLED")
  /\ UNCHANGED <<now, expiresAt, createdAt, rearmCount, bufferPct, hold, session, revived>>

(* onChargeSucceeded as it falls on a PENDING_PAYMENT row: confirmed while   *)
(* the hold is live, expired (and refunded elsewhere) once it has lapsed.    *)
ChargeSucceeded(b) ==
  /\ status[b] = "PENDING_PAYMENT"
  /\ IF Lapsed(b, now)
       THEN Transition(b, "EXPIRED") /\ UNCHANGED expiresAt
       ELSE /\ Transition(b, "CONFIRMED")
            /\ expiresAt' = [expiresAt EXCEPT ![b] = NULL]
  /\ UNCHANGED <<now, createdAt, rearmCount, bufferPct, hold, session, revived>>

ChargeFailed(b) ==
  /\ status[b] = "PENDING_PAYMENT"
  /\ Transition(b, "FAILED")
  /\ UNCHANGED <<now, expiresAt, createdAt, rearmCount, bufferPct, hold, session, revived>>

(* Slip: re-armed holds taken for holds in payment. *)
Sweepable_FirstHoldOnly ==
  {x \in Booking : /\ status[x] = "HELD" /\ ExpiredBefore(x, now)
                   /\ rearmCount[x] = 0 /\ ~RowLocked(x)}

(* HELD AND expires_at < now(), not locked by anyone (SKIP LOCKED). *)
Sweepable == {x \in Booking : /\ status[x] = "HELD" /\ ExpiredBefore(x, now)
                              /\ ~RowLocked(x)}

(* The oldest BATCH_SIZE of them, or all when there are fewer. *)
OldestBatch(S) ==
  /\ S \subseteq Sweepable /\ S # {}
  /\ Cardinality(S) <= BATCH_SIZE
  /\ S = Sweepable \/ Cardinality(S) = BATCH_SIZE
  /\ \A x \in S, y \in Sweepable \ S : expiresAt[x] <= expiresAt[y]

Sweep ==
  /\ \E S \in SUBSET Booking :
       /\ OldestBatch(S)
       /\ status' = [x \in Booking |-> IF x \in S THEN "EXPIRED" ELSE status[x]]
  /\ UNCHANGED <<now, expiresAt, createdAt, rearmCount, bufferPct, hold, session, revived>>

(* The venue's admin changes the overbooking buffer. *)
UpdateSettings(p) ==
  /\ p \in BufferPcts /\ p # bufferPct
  /\ bufferPct' = p
  /\ UNCHANGED <<now, rows, hold, session, revived>>

HoldsInFlight == \E b \in Booking : hold[b].at \in {"queued"} \cup InTransaction
CallsInFlight == \E s \in Session : session[s].op # "none"

(* Bound: once no more calls start, the clock waits for those in flight, so *)
(* that what they leave behind has time to lapse.                           *)
Tick ==
  /\ now < MaxNow
  /\ now < HoldsEnd \/ ~HoldsInFlight
  /\ now < CallsEnd \/ ~CallsInFlight
  /\ now' = now + 1
  /\ UNCHANGED <<rows, bufferPct, hold, session, revived>>

HoldStep(b) == \/ HoldBegin(b) \/ HoldExpireStale(b) \/ HoldLockEquipment(b)
               \/ HoldAdmitEquipment(b) \/ HoldInsert(b)

Next ==
  \/ \E b \in Booking : \/ HoldRequest(b) \/ HoldStep(b) \/ HoldAbort(b)
                        \/ Cancel(b) \/ ChargeSucceeded(b) \/ ChargeFailed(b)
  \/ \E s \in Session : \/ CheckoutWrite(s) \/ PayWrite(s) \/ Hangup(s)
                        \/ \E b \in Booking : \/ CheckoutRead(s, b) \/ PayRead(s, b)
                                              \/ RefuseLapsed(s, b)
  \/ \E p \in BufferPcts : UpdateSettings(p)
  \/ Sweep
  \/ Tick

Spec == Init /\ [][Next]_vars

(***************************************************************************)
(* Fairness: time passes, the sweeper's interval keeps firing on some      *)
(* replica, a transaction that can take its next step takes it, and a call *)
(* ends.  Customers, the admin and the payment provider owe nothing.       *)
(***************************************************************************)
Fairness == /\ WF_vars(Tick) /\ WF_vars(Sweep)
            /\ \A b \in Booking : WF_vars(HoldStep(b))
            /\ \A s \in Session : WF_vars(CheckoutWrite(s) \/ PayWrite(s) \/ Hangup(s))

FairSpec == Spec /\ Fairness

-----------------------------------------------------------------------------
(* INV-1.  Whatever the order of holds, expiries, payments and cancels, no  *)
(* two live rows of a room have intersecting slots (turnaround included).   *)
NoRoomOverlap ==
  \A a, b \in Booking :
    (a # b /\ status[a] \in ACTIVE /\ status[b] \in ACTIVE) => ~SlotsOverlap(a, b)

(* INV-2, for every row that did not come back from the dead: at no instant  *)
(* do the bookings that hold equipment now have more units of a type out     *)
(* than the ceiling under some buffer the venue used.  Concurrent holds that *)
(* each saw room for one more would break it; the FOR UPDATE prevents that.  *)
EquipmentNeverOversold ==
  \A e \in Equipment, b \in Booking :
    \A t \in startsAt[b] .. (endsAt[b] - 1) :
      \E p \in BufferPcts :
        Cardinality(UnitsOut(Reserving(now) \ revived, e, t))
          <= admissionCeiling(unitsOwned[e], p)

(* Hold a is stopped by hold b: for the room's advisory lock or for the next *)
(* equipment row.                                                            *)
WaitsFor(a, b) ==
  /\ a # b
  /\ \/ /\ hold[a].at = "begun" /\ roomOf[a] = roomOf[b]
        /\ hold[b].at \in {"locking", "admitted"}
     \/ /\ hold[a].at = "locking"
        /\ \E e \in hold[b].locked : NextLock(a, e)

(* No set of hold transactions wait on one another in a ring: every one of   *)
(* them takes the room lock and then climbs the equipment ids in order.      *)
NoDeadlock ==
  ~ \E S \in SUBSET Booking : S # {} /\ \A a \in S : \E b \in S : WaitsFor(a, b)

(* A re-armed hold never outlives creation plus MAX_HOLD_LIFETIME, however   *)
(* many checkouts raced and whichever of them wrote last.                    *)
RearmWithinLifetime ==
  \A b \in Booking :
    (rearmCount[b] > 0 /\ status[b] \in {"HELD", "PENDING_PAYMENT"})
      => expiresAt[b] <= LifetimeCap(b)

(* A 409 no_room_overlap is never caused by a dead hold: when a hold is      *)
(* refused, a row that had not lapsed when its transaction began (or is in   *)
(* payment or paid) really occupies the slot.  Only a re-armed row may look  *)
(* lapsed: a slow checkout can write an expiry that is already past, after   *)
(* the refused hold has done its expiring.                                   *)
RoomRefusalJustified ==
  [][\A b \in Booking :
       (hold[b].at = "admitted" /\ hold'[b].at = "room_taken") =>
         \E x \in Booking \ {b} :
           /\ SlotsOverlap(x, b) /\ status[x] \in ACTIVE
           /\ status[x] = "HELD" /\ rearmCount[x] = 0
                => expiresAt[x] >= hold[b].since]_vars

(* A 409 for equipment is never caused by a peak that is not there: there is *)
(* an instant of the interval at which the bookings that were live when the  *)
(* transaction began have so much out that the request does not fit.  Units  *)
(* handed back at an instant are there for whoever takes them at that        *)
(* instant, in whatever order the query meets the rows.                      *)
EquipmentRefusalJustified ==
  [][\A b \in Booking :
       (hold[b].at = "locking" /\ hold'[b].at = "equipment_short") =>
         \E e \in Wanted(b), t \in startsAt[b] .. (endsAt[b] - 1) :
           Cardinality(UnitsOut(Reserving(hold[b].since), e, t)) + quantity[b][e]
             > admissionCeiling(unitsOwned[e], hold[b].pct)]_vars

(* Every step of the service is a batch of legal moves: what it does to      *)
(* bookings.status implements the state machine's promise.                   *)
Lifecycle == INSTANCE BookingLifecycle
LifecycleImplemented == Lifecycle!Spec

(* A hold does not squat: it is paid for, cancelled or expired in the end,   *)
(* although it is re-armed as often and as late as checkout allows, and      *)
(* although rival holds of its room expire it and roll back, so that a sweep *)
(* finds it locked and passes over it.  That such rivals end is the bound    *)
(* HoldsEnd: nothing in the code keeps every sweep from meeting the row      *)
(* locked.                                                                   *)
HoldReleased ==
  \A b \in Booking : status[b] = "HELD" ~> status[b] # "HELD"

-----------------------------------------------------------------------------
(***************************************************************************)
(* What the repository says of itself and the code does not keep.  Each of *)
(* these is refuted by a run of its own.                                   *)
(***************************************************************************)

(* "INV-2 - equipment never oversells at any instant t"                     *)
(* (equipment-availability.ts:5), over every row that reserves equipment.   *)
EquipmentCeilingHolds ==
  \A e \in Equipment, b \in Booking :
    \A t \in startsAt[b] .. (endsAt[b] - 1) :
      \E p \in BufferPcts :
        Cardinality(UnitsOut(Reserving(now), e, t))
          <= admissionCeiling(unitsOwned[e], p)

(* A payment whose charge never got an answer: "Those are left to expire"   *)
(* (payments.service.ts:895).                                               *)
UnansweredPaymentExpires ==
  \A b \in Booking : status[b] = "PENDING_PAYMENT" ~> status[b] # "PENDING_PAYMENT"

=============================================================================
