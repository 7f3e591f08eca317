------------------------ MODULE BookingServiceProofs ------------------------
(***************************************************************************)
(* Proofs about BookingService, for every set of requests, rooms,          *)
(* equipment types, sessions and limits.                                   *)
(***************************************************************************)
EXTENDS BookingService, SumsProofs, NaturalsInduction, WellFoundedInduction

(* The records that calls start from and roll back to are well typed. *)
LEMMA RecordTypes ==
  /\ NoHold \in HoldCall /\ NoCall \in SessionCall
  /\ \A b \in Booking, answer \in Answers : RolledBack(b, answer) \in HoldCall
  /\ \A p, n \in Nat :
       [NoHold EXCEPT !.at = "queued", !.pct = p, !.attempt = n] \in HoldCall
  BY RequestAssumption
  DEF NoHold, NoCall, HoldCall, SessionCall, RolledBack, InTransaction, Answers

(* So are the updates the steps of a hold make to its record. *)
LEMMA HoldUpdates ==
  ASSUME NEW h \in HoldCall, NEW a \in InTransaction, NEW n \in Nat,
         NEW S \in SUBSET Booking, NEW E \in SUBSET Equipment
  PROVE  /\ [h EXCEPT !.at = a] \in HoldCall
         /\ [h EXCEPT !.at = a, !.since = n] \in HoldCall
         /\ [h EXCEPT !.at = a, !.stale = S] \in HoldCall
         /\ [h EXCEPT !.locked = E] \in HoldCall
  BY DEF HoldCall

(* Every variable keeps its type: no step of the service can store a state *)
(* or a time that its table could not hold.                                *)
THEOREM TypeCorrect == Spec => []TypeOK
<1>1. Init => TypeOK
  <2> SUFFICES ASSUME Init PROVE TypeOK
    OBVIOUS
  <2>1. hold \in [Booking -> HoldCall] /\ session \in [Session -> SessionCall]
    BY RecordTypes DEF Init
  <2> QED BY <2>1 DEF Init, TypeOK, Statuses, NULL
<1>2. TypeOK /\ [Next]_vars => TypeOK'
  <2> SUFFICES ASSUME TypeOK, [Next]_vars PROVE TypeOK'
    OBVIOUS
  <2> USE DEF TypeOK, rows
  <2>0. BufferPcts \subseteq Nat
    BY VenueAssumption
  <2>1. ASSUME NEW b \in Booking, HoldRequest(b) PROVE TypeOK'
    BY <2>1, <2>0, RecordTypes DEF HoldRequest
  <2>2. ASSUME NEW b \in Booking, HoldBegin(b) PROVE TypeOK'
    <3>1. hold[b] \in HoldCall /\ "begun" \in InTransaction
      BY DEF InTransaction
    <3>2. [hold[b] EXCEPT !.at = "begun", !.since = now] \in HoldCall
      BY <3>1, HoldUpdates
    <3> QED BY <2>2, <3>2 DEF HoldBegin
  <2>3. ASSUME NEW b \in Booking, HoldExpireStale(b) PROVE TypeOK'
    <3> DEFINE S == StaleForRoom(roomOf[b], hold[b].since)
    <3>1. hold[b] \in HoldCall /\ "locking" \in InTransaction /\ S \in SUBSET Booking
      BY DEF InTransaction, StaleForRoom
    <3>2. [hold[b] EXCEPT !.at = "locking", !.stale = S] \in HoldCall
      BY <3>1, HoldUpdates
    <3> QED BY <2>3, <3>2 DEF HoldExpireStale
  <2>4. ASSUME NEW b \in Booking, HoldLockEquipment(b) PROVE TypeOK'
    BY <2>4 DEF HoldLockEquipment, HoldCall
  <2>5. ASSUME NEW b \in Booking, HoldAdmitEquipment(b) PROVE TypeOK'
    <3>1. "equipment_short" \in Answers /\ "admitted" \in InTransaction
      BY DEF Answers, InTransaction
    <3>2. hold' = [hold EXCEPT ![b].at = "admitted"]
            \/ hold' = [hold EXCEPT ![b] = RolledBack(b, "equipment_short")]
      BY <2>5 DEF HoldAdmitEquipment
    <3>3. hold' \in [Booking -> HoldCall]
      <4>1. [hold[b] EXCEPT !.at = "admitted"] \in HoldCall
        BY <3>1, HoldUpdates
      <4> QED BY <3>1, <3>2, <4>1, RecordTypes
    <3> QED BY <2>5, <3>3 DEF HoldAdmitEquipment
  <2>6. ASSUME NEW b \in Booking, HoldInsert(b) PROVE TypeOK'
    <3>1. "room_taken" \in Answers
      BY DEF Answers
    <3>2. CASE RoomConflict(b)
      BY <2>6, <3>1, <3>2, RecordTypes DEF HoldInsert
    <3>3. CASE ~RoomConflict(b)
      <4>1. hold' \in [Booking -> HoldCall] /\ status' \in [Booking -> Statuses]
        BY <2>6, <3>3, RecordTypes DEF HoldInsert, Statuses
      <4>2. hold[b].since \in Nat /\ HoldExpiry(now) \in Nat
        BY LimitAssumption DEF HoldCall, HoldExpiry
      <4> QED BY <2>6, <3>3, <4>1, <4>2 DEF HoldInsert
    <3> QED BY <3>2, <3>3
  <2>7. ASSUME NEW b \in Booking, HoldAbort(b) PROVE TypeOK'
    <3>1. "contended" \in Answers
      BY DEF Answers
    <3>2. hold[b].pct \in Nat /\ hold[b].attempt + 1 \in Nat
      BY DEF HoldCall
    <3> QED BY <2>7, <3>1, <3>2, RecordTypes DEF HoldAbort
  <2>8. ASSUME NEW b \in Booking, NEW to \in Statuses, Transition(b, to)
        PROVE status' \in [Booking -> Statuses]
    BY <2>8 DEF Transition
  <2>9. ASSUME NEW b \in Booking, Cancel(b) PROVE TypeOK'
    BY <2>9, <2>8 DEF Cancel, Statuses
  <2>10. ASSUME NEW b \in Booking, ChargeSucceeded(b) PROVE TypeOK'
    BY <2>10, <2>8 DEF ChargeSucceeded, Statuses, NULL
  <2>11. ASSUME NEW b \in Booking, ChargeFailed(b) PROVE TypeOK'
    BY <2>11, <2>8 DEF ChargeFailed, Statuses
  <2>12. ASSUME NEW s \in Session, NEW b \in Booking, CheckoutRead(s, b) PROVE TypeOK'
    BY <2>12, LimitAssumption DEF CheckoutRead, RearmTo, LifetimeCap, SessionCall
  <2>13. ASSUME NEW s \in Session, CheckoutWrite(s) PROVE TypeOK'
    <3>1. /\ session[s].bk \in Booking
          /\ session[s].expires \in Nat /\ session[s].rearm + 1 \in Nat
      BY DEF SessionCall
    <3>2. expiresAt' \in [Booking -> Nat] /\ rearmCount' \in [Booking -> Nat]
      BY <2>13, <3>1 DEF CheckoutWrite
    <3>3. revived' \in SUBSET Booking
      BY <2>13, <3>1 DEF CheckoutWrite
    <3> QED BY <2>13, <3>2, <3>3, RecordTypes DEF CheckoutWrite
  <2>14. ASSUME NEW s \in Session, NEW b \in Booking, PayRead(s, b) PROVE TypeOK'
    BY <2>14, RecordTypes DEF PayRead, SessionCall, NoCall
  <2>15. ASSUME NEW s \in Session, PayWrite(s) PROVE TypeOK'
    <3>1. session[s].bk \in Booking
      BY DEF SessionCall
    <3>2. status' \in [Booking -> Statuses] /\ revived' \in SUBSET Booking
      BY <2>15, <3>1 DEF PayWrite, Statuses
    <3> QED BY <2>15, <3>2, RecordTypes DEF PayWrite
  <2>16. ASSUME NEW s \in Session, NEW b \in Booking, RefuseLapsed(s, b) PROVE TypeOK'
    BY <2>16, RecordTypes DEF RefuseLapsed, SessionCall, NoCall
  <2>17. ASSUME NEW s \in Session, Hangup(s) PROVE TypeOK'
    BY <2>17, RecordTypes DEF Hangup
  <2>18. ASSUME NEW p \in BufferPcts, UpdateSettings(p) PROVE TypeOK'
    BY <2>18 DEF UpdateSettings
  <2>19. ASSUME Sweep PROVE TypeOK'
    BY <2>19 DEF Sweep, Statuses
  <2>20. ASSUME Tick PROVE TypeOK'
    BY <2>20 DEF Tick
  <2>21. ASSUME UNCHANGED vars PROVE TypeOK'
    BY <2>21 DEF vars
  <2> QED
    BY <2>1, <2>2, <2>3, <2>4, <2>5, <2>6, <2>7, <2>9, <2>10, <2>11, <2>12, <2>13,
       <2>14, <2>15, <2>16, <2>17, <2>18, <2>19, <2>20, <2>21
    DEF Next, HoldStep
<1> QED
  BY <1>1, <1>2, PTL DEF Spec

-----------------------------------------------------------------------------
(***************************************************************************)
(* What the transactions in flight know, which the invariants alone do not *)
(* say: whose locks exclude whose, that a row under a lock stays as it was *)
(* found, and that an admission decided under the locks is still good.     *)
(***************************************************************************)

(* The advisory lock admits one hold at a time to a room. *)
RoomLockExclusive ==
  \A a, b \in Booking :
    (/\ a # b /\ hold[a].at \in {"locking", "admitted"}
     /\ hold[b].at \in {"locking", "admitted"}) => roomOf[a] # roomOf[b]

(* FOR UPDATE gives an equipment row to one hold at a time, which takes the *)
(* types it asks for from the smallest id up.                               *)
EquipmentLocks ==
  \A b \in Booking :
    /\ hold[b].locked \subseteq Wanted(b)
    /\ \A a \in Booking : a # b => hold[a].locked \cap hold[b].locked = {}
    /\ \A e \in hold[b].locked, f \in Wanted(b) \ hold[b].locked : e < f
    /\ hold[b].at = "admitted" => Wanted(b) \subseteq hold[b].locked
    /\ hold[b].at \notin {"locking", "admitted"} => hold[b].locked = {}

(* A request in flight has no row yet; the rows it has expired are still the *)
(* lapsed holds of its room; its clock is not ahead of the real one; and the *)
(* buffer it works with is one the venue has used.                           *)
HoldFacts ==
  \A b \in Booking :
    /\ hold[b].at \in {"queued"} \cup InTransaction
         => status[b] = "DRAFT" /\ hold[b].pct \in BufferPcts
    /\ hold[b].since <= now
    /\ hold[b].stale # {} => hold[b].at \in {"locking", "admitted"}
    /\ \A x \in hold[b].stale : /\ roomOf[x] = roomOf[b] /\ status[x] = "HELD"
                                 /\ ExpiredBefore(x, hold[b].since)

(* The rows that count against the fleet, those back from the dead aside. *)
Counted == Reserving(now) \ revived

(* The request fits beside S at every instant of its interval. *)
FitsAlways(b, e, S, pct) ==
  \A t \in startsAt[b] .. (endsAt[b] - 1) :
    Cardinality(UnitsOut(S, e, t)) + quantity[b][e]
      <= admissionCeiling(unitsOwned[e], pct)

(* What a hold was admitted for still fits. *)
AdmissionsHold ==
  \A b \in Booking : hold[b].at = "admitted" =>
    \A e \in Wanted(b) : FitsAlways(b, e, Counted, hold[b].pct)

IInv == /\ TypeOK /\ RoomLockExclusive /\ EquipmentLocks /\ HoldFacts
        /\ AdmissionsHold /\ NoRoomOverlap /\ EquipmentNeverOversold

-----------------------------------------------------------------------------
(* Counting units. *)

(* The units out at an instant can be counted. *)
LEMMA UnitsOutFinite ==
  ASSUME NEW S \in SUBSET Booking, NEW e, NEW t
  PROVE  /\ IsFiniteSet(UnitsOut(S, e, t))
         /\ Cardinality(UnitsOut(S, e, t)) \in Nat
<1>1. IsFiniteSet(S) /\ IsFiniteSet(1..MAX_QUANTITY)
  <2>1. IsFiniteSet(S)
    BY RequestAssumption, FS_Subset
  <2> QED BY <2>1, UpTo, RequestAssumption
<1>2. IsFiniteSet(S \X (1..MAX_QUANTITY))
  BY <1>1, FS_Product
<1>3. UnitsOut(S, e, t) \in SUBSET (S \X (1..MAX_QUANTITY))
  BY DEF UnitsOut
<1> QED BY <1>2, <1>3, FS_Subset, FS_CardinalityType

(* Fewer bookings have no more units out. *)
LEMMA UnitsMonotone ==
  ASSUME NEW S \in SUBSET Booking, NEW T \in SUBSET S, NEW e, NEW t
  PROVE  Cardinality(UnitsOut(T, e, t)) <= Cardinality(UnitsOut(S, e, t))
<1>1. UnitsOut(T, e, t) \in SUBSET UnitsOut(S, e, t)
  BY DEF UnitsOut
<1> QED BY <1>1, UnitsOutFinite, FS_Subset

(* One more booking has at most its own quantity more out, and nothing more *)
(* when it does not use the type or is over at that instant.                *)
LEMMA UnitsAdded ==
  ASSUME NEW S \in SUBSET Booking, NEW b \in Booking, NEW e \in Equipment, NEW t \in Nat
  PROVE  /\ Cardinality(UnitsOut(S \cup {b}, e, t))
              <= Cardinality(UnitsOut(S, e, t)) + quantity[b][e]
         /\ ~During(b, t) \/ quantity[b][e] = 0
              => Cardinality(UnitsOut(S \cup {b}, e, t)) <= Cardinality(UnitsOut(S, e, t))
<1> DEFINE Q == {b} \X (1..quantity[b][e])
<1>0. quantity[b][e] \in Nat
  BY RequestAssumption
<1>1. IsFiniteSet({b}) /\ Cardinality({b}) = 1
  BY FS_Singleton
<1>2. IsFiniteSet(1..quantity[b][e]) /\ Cardinality(1..quantity[b][e]) = quantity[b][e]
  BY <1>0, UpTo
<1>3. IsFiniteSet(Q) /\ Cardinality(Q) = quantity[b][e]
  <2>1. IsFiniteSet(Q) /\ Cardinality(Q) = Cardinality({b}) * Cardinality(1..quantity[b][e])
    BY <1>1, <1>2, FS_Product
  <2> QED BY <1>0, <1>1, <1>2, <2>1
<1>4. UnitsOut(S \cup {b}, e, t) \in SUBSET (UnitsOut(S, e, t) \cup Q)
  BY <1>0 DEF UnitsOut
<1>5. /\ IsFiniteSet(UnitsOut(S, e, t) \cup Q)
      /\ Cardinality(UnitsOut(S, e, t) \cup Q)
           = Cardinality(UnitsOut(S, e, t)) + Cardinality(Q)
               - Cardinality(UnitsOut(S, e, t) \cap Q)
  BY <1>3, UnitsOutFinite, FS_Union
<1>6. Cardinality(UnitsOut(S, e, t) \cap Q) \in Nat
  BY <1>3, FS_Subset, FS_CardinalityType
<1>7. Cardinality(UnitsOut(S \cup {b}, e, t)) <= Cardinality(UnitsOut(S, e, t) \cup Q)
  BY <1>4, <1>5, FS_Subset
<1>8. S \cup {b} \in SUBSET Booking
  OBVIOUS
<1>9. Cardinality(UnitsOut(S \cup {b}, e, t))
        <= Cardinality(UnitsOut(S, e, t)) + quantity[b][e]
  BY <1>0, <1>3, <1>5, <1>6, <1>7, <1>8, UnitsOutFinite
<1>10. ASSUME ~During(b, t) \/ quantity[b][e] = 0
       PROVE  Cardinality(UnitsOut(S \cup {b}, e, t)) <= Cardinality(UnitsOut(S, e, t))
  <2>1. UnitsOut(S \cup {b}, e, t) \in SUBSET UnitsOut(S, e, t)
    BY <1>10 DEF UnitsOut
  <2> QED BY <2>1, UnitsOutFinite, FS_Subset
<1> QED BY <1>9, <1>10

-----------------------------------------------------------------------------
(* The sweep over events finds the peak. *)

(* A set of naturals that is not empty and is bounded has a largest element. *)
LEMMA LargestElement ==
  ASSUME NEW n \in Nat, NEW T \in SUBSET (0..n), T # {}
  PROVE  \E e \in T : \A f \in T : f <= e
<1> DEFINE U == {n - e : e \in T}
<1>1. U \subseteq Nat /\ U # {}
  <2>1. \A e \in T : n - e \in Nat
    OBVIOUS
  <2>2. PICK e \in T : TRUE
    OBVIOUS
  <2>3. n - e \in U
    OBVIOUS
  <2> QED BY <2>1, <2>3
<1>2. \E x \in U : \A y \in U : ~(<<y, x>> \in OpToRel(<, Nat))
  <2> HIDE DEF U
  <2> QED BY <1>1, NatLessThanWellFounded, WFMin
<1>3. PICK x \in U : \A y \in U : ~(<<y, x>> \in OpToRel(<, Nat))
  BY <1>2
<1>4. \A y \in U : ~(y < x)
  <2>1. \A y \in U : <<y, x>> \in Nat \X Nat
    BY <1>1
  <2> HIDE DEF U
  <2> QED BY <1>3, <2>1 DEF OpToRel
<1>5. PICK e \in T : x = n - e
  OBVIOUS
<1>6. ASSUME NEW f \in T
      PROVE  f <= e
  <2>1. n - f \in U
    OBVIOUS
  <2>2. ~(n - f < n - e)
    BY <1>4, <1>5, <2>1
  <2> HIDE DEF U
  <2>3. e \in Nat /\ f \in Nat
    OBVIOUS
  <2> QED BY <2>2, <2>3
<1> HIDE DEF U
<1> QED BY <1>6

(* The bookings that use e and meet b's interval, and those of them out at t. *)
LineItems(e) == [c \in Booking |-> quantity[c][e]]
OutAt(b, O, t) == {c \in O : WindowStart(b, c) <= t /\ t < WindowEnd(b, c)}

(* Clipping leaves times in b's interval, and no line item empty. *)
LEMMA Clipped ==
  ASSUME NEW b \in Booking, NEW e \in Equipment, NEW S \in SUBSET Booking,
         NEW c \in Overlapping(b, e, S)
  PROVE  /\ c \in Booking /\ rowOrder[c] \in Nat
         /\ WindowStart(b, c) \in Nat /\ WindowEnd(b, c) \in Nat
         /\ startsAt[b] <= WindowStart(b, c)
         /\ WindowStart(b, c) < WindowEnd(b, c)
         /\ WindowEnd(b, c) <= endsAt[b]
<1>1. /\ c \in Booking /\ startsAt[c] < endsAt[b] /\ endsAt[c] > startsAt[b]
      /\ startsAt[c] \in Nat /\ endsAt[c] \in Nat /\ startsAt[b] \in Nat /\ endsAt[b] \in Nat
      /\ startsAt[c] < endsAt[c] /\ startsAt[b] < endsAt[b] /\ rowOrder[c] \in Nat
  BY RequestAssumption, FS_CardinalityType DEF Overlapping
<1> QED BY <1>1 DEF WindowStart, WindowEnd

(* Which events are not after g: of two at one instant a release comes first. *)
LEMMA EventOrder ==
  ASSUME NEW b, NEW c, NEW g
  PROVE  /\ UpToEvent(b, <<c, 1>>, g)
              <=> \/ WindowStart(b, c) < EventAt(b, g)
                  \/ /\ WindowStart(b, c) = EventAt(b, g)
                     /\ 1 < g[2] \/ (1 = g[2] /\ rowOrder[c] <= rowOrder[g[1]])
         /\ UpToEvent(b, <<c, 0>>, g)
              <=> \/ WindowEnd(b, c) < EventAt(b, g)
                  \/ /\ WindowEnd(b, c) = EventAt(b, g)
                     /\ 0 < g[2] \/ (0 = g[2] /\ rowOrder[c] <= rowOrder[g[1]])
BY DEF UpToEvent, EventAt

(* The units out at an instant of b's interval are those of the line items  *)
(* out then.                                                                *)
LEMMA UnitsOutAreItems ==
  ASSUME NEW b \in Booking, NEW e \in Equipment, NEW S \in SUBSET Booking,
         NEW t \in startsAt[b] .. (endsAt[b] - 1)
  PROVE  Cardinality(UnitsOut(S, e, t))
           = SumOver(LineItems(e), OutAt(b, Overlapping(b, e, S), t))
<1> DEFINE D == OutAt(b, Overlapping(b, e, S), t)
           q == LineItems(e)
<1>0. /\ \A c \in Booking : /\ startsAt[c] \in Nat /\ endsAt[c] \in Nat
                            /\ quantity[c][e] \in 0..MAX_QUANTITY
      /\ MAX_QUANTITY \in Nat /\ t \in Nat
      /\ startsAt[b] <= t /\ t < endsAt[b]
  BY RequestAssumption
<1>1. ASSUME NEW c \in S
      PROVE  c \in D <=> During(c, t) /\ quantity[c][e] > 0
  BY <1>0 DEF OutAt, Overlapping, During, WindowStart, WindowEnd
<1>2. D \subseteq S /\ \A c \in S : q[c] = quantity[c][e]
  BY DEF OutAt, Overlapping, LineItems
<1>3. ASSUME NEW u \in UnitsOut(S, e, t) PROVE u \in Units(q, D)
  <2>1. /\ u \in S \X (1..MAX_QUANTITY) /\ u = <<u[1], u[2]>>
        /\ During(u[1], t) /\ u[2] <= quantity[u[1]][e]
    BY DEF UnitsOut
  <2>2. u[1] \in D /\ u[2] \in 1..q[u[1]]
    BY <1>0, <1>1, <1>2, <2>1
  <2>3. u \in {u[1]} \X (1..q[u[1]])
    BY <2>1, <2>2
  <2> QED BY <2>2, <2>3 DEF Units
<1>4. ASSUME NEW u \in Units(q, D) PROVE u \in UnitsOut(S, e, t)
  <2>1. PICK c \in D : u \in {c} \X (1..q[c])
    BY DEF Units
  <2>2. u = <<u[1], u[2]>> /\ u[1] = c /\ u[2] \in 1..q[c]
    BY <2>1
  <2>3. c \in S /\ During(c, t) /\ u[2] \in 1..MAX_QUANTITY /\ u[2] <= quantity[c][e]
    BY <1>0, <1>1, <1>2, <2>2
  <2>4. u \in S \X (1..MAX_QUANTITY)
    BY <2>2, <2>3
  <2> QED BY <2>2, <2>3, <2>4 DEF UnitsOut
<1>5. UnitsOut(S, e, t) = Units(q, D)
  BY <1>3, <1>4
<1> QED BY <1>5 DEF SumOver

(* Fewer line items have no more units. *)
LEMMA FewerItems ==
  ASSUME NEW e \in Equipment, NEW T \in SUBSET Booking, NEW S \in SUBSET T
  PROVE  /\ SumOver(LineItems(e), S) \in Nat /\ SumOver(LineItems(e), T) \in Nat
         /\ SumOver(LineItems(e), S) <= SumOver(LineItems(e), T)
<1> DEFINE q == LineItems(e)
           m == [c \in Booking |-> c]
<1>1. IsFiniteSet(T) /\ IsFiniteSet(S)
  BY RequestAssumption, FS_Subset
<1>2. \A c \in Booking : q[c] \in Nat /\ m[c] = c
  BY RequestAssumption DEF LineItems
<1> HIDE DEF q, m
<1>3. SumOver(q, S) \in Nat /\ SumOver(q, T) \in Nat
  BY <1>1, <1>2, SumIsNat
<1>4. /\ \A c \in S : m[c] \in T /\ q[c] \in Nat /\ q[c] <= q[m[c]]
      /\ \A c, d \in S : m[c] = m[d] => c = d
      /\ \A c \in T : q[c] \in Nat
  BY <1>2
<1>5. SumOver(q, S) <= SumOver(q, T)
  BY <1>1, <1>4, SumCovered
<1> QED BY <1>3, <1>5 DEF q

(* A running total is what the items taken and not yet back amount to: an    *)
(* item is never back before it is taken.                                   *)
Seen(b, O, g, k) == {c \in O : UpToEvent(b, <<c, k>>, g)}

LEMMA TotalIsOut ==
  ASSUME NEW b \in Booking, NEW e \in Equipment, NEW S \in SUBSET Booking,
         NEW g \in Overlapping(b, e, S) \X {0, 1}
  PROVE  LET O == Overlapping(b, e, S) IN
         InUse(b, e, O, g) = SumOver(LineItems(e), Seen(b, O, g, 1) \ Seen(b, O, g, 0))
<1> DEFINE O == Overlapping(b, e, S)
           q == LineItems(e)
           A == Seen(b, O, g, 1)
           R == Seen(b, O, g, 0)
           units == [c \in O |-> quantity[c][e]]
<1>1. EventAt(b, g) \in Nat /\ O \subseteq Booking /\ A \subseteq O /\ g[2] \in {0, 1}
  <2>1. g[1] \in O /\ g[2] \in {0, 1}
    OBVIOUS
  <2>2. WindowStart(b, g[1]) \in Nat /\ WindowEnd(b, g[1]) \in Nat
    BY <2>1, Clipped
  <2> QED BY <2>1, <2>2 DEF Seen, Overlapping, EventAt
<1>2. R \subseteq A
  <2> SUFFICES ASSUME NEW c \in O, UpToEvent(b, <<c, 0>>, g)
               PROVE  UpToEvent(b, <<c, 1>>, g)
    BY DEF Seen
  <2>1. /\ WindowStart(b, c) < WindowEnd(b, c)
        /\ WindowStart(b, c) \in Nat /\ WindowEnd(b, c) \in Nat
    BY Clipped
  <2>2. WindowEnd(b, c) < EventAt(b, g) \/ WindowEnd(b, c) = EventAt(b, g)
    BY EventOrder
  <2> QED BY <1>1, <2>1, <2>2, EventOrder
<1>3. IsFiniteSet(A \ R) /\ IsFiniteSet(R) /\ \A c \in Booking : q[c] \in Nat
  <2>1. A \ R \in SUBSET Booking /\ R \in SUBSET Booking
    BY <1>1, <1>2
  <2>2. \A c \in Booking : q[c] \in Nat
    BY RequestAssumption DEF LineItems
  <2> QED BY <2>1, <2>2, RequestAssumption, FS_Subset
<1>4. \A c \in O : units[c] = q[c]
  BY <1>1 DEF LineItems
<1>5. InUse(b, e, O, g) = SumOver(units, A) - SumOver(units, R)
  BY DEF InUse, Seen
<1> HIDE DEF O, q, A, R, units
<1>6. SumOver(units, A) = SumOver(q, A) /\ SumOver(units, R) = SumOver(q, R)
  <2>1. /\ \A c \in A : units[c] = q[c]
        /\ \A c \in R : units[c] = q[c]
    BY <1>1, <1>2, <1>4
  <2> QED BY <2>1, SumSame
<1>7. SumOver(q, A) = SumOver(q, A \ R) + SumOver(q, R)
  <2>1. (A \ R) \cup R = A /\ (A \ R) \cap R = {} /\ A \subseteq Booking
    BY <1>1, <1>2
  <2>2. SumOver(q, (A \ R) \cup R) = SumOver(q, A \ R) + SumOver(q, R)
    BY <1>3, <2>1, SumDisjoint
  <2> QED BY <2>1, <2>2
<1>8. SumOver(q, A \ R) \in Nat /\ SumOver(q, R) \in Nat
  BY <1>3, <1>1, <1>2, SumIsNat
<1>9. InUse(b, e, O, g) = SumOver(q, A \ R)
  BY <1>5, <1>6, <1>7, <1>8
<1> QED BY <1>9 DEF O, q, A, R

(* No running total exceeds what is out at some instant of the interval:     *)
(* when units are taken all that are due then are already back, and when    *)
(* units are back the instant before had them all out.                      *)
LEMMA TotalIsReached ==
  ASSUME NEW b \in Booking, NEW e \in Equipment, NEW S \in SUBSET Booking,
         NEW g \in Overlapping(b, e, S) \X {0, 1}
  PROVE  LET O == Overlapping(b, e, S) IN
         \E t \in startsAt[b] .. (endsAt[b] - 1) :
           Seen(b, O, g, 1) \ Seen(b, O, g, 0) \subseteq OutAt(b, O, t)
<1> DEFINE O == Overlapping(b, e, S)
           T == EventAt(b, g)
<1>0. startsAt[b] \in Nat /\ endsAt[b] \in Nat
  BY RequestAssumption
<1>1. g[1] \in O /\ g[2] \in {0, 1}
  OBVIOUS
<1>2. ASSUME NEW c \in O
      PROVE  /\ WindowStart(b, c) \in Nat /\ WindowEnd(b, c) \in Nat
             /\ startsAt[b] <= WindowStart(b, c)
             /\ WindowStart(b, c) < WindowEnd(b, c)
             /\ WindowEnd(b, c) <= endsAt[b]
             /\ rowOrder[c] \in Nat
  BY Clipped
<1>3. CASE g[2] = 1
  <2>1. T \in Nat /\ T \in startsAt[b] .. (endsAt[b] - 1)
    <3>1. T = WindowStart(b, g[1])
      BY <1>3 DEF EventAt
    <3>2. g[1] \in O
      BY <1>1
    <3> HIDE DEF T, O
    <3> QED BY <1>0, <1>2, <3>1, <3>2
  <2>2. ASSUME NEW c \in Seen(b, O, g, 1) \ Seen(b, O, g, 0)
        PROVE  c \in OutAt(b, O, T)
    <3>1. c \in O /\ UpToEvent(b, <<c, 1>>, g) /\ ~UpToEvent(b, <<c, 0>>, g)
      BY DEF Seen
    <3>2. WindowStart(b, c) <= T
      BY <1>2, <2>1, <3>1, EventOrder
    <3>3. T < WindowEnd(b, c)
      BY <1>2, <1>3, <2>1, <3>1, EventOrder
    <3> QED BY <3>1, <3>2, <3>3 DEF OutAt
  <2> QED BY <2>1, <2>2
<1>4. CASE g[2] = 0
  <2>1. T \in Nat /\ T - 1 \in startsAt[b] .. (endsAt[b] - 1)
    <3>1. T = WindowEnd(b, g[1])
      BY <1>4 DEF EventAt
    <3>2. g[1] \in O
      BY <1>1
    <3> HIDE DEF T, O
    <3> QED BY <1>0, <1>2, <3>1, <3>2
  <2>2. ASSUME NEW c \in Seen(b, O, g, 1) \ Seen(b, O, g, 0)
        PROVE  c \in OutAt(b, O, T - 1)
    <3>1. c \in O /\ UpToEvent(b, <<c, 1>>, g) /\ ~UpToEvent(b, <<c, 0>>, g)
      BY DEF Seen
    <3>2. WindowStart(b, c) < T
      BY <1>2, <1>4, <2>1, <3>1, EventOrder
    <3>3. T <= WindowEnd(b, c)
      BY <1>2, <1>4, <2>1, <3>1, EventOrder
    <3>4. WindowStart(b, c) <= T - 1 /\ T - 1 < WindowEnd(b, c)
      BY <1>2, <2>1, <3>1, <3>2, <3>3
    <3> QED BY <3>1, <3>4 DEF OutAt
  <2> QED BY <2>1, <2>2
<1> QED BY <1>1, <1>3, <1>4

(* And what is out at an instant is in the total at the last event by then   *)
(* at which units are taken.                                                *)
LEMMA InstantIsSeen ==
  ASSUME NEW b \in Booking, NEW e \in Equipment, NEW S \in SUBSET Booking,
         NEW t \in startsAt[b] .. (endsAt[b] - 1),
         OutAt(b, Overlapping(b, e, S), t) # {}
  PROVE  LET O == Overlapping(b, e, S) IN
         \E g \in O \X {0, 1} :
           OutAt(b, O, t) \subseteq Seen(b, O, g, 1) \ Seen(b, O, g, 0)
<1> DEFINE O == Overlapping(b, e, S)
           L == {c \in O : WindowStart(b, c) <= t}
           times == {WindowStart(b, c) : c \in L}
<1>0. t \in Nat
  BY RequestAssumption
<1>1. ASSUME NEW c \in O
      PROVE  /\ WindowStart(b, c) \in Nat /\ WindowEnd(b, c) \in Nat
             /\ rowOrder[c] \in Nat /\ c \in Booking
  BY Clipped
<1>2. OutAt(b, O, t) \subseteq L /\ L # {} /\ L \subseteq O
  BY DEF OutAt
<1> HIDE DEF O
<1>3. PICK T \in times : \A s \in times : s <= T
  <2>1. times \subseteq 0..t
    <3>1. ASSUME NEW c \in L PROVE WindowStart(b, c) \in 0..t
      BY <1>0, <1>1
    <3> QED BY <3>1
  <2>2. times # {}
    <3>1. PICK c \in L : TRUE
      BY <1>2
    <3>2. WindowStart(b, c) \in times
      BY <3>1
    <3> QED BY <3>2
  <2> HIDE DEF times
  <2> QED BY <1>0, <2>1, <2>2, LargestElement
<1> DEFINE last == {c \in L : WindowStart(b, c) = T}
           ranks == {rowOrder[c] : c \in last}
<1>4. PICK r \in ranks : \A s \in ranks : s <= r
  <2>1. Cardinality(Booking) \in Nat
    BY RequestAssumption, FS_CardinalityType
  <2>2. ranks \subseteq 0..Cardinality(Booking)
    <3>1. ASSUME NEW c \in last PROVE rowOrder[c] \in 0..Cardinality(Booking)
      BY <1>1, <1>2, <2>1, RequestAssumption
    <3> QED BY <3>1
  <2>3. ranks # {}
    <3>1. PICK c \in L : T = WindowStart(b, c)
      BY <1>3
    <3>2. c \in last
      BY <3>1
    <3>3. rowOrder[c] \in ranks
      BY <3>2
    <3> QED BY <3>3
  <2> HIDE DEF ranks
  <2> QED BY <2>1, <2>2, <2>3, LargestElement
<1>5. PICK c \in last : r = rowOrder[c]
  OBVIOUS
<1> DEFINE g == <<c, 1>>
<1>6. g \in O \X {0, 1} /\ EventAt(b, g) = T /\ T <= t /\ T \in Nat
  BY <1>1, <1>2, <1>5 DEF EventAt
<1>7. ASSUME NEW x \in OutAt(b, O, t)
      PROVE  x \in Seen(b, O, g, 1) \ Seen(b, O, g, 0)
  <2>1. x \in L /\ x \in O /\ t < WindowEnd(b, x)
    BY <1>2 DEF OutAt
  <2>2. WindowStart(b, x) <= T
    BY <1>3, <2>1
  <2>3. WindowStart(b, x) = T => rowOrder[x] <= rowOrder[c]
    BY <1>4, <1>5, <2>1
  <2>4. /\ UpToEvent(b, <<x, 1>>, g)
             <=> \/ WindowStart(b, x) < T
                 \/ WindowStart(b, x) = T /\ rowOrder[x] <= rowOrder[c]
        /\ UpToEvent(b, <<x, 0>>, g)
             <=> WindowEnd(b, x) < T \/ WindowEnd(b, x) = T
    BY <1>6 DEF UpToEvent, EventAt
  <2>5. WindowStart(b, x) \in Nat /\ WindowEnd(b, x) \in Nat
    BY <1>1, <2>1
  <2>6. UpToEvent(b, <<x, 1>>, g)
    BY <1>6, <2>2, <2>3, <2>4, <2>5
  <2>7. ~UpToEvent(b, <<x, 0>>, g)
    BY <1>0, <1>6, <2>1, <2>4, <2>5
  <2> QED BY <2>1, <2>6, <2>7 DEF Seen
<1> QED BY <1>6, <1>7 DEF O

(* The ceiling is an integer, rounding included. *)
LEMMA CeilingType ==
  ASSUME NEW e \in Equipment, NEW p \in Nat
  PROVE  admissionCeiling(unitsOwned[e], p) \in Int
<1>1. unitsOwned[e] * (100 + p) \in Int
  BY VenueAssumption
<1> QED BY <1>1 DEF admissionCeiling

(* The query's arithmetic answers the question it is asked: a request fits   *)
(* on top of the peak exactly if it fits at every instant of its interval,  *)
(* in whatever order the database meets equal rows.                         *)
LEMMA PeakIsPeak ==
  ASSUME NEW b \in Booking, NEW e \in Equipment, NEW S \in SUBSET Booking, NEW p \in Nat
  PROVE  PeakFits(b, e, S, p) <=> FitsAlways(b, e, S, p)
<1> DEFINE O == Overlapping(b, e, S)
           q == LineItems(e)
           ceiling == admissionCeiling(unitsOwned[e], p)
           totals == {0} \cup {InUse(b, e, O, g) : g \in O \X {0, 1}}
           peak == peakConcurrentUsage(b, e, S)
           want == quantity[b][e]
<1>0. /\ O \in SUBSET Booking /\ ceiling \in Int /\ want \in Nat
      /\ startsAt[b] \in startsAt[b] .. (endsAt[b] - 1)
  <2>1. ceiling \in Int
    BY CeilingType
  <2> QED BY <2>1, RequestAssumption DEF Overlapping
<1>1. ASSUME NEW g \in O \X {0, 1}
      PROVE  InUse(b, e, O, g) = SumOver(q, Seen(b, O, g, 1) \ Seen(b, O, g, 0))
  BY TotalIsOut
<1>2. ASSUME NEW T \in SUBSET O, NEW U \in SUBSET T
      PROVE  /\ SumOver(q, U) \in Nat /\ SumOver(q, T) \in Nat
             /\ SumOver(q, U) <= SumOver(q, T)
  BY <1>0, FewerItems
<1>3. ASSUME NEW t \in startsAt[b] .. (endsAt[b] - 1)
      PROVE  Cardinality(UnitsOut(S, e, t)) = SumOver(q, OutAt(b, O, t)) /\ OutAt(b, O, t) \in SUBSET O
  BY UnitsOutAreItems DEF OutAt
<1>4. peak \in totals /\ peak \in Nat /\ \A n \in totals : n <= peak
  <2>1. SumOver(q, O) \in Nat /\ totals \in SUBSET (0..SumOver(q, O)) /\ totals # {}
    <3>1. ASSUME NEW g \in O \X {0, 1} PROVE InUse(b, e, O, g) \in 0..SumOver(q, O)
      <4>1. Seen(b, O, g, 1) \ Seen(b, O, g, 0) \in SUBSET O
        BY DEF Seen
      <4> HIDE DEF O, q
      <4>2. O \in SUBSET O
        OBVIOUS
      <4>3. /\ SumOver(q, Seen(b, O, g, 1) \ Seen(b, O, g, 0)) \in Nat
            /\ SumOver(q, O) \in Nat
            /\ SumOver(q, Seen(b, O, g, 1) \ Seen(b, O, g, 0)) <= SumOver(q, O)
        BY <1>2, <4>1, <4>2
      <4> QED BY <1>1, <4>3
    <3>2. SumOver(q, O) \in Nat
      <4> HIDE DEF O, q
      <4> QED BY <1>2
    <3> HIDE DEF O, q
    <3> QED BY <3>1, <3>2
  <2>2. \E m \in totals : \A n \in totals : n <= m
    <3> HIDE DEF totals, O, q
    <3> QED BY <2>1, LargestElement
  <2>3. peak = CHOOSE m \in totals : \A n \in totals : n <= m
    BY DEF peakConcurrentUsage
  <2> HIDE DEF totals, peak, O, q
  <2>4. peak \in totals /\ \A n \in totals : n <= peak
    BY <2>2, <2>3
  <2>5. \A n \in totals : n \in Nat
    BY <2>1
  <2> QED BY <2>4, <2>5
<1>5. PeakFits(b, e, S, p) <=> peak + want <= ceiling
  BY DEF PeakFits
<1>6. FitsAlways(b, e, S, p)
        <=> \A t \in startsAt[b] .. (endsAt[b] - 1) : SumOver(q, OutAt(b, O, t)) + want <= ceiling
  BY <1>3 DEF FitsAlways
<1>7. ASSUME FitsAlways(b, e, S, p) PROVE peak + want <= ceiling
  <2>1. CASE peak = 0
    <3>1. SumOver(q, OutAt(b, O, startsAt[b])) \in Nat
      <4>1. OutAt(b, O, startsAt[b]) \in SUBSET O
        BY DEF OutAt
      <4> HIDE DEF O, q
      <4> QED BY <1>2, <4>1
    <3> QED BY <1>0, <1>6, <1>7, <2>1, <3>1
  <2>2. CASE peak # 0
    <3>1. PICK g \in O \X {0, 1} : peak = InUse(b, e, O, g)
      BY <1>4, <2>2
    <3>2. PICK t \in startsAt[b] .. (endsAt[b] - 1) :
             Seen(b, O, g, 1) \ Seen(b, O, g, 0) \subseteq OutAt(b, O, t)
      BY TotalIsReached
    <3>3. SumOver(q, OutAt(b, O, t)) \in Nat /\ peak <= SumOver(q, OutAt(b, O, t))
      <4>1. OutAt(b, O, t) \in SUBSET O
        BY <1>3
      <4>2. peak = SumOver(q, Seen(b, O, g, 1) \ Seen(b, O, g, 0))
        BY <1>1, <3>1
      <4> HIDE DEF O, q, peak
      <4> QED BY <1>2, <3>2, <4>1, <4>2
    <3>4. SumOver(q, OutAt(b, O, t)) + want <= ceiling
      BY <1>6, <1>7
    <3> HIDE DEF O, q, peak, want, ceiling
    <3> QED BY <1>0, <1>4, <3>3, <3>4
  <2> QED BY <2>1, <2>2
<1>8. ASSUME peak + want <= ceiling, NEW t \in startsAt[b] .. (endsAt[b] - 1)
      PROVE  SumOver(q, OutAt(b, O, t)) + want <= ceiling
  <2>1. SumOver(q, OutAt(b, O, t)) \in Nat /\ SumOver(q, OutAt(b, O, t)) <= peak
    <3>1. CASE OutAt(b, O, t) = {}
      <4>1. SumOver(q, OutAt(b, O, t)) = 0
        BY <3>1, SumOfNone
      <4> QED BY <1>4, <4>1
    <3>2. CASE OutAt(b, O, t) # {}
      <4>1. PICK g \in O \X {0, 1} : OutAt(b, O, t) \subseteq Seen(b, O, g, 1) \ Seen(b, O, g, 0)
        BY <3>2, InstantIsSeen
      <4>2. InUse(b, e, O, g) <= peak
        BY <1>4
      <4>3. Seen(b, O, g, 1) \ Seen(b, O, g, 0) \in SUBSET O
        BY DEF Seen
      <4>4. InUse(b, e, O, g) = SumOver(q, Seen(b, O, g, 1) \ Seen(b, O, g, 0))
        BY <1>1
      <4> HIDE DEF O, q, peak
      <4> QED BY <1>2, <1>4, <4>1, <4>2, <4>3, <4>4
    <3> QED BY <3>1, <3>2
  <2> HIDE DEF O, q, peak, want, ceiling
  <2> QED BY <1>0, <1>4, <1>8, <2>1
<1> QED BY <1>5, <1>6, <1>7, <1>8

-----------------------------------------------------------------------------
(* What every step other than a hold's own does: no row is born or comes    *)
(* back to life, no counted row is added, no locked row is touched.         *)
RowStep ==
  /\ hold' = hold /\ now <= now'
  /\ Counted' \subseteq Counted
  /\ \A x \in Booking :
       /\ status'[x] \in ACTIVE => status[x] \in ACTIVE
       /\ status[x] = "DRAFT" => status'[x] = "DRAFT"
       /\ RowLocked(x) => status'[x] = status[x] /\ expiresAt'[x] = expiresAt[x]
       /\ status'[x] = "HELD" /\ rearmCount'[x] = 0
            => /\ status[x] = "HELD" /\ rearmCount[x] = 0
               /\ expiresAt'[x] = expiresAt[x]

(* Every step of the service is one of those or belongs to a hold. *)
LEMMA RowSteps ==
  ASSUME TypeOK, [Next]_vars
  PROVE  \/ RowStep
         \/ \E b \in Booking : HoldRequest(b) \/ HoldStep(b) \/ HoldAbort(b)
<1> USE DEF TypeOK, rows
<1> DEFINE Rest == /\ hold' = hold /\ now' \in Nat /\ now <= now'
                   /\ revived \subseteq revived'
<1>1. ASSUME NEW b \in Booking, NEW to \in Statuses, Transition(b, to), Rest,
             to \in ACTIVE => status[b] = "PENDING_PAYMENT",
             to = "CONFIRMED" \/ to \notin ACTIVE,
             expiresAt' = expiresAt \/ expiresAt' = [expiresAt EXCEPT ![b] = NULL],
             UNCHANGED <<now, rearmCount>>
      PROVE  RowStep
  <2>0. status[b] # "DRAFT" \/ to = "HELD"
    BY <1>1 DEF Transition, isLegalTransition, LEGAL_TRANSITIONS
  <2>1. \A x \in Booking : x # b => status'[x] = status[x] /\ expiresAt'[x] = expiresAt[x]
    BY <1>1 DEF Transition
  <2>2. status'[b] = to /\ ~RowLocked(b)
    BY <1>1 DEF Transition
  <2>3. Counted' \subseteq Counted
    BY <1>1, <2>1, <2>2 DEF Counted, Reserving, Lapsed, ACTIVE
  <2> QED BY <1>1, <2>0, <2>1, <2>2, <2>3 DEF RowStep, ACTIVE
<1>2. ASSUME NEW b \in Booking, Cancel(b) \/ ChargeSucceeded(b) \/ ChargeFailed(b)
      PROVE  RowStep
  <2>1. CASE Cancel(b)
    BY <1>1, <2>1 DEF Cancel, Statuses, ACTIVE
  <2>2. CASE ChargeSucceeded(b)
    BY <1>1, <2>2 DEF ChargeSucceeded, Statuses, ACTIVE
  <2>3. CASE ChargeFailed(b)
    BY <1>1, <2>3 DEF ChargeFailed, Statuses, ACTIVE
  <2> QED BY <1>2, <2>1, <2>2, <2>3
<1>3. ASSUME NEW s \in Session, CheckoutWrite(s) PROVE RowStep
  <2> DEFINE b == session[s].bk
  <2>1. b \in Booking
    BY DEF SessionCall
  <2>2. /\ UNCHANGED <<hold, now, status>> /\ ~RowLocked(b)
        /\ \A x \in Booking : x # b => /\ expiresAt'[x] = expiresAt[x]
                                       /\ rearmCount'[x] = rearmCount[x]
    BY <1>3, <2>1 DEF CheckoutWrite
  <2>6. rearmCount'[b] # 0 \/ UNCHANGED <<expiresAt, rearmCount>>
    BY <1>3, <2>1 DEF CheckoutWrite, SessionCall
  <2>3. revived \subseteq revived'
    BY <1>3 DEF CheckoutWrite
  <2>4. ASSUME Lapsed(b, now), status[b] = "HELD" PROVE b \in revived'
    BY <1>3, <2>4 DEF CheckoutWrite
  <2>5. Counted' \subseteq Counted
    BY <2>1, <2>2, <2>3, <2>4 DEF Counted, Reserving, Lapsed
  <2> QED BY <2>2, <2>5, <2>6 DEF RowStep
<1>4. ASSUME NEW s \in Session, PayWrite(s) PROVE RowStep
  <2> DEFINE b == session[s].bk
  <2>1. b \in Booking
    BY DEF SessionCall
  <2>2. /\ UNCHANGED <<hold, now, expiresAt, rearmCount>> /\ ~RowLocked(b)
        /\ status'[b] # status[b] => status[b] = "HELD" /\ status'[b] = "PENDING_PAYMENT"
        /\ \A x \in Booking : x # b => status'[x] = status[x]
    BY <1>4, <2>1 DEF PayWrite
  <2>3. revived \subseteq revived'
    BY <1>4 DEF PayWrite
  <2>4. ASSUME Lapsed(b, now), status[b] = "HELD" PROVE b \in revived'
    BY <1>4, <2>4 DEF PayWrite
  <2>5. Counted' \subseteq Counted
    BY <2>1, <2>2, <2>3, <2>4 DEF Counted, Reserving, Lapsed, ACTIVE
  <2> QED BY <2>2, <2>5 DEF RowStep, ACTIVE
<1>5. ASSUME Sweep PROVE RowStep
  <2>1. PICK S \in SUBSET Booking :
          /\ S \subseteq Sweepable
          /\ status' = [x \in Booking |-> IF x \in S THEN "EXPIRED" ELSE status[x]]
    BY <1>5 DEF Sweep, OldestBatch
  <2>2. UNCHANGED <<hold, now, expiresAt, rearmCount, revived>>
    BY <1>5 DEF Sweep
  <2>3. Counted' \subseteq Counted
    BY <2>1, <2>2 DEF Counted, Reserving, Lapsed, ACTIVE
  <2> QED BY <2>1, <2>2, <2>3 DEF RowStep, ACTIVE, Sweepable
<1>6. ASSUME UNCHANGED <<hold, rows, revived>>, now' = now \/ now' = now + 1
      PROVE  RowStep
  <2>1. Counted' \subseteq Counted
    BY <1>6 DEF Counted, Reserving, Lapsed
  <2> QED BY <1>6, <2>1 DEF RowStep
<1>7. ASSUME NEW s \in Session, NEW b \in Booking,
             CheckoutRead(s, b) \/ PayRead(s, b) \/ RefuseLapsed(s, b)
      PROVE  RowStep
  BY <1>6, <1>7 DEF CheckoutRead, PayRead, RefuseLapsed
<1>8. ASSUME Tick \/ (\E p \in BufferPcts : UpdateSettings(p)) \/ UNCHANGED vars
      PROVE  RowStep
  BY <1>6, <1>8 DEF Tick, UpdateSettings, vars
<1>9. ASSUME NEW s \in Session, Hangup(s) PROVE RowStep
  BY <1>6, <1>9 DEF Hangup
<1> QED BY <1>2, <1>3, <1>4, <1>5, <1>7, <1>8, <1>9 DEF Next

-----------------------------------------------------------------------------
(* The locks and what is known under them. *)
LockInv == RoomLockExclusive /\ EquipmentLocks /\ HoldFacts

(* A step that is not a hold's own disturbs no lock and nothing known under *)
(* one.                                                                     *)
LEMMA RowStepKeepsLocks ==
  ASSUME TypeOK, TypeOK', LockInv, RowStep
  PROVE  LockInv'
<1> USE DEF LockInv
<1>1. RoomLockExclusive'
  BY DEF RoomLockExclusive, RowStep
<1>2. EquipmentLocks'
  BY DEF EquipmentLocks, RowStep, Wanted
<1>3. HoldFacts'
  <2> SUFFICES ASSUME NEW b \in Booking PROVE HoldFacts!(b)'
    BY DEF HoldFacts
  <2>1. hold' = hold /\ hold[b] \in HoldCall
    BY DEF RowStep, TypeOK
  <2>2. hold[b].since \in Nat /\ now \in Nat /\ now' \in Nat /\ hold[b].stale \subseteq Booking
    BY <2>1 DEF TypeOK, HoldCall
  <2>3. hold'[b].since <= now'
    BY <2>1, <2>2 DEF HoldFacts, RowStep
  <2>4. \A x \in hold[b].stale : status'[x] = status[x] /\ expiresAt'[x] = expiresAt[x]
    BY <2>2 DEF RowStep, RowLocked
  <2>5. \A x \in hold'[b].stale : /\ roomOf[x] = roomOf[b] /\ status'[x] = "HELD"
                                  /\ ExpiredBefore(x, hold[b].since)'
    BY <2>1, <2>4 DEF HoldFacts, ExpiredBefore
  <2> QED BY <2>1, <2>3, <2>5 DEF HoldFacts, RowStep
<1> QED BY <1>1, <1>2, <1>3

(* A hold that starts, waits or is rolled back holds no lock. *)
LEMMA LocklessKeepsLocks ==
  ASSUME TypeOK, LockInv, NEW b \in Booking, NEW h \in HoldCall,
         hold' = [hold EXCEPT ![b] = h],
         h.at \notin {"locking", "admitted"}, h.stale = {}, h.locked = {}, h.since <= now,
         h.at \in {"queued"} \cup InTransaction
           => status[b] = "DRAFT" /\ h.pct \in BufferPcts,
         UNCHANGED <<now, status, expiresAt>>
  PROVE  LockInv'
<1> USE DEF LockInv
<1>1. hold'[b] = h /\ \A x \in Booking : x # b => hold'[x] = hold[x]
  BY DEF TypeOK
<1>2. RoomLockExclusive'
  BY <1>1 DEF RoomLockExclusive
<1>3. EquipmentLocks'
  BY <1>1 DEF EquipmentLocks, Wanted
<1>4. HoldFacts'
  BY <1>1 DEF HoldFacts, ExpiredBefore
<1> QED BY <1>2, <1>3, <1>4

(* Every step keeps the locks exclusive and what is known under them true. *)
LEMMA LocksKept ==
  ASSUME TypeOK, TypeOK', LockInv, [Next]_vars
  PROVE  LockInv'
<1> USE DEF LockInv
<1>1. ASSUME NEW b \in Booking, HoldRequest(b) PROVE LockInv'
  <2> DEFINE h == [NoHold EXCEPT !.at = "queued", !.pct = bufferPct, !.attempt = 1]
  <2>0. bufferPct \in BufferPcts /\ bufferPct \in Nat /\ 1 \in Nat
    BY VenueAssumption DEF TypeOK
  <2>1. h \in HoldCall
    BY <2>0, RecordTypes
  <2>2. h.at = "queued" /\ h.stale = {} /\ h.locked = {} /\ h.since <= now /\ h.pct = bufferPct
    BY DEF NoHold, TypeOK
  <2> HIDE DEF h
  <2> QED BY <1>1, <2>0, <2>1, <2>2, LocklessKeepsLocks DEF HoldRequest, rows, h
<1>2. ASSUME NEW b \in Booking, HoldBegin(b) PROVE LockInv'
  <2> DEFINE h == [hold[b] EXCEPT !.at = "begun", !.since = now]
  <2>0. hold[b] \in HoldCall /\ now \in Nat /\ hold[b].at = "queued"
    BY <1>2 DEF HoldBegin, TypeOK
  <2>1. h \in HoldCall
    BY <2>0, HoldUpdates DEF InTransaction
  <2>2. /\ h.at = "begun" /\ h.stale = {} /\ h.locked = {} /\ h.since <= now
        /\ h.pct \in BufferPcts /\ status[b] = "DRAFT"
    BY <2>0 DEF HoldCall, HoldFacts, EquipmentLocks
  <2>3. hold' = [hold EXCEPT ![b] = h] /\ UNCHANGED <<now, status, expiresAt>>
    BY <1>2 DEF HoldBegin, rows
  <2> HIDE DEF h
  <2> QED BY <2>1, <2>2, <2>3, LocklessKeepsLocks
<1>3. ASSUME NEW b \in Booking, NEW answer \in Answers,
             hold' = [hold EXCEPT ![b] = RolledBack(b, answer)],
             UNCHANGED <<now, status, expiresAt>>
      PROVE  LockInv'
  <2> DEFINE h == RolledBack(b, answer)
  <2>1. h \in HoldCall
    BY RecordTypes
  <2>2. h.at = answer /\ h.stale = {} /\ h.locked = {} /\ h.since <= now
    BY DEF RolledBack, NoHold, TypeOK
  <2>3. answer \notin {"locking", "admitted"} /\ answer \notin {"queued"} \cup InTransaction
    BY DEF Answers, InTransaction
  <2> HIDE DEF h
  <2> QED BY <1>3, <2>1, <2>2, <2>3, LocklessKeepsLocks DEF h
<1>4. ASSUME NEW b \in Booking, HoldAbort(b) PROVE LockInv'
  <2>0. hold[b] \in HoldCall /\ UNCHANGED <<now, status, expiresAt>>
    BY <1>4 DEF HoldAbort, TypeOK, rows
  <2>1. CASE hold[b].attempt < RETRY_ATTEMPTS
    <3> DEFINE h == [NoHold EXCEPT !.at = "queued", !.pct = hold[b].pct,
                                   !.attempt = hold[b].attempt + 1]
    <3>1. hold[b].pct \in Nat /\ hold[b].attempt + 1 \in Nat
      BY <2>0 DEF HoldCall
    <3>2. h \in HoldCall
      BY <3>1, RecordTypes
    <3>3. h.at = "queued" /\ h.stale = {} /\ h.locked = {} /\ h.since <= now /\ h.pct = hold[b].pct
      BY DEF NoHold, TypeOK
    <3>4. status[b] = "DRAFT" /\ hold[b].pct \in BufferPcts
      BY <1>4 DEF HoldAbort, HoldFacts
    <3>5. hold' = [hold EXCEPT ![b] = h]
      BY <1>4, <2>1 DEF HoldAbort
    <3> HIDE DEF h
    <3> QED BY <2>0, <3>2, <3>3, <3>4, <3>5, LocklessKeepsLocks
  <2>2. CASE ~(hold[b].attempt < RETRY_ATTEMPTS)
    BY <1>3, <1>4, <2>0, <2>2 DEF HoldAbort, Answers
  <2> QED BY <2>1, <2>2
<1>5. ASSUME NEW b \in Booking, HoldExpireStale(b) PROVE LockInv'
  <2> DEFINE S == StaleForRoom(roomOf[b], hold[b].since)
  <2>0. hold \in [Booking -> HoldCall] /\ hold[b] \in HoldCall
    BY DEF TypeOK
  <2>1. /\ \A x \in Booking : x # b => hold'[x] = hold[x]
        /\ hold'[b].at = "locking" /\ hold'[b].stale = S
        /\ hold'[b].locked = hold[b].locked /\ hold'[b].since = hold[b].since
        /\ hold'[b].pct = hold[b].pct
    BY <1>5, <2>0 DEF HoldExpireStale, HoldCall
  <2>2. UNCHANGED <<now, status, expiresAt>> /\ hold[b].at = "begun"
    BY <1>5 DEF HoldExpireStale, rows
  <2>3. RoomLockExclusive'
    BY <1>5, <2>1 DEF RoomLockExclusive, HoldExpireStale, RoomLocked
  <2>4. EquipmentLocks'
    BY <2>1, <2>2 DEF EquipmentLocks, Wanted
  <2>5. HoldFacts'
    BY <2>1, <2>2 DEF HoldFacts, ExpiredBefore, InTransaction, StaleForRoom
  <2> QED BY <2>3, <2>4, <2>5
<1>6. ASSUME NEW b \in Booking, HoldLockEquipment(b) PROVE LockInv'
  <2>0. hold \in [Booking -> HoldCall] /\ hold[b] \in HoldCall
    BY DEF TypeOK
  <2>1. PICK e \in Equipment :
          /\ NextLock(b, e) /\ \A c \in Booking : e \notin hold[c].locked
          /\ hold' = [hold EXCEPT ![b].locked = @ \cup {e}]
    BY <1>6 DEF HoldLockEquipment
  <2>2. /\ \A x \in Booking : x # b => hold'[x] = hold[x]
        /\ hold'[b].at = hold[b].at /\ hold'[b].stale = hold[b].stale
        /\ hold'[b].locked = hold[b].locked \cup {e} /\ hold'[b].since = hold[b].since
        /\ hold'[b].pct = hold[b].pct
    BY <2>0, <2>1 DEF HoldCall
  <2>3. UNCHANGED <<now, status, expiresAt>> /\ hold[b].at = "locking"
    BY <1>6 DEF HoldLockEquipment, rows
  <2>4. RoomLockExclusive'
    BY <2>2 DEF RoomLockExclusive
  <2>5. EquipmentLocks'
    <3>1. \A f \in Wanted(b) \ (hold[b].locked \cup {e}) : e < f
      <4>1. Equipment \subseteq Nat
        BY RequestAssumption
      <4>2. \A f \in Wanted(b) \ (hold[b].locked \cup {e}) : f \in Nat /\ e <= f /\ e # f
        BY <2>1, <4>1 DEF NextLock, Wanted
      <4> QED BY <4>1, <4>2
    <3> QED BY <2>1, <2>2, <2>3, <3>1 DEF EquipmentLocks, Wanted, NextLock
  <2>6. HoldFacts'
    BY <2>2, <2>3 DEF HoldFacts, ExpiredBefore
  <2> QED BY <2>4, <2>5, <2>6
<1>7. ASSUME NEW b \in Booking, HoldAdmitEquipment(b) PROVE LockInv'
  <2>0. /\ hold \in [Booking -> HoldCall] /\ hold[b] \in HoldCall
        /\ UNCHANGED <<now, status, expiresAt>> /\ hold[b].at = "locking"
        /\ Wanted(b) \subseteq hold[b].locked
    BY <1>7 DEF HoldAdmitEquipment, TypeOK, rows
  <2>1. CASE hold' = [hold EXCEPT ![b].at = "admitted"]
    <3>1. /\ \A x \in Booking : x # b => hold'[x] = hold[x]
          /\ hold'[b].at = "admitted" /\ hold'[b].stale = hold[b].stale
          /\ hold'[b].locked = hold[b].locked /\ hold'[b].since = hold[b].since
          /\ hold'[b].pct = hold[b].pct
      BY <2>0, <2>1 DEF HoldCall
    <3>2. RoomLockExclusive'
      BY <2>0, <3>1 DEF RoomLockExclusive
    <3>3. EquipmentLocks'
      BY <2>0, <3>1 DEF EquipmentLocks, Wanted
    <3>4. HoldFacts'
      BY <2>0, <3>1 DEF HoldFacts, ExpiredBefore, InTransaction
    <3> QED BY <3>2, <3>3, <3>4
  <2>2. CASE hold' = [hold EXCEPT ![b] = RolledBack(b, "equipment_short")]
    BY <1>3, <2>0, <2>2 DEF Answers
  <2> QED BY <1>7, <2>1, <2>2 DEF HoldAdmitEquipment
<1>8. ASSUME NEW b \in Booking, HoldInsert(b) PROVE LockInv'
  <2>0. hold \in [Booking -> HoldCall] /\ hold[b].at = "admitted" /\ now' = now
    BY <1>8 DEF HoldInsert, TypeOK
  <2>1. CASE RoomConflict(b)
    BY <1>3, <1>8, <2>1 DEF HoldInsert, Answers, rows
  <2>2. CASE ~RoomConflict(b)
    <3>1. /\ \A x \in Booking : x # b => hold'[x] = hold[x]
          /\ hold'[b] = NoHold
      BY <1>8, <2>0, <2>2 DEF HoldInsert
    <3>2. NoHold.at = "idle" /\ NoHold.stale = {} /\ NoHold.locked = {} /\ NoHold.since = 0
      BY DEF NoHold
    <3>3. RoomLockExclusive'
      BY <3>1, <3>2 DEF RoomLockExclusive
    <3>4. EquipmentLocks'
      BY <3>1, <3>2 DEF EquipmentLocks, Wanted
    <3>5. /\ \A x \in Booking : x # b /\ x \notin hold[b].stale => status'[x] = status[x]
          /\ \A x \in Booking : x # b => expiresAt'[x] = expiresAt[x]
      BY <1>8, <2>2 DEF HoldInsert, TypeOK
    <3>6. status[b] = "DRAFT" /\ \A x \in hold[b].stale : status[x] = "HELD"
      BY <2>0 DEF HoldFacts, InTransaction
    <3>7. ASSUME NEW c \in Booking, c # b, NEW x \in hold[c].stale
          PROVE  x \in Booking /\ x # b /\ x \notin hold[b].stale
      <4>1. x \in Booking /\ status[x] = "HELD"
        BY <2>0, <3>7 DEF HoldFacts, HoldCall
      <4>2. roomOf[c] # roomOf[b]
        BY <2>0, <3>7 DEF HoldFacts, RoomLockExclusive
      <4> QED BY <3>6, <3>7, <4>1, <4>2 DEF HoldFacts
    <3>8. HoldFacts'
      <4> SUFFICES ASSUME NEW c \in Booking PROVE HoldFacts!(c)'
        BY DEF HoldFacts
      <4>1. CASE c = b
        BY <2>0, <3>1, <3>2, <4>1 DEF TypeOK, InTransaction
      <4>2. CASE c # b
        <5>1. hold'[c] = hold[c]
          BY <3>1, <4>2
        <5>2. \A x \in hold[c].stale : status'[x] = status[x] /\ expiresAt'[x] = expiresAt[x]
          BY <3>5, <3>7, <4>2
        <5>3. hold[c].at \in {"queued"} \cup InTransaction => status'[c] = status[c]
          BY <3>5, <3>6, <4>2 DEF HoldFacts
        <5> QED BY <2>0, <5>1, <5>2, <5>3 DEF HoldFacts, ExpiredBefore
      <4> QED BY <4>1, <4>2
    <3> QED BY <3>3, <3>4, <3>8
  <2> QED BY <2>1, <2>2
<1>9. CASE RowStep
  BY <1>9, RowStepKeepsLocks
<1> QED BY <1>1, <1>2, <1>4, <1>5, <1>6, <1>7, <1>8, <1>9, RowSteps DEF HoldStep

-----------------------------------------------------------------------------
(* Admission and the two scarce resources. *)

(* What fits beside some bookings fits beside fewer. *)
LEMMA FitsBesideFewer ==
  ASSUME NEW b \in Booking, NEW e \in Equipment, NEW p \in Nat,
         NEW S \in SUBSET Booking, NEW T \in SUBSET Booking,
         \A t \in Nat : Cardinality(UnitsOut(T, e, t)) <= Cardinality(UnitsOut(S, e, t)),
         FitsAlways(b, e, S, p)
  PROVE  FitsAlways(b, e, T, p)
<1> SUFFICES ASSUME NEW t \in startsAt[b] .. (endsAt[b] - 1)
             PROVE  Cardinality(UnitsOut(T, e, t)) + quantity[b][e]
                      <= admissionCeiling(unitsOwned[e], p)
  BY DEF FitsAlways
<1>1. t \in Nat /\ quantity[b][e] \in Nat
  BY RequestAssumption
<1>2. Cardinality(UnitsOut(S, e, t)) + quantity[b][e] <= admissionCeiling(unitsOwned[e], p)
  BY DEF FitsAlways
<1>3. Cardinality(UnitsOut(T, e, t)) <= Cardinality(UnitsOut(S, e, t))
  BY <1>1
<1> QED BY <1>1, <1>2, <1>3, UnitsOutFinite, CeilingType

(* A committed insert adds its own row to the counted ones and nothing else. *)
LEMMA InsertCounts ==
  ASSUME TypeOK, TypeOK', LockInv, NEW b \in Booking, HoldInsert(b), ~RoomConflict(b)
  PROVE  Counted' \subseteq Counted \cup {b}
<1>1. /\ \A x \in Booking : x # b => expiresAt'[x] = expiresAt[x]
      /\ \A x \in Booking : x # b => status'[x] = status[x] \/ status'[x] = "EXPIRED"
      /\ UNCHANGED <<now, revived>>
  BY DEF HoldInsert, TypeOK
<1> QED BY <1>1 DEF Counted, Reserving, Lapsed, ACTIVE, TypeOK

(* What a step does to the counted rows and to a hold that is admitted. *)
LEMMA AdmissionsKept ==
  ASSUME TypeOK, TypeOK', LockInv, LockInv', AdmissionsHold, [Next]_vars
  PROVE  AdmissionsHold'
<1> SUFFICES ASSUME NEW c \in Booking, hold'[c].at = "admitted", NEW e \in Wanted(c)
             PROVE  FitsAlways(c, e, Counted, hold[c].pct)'
  BY DEF AdmissionsHold, Wanted
<1>0. /\ e \in Equipment /\ Counted \in SUBSET Booking /\ Counted' \in SUBSET Booking
      /\ hold[c].pct \in Nat
      /\ hold \in [Booking -> HoldCall]
  BY DEF Wanted, Counted, Reserving, TypeOK, HoldCall
<1>1. ASSUME hold[c].at = "admitted", hold'[c].pct = hold[c].pct, Counted' \subseteq Counted
      PROVE  FitsAlways(c, e, Counted, hold[c].pct)'
  <2>1. FitsAlways(c, e, Counted, hold[c].pct)
    BY <1>1 DEF AdmissionsHold
  <2>2. FitsAlways(c, e, Counted', hold[c].pct)
    <3> DEFINE T == Counted'
    <3>1. \A t \in Nat : Cardinality(UnitsOut(T, e, t)) <= Cardinality(UnitsOut(Counted, e, t))
      BY <1>0, <1>1, UnitsMonotone
    <3> HIDE DEF T
    <3>2. T \in SUBSET Booking
      BY <1>0 DEF T
    <3>3. FitsAlways(c, e, T, hold[c].pct)
      BY <1>0, <2>1, <3>1, <3>2, FitsBesideFewer
    <3> QED BY <3>3 DEF T
  <2> QED BY <1>1, <2>2 DEF FitsAlways, UnitsOut, During
<1>2. CASE RowStep
  BY <1>1, <1>2 DEF RowStep
<1>3. ASSUME UNCHANGED <<now, status, expiresAt, revived>> PROVE Counted' = Counted
  BY <1>3 DEF Counted, Reserving, Lapsed
<1>4. ASSUME NEW b \in Booking, HoldRequest(b) \/ HoldBegin(b) \/ HoldAbort(b)
      PROVE  FitsAlways(c, e, Counted, hold[c].pct)'
  <2>1. Counted' = Counted
    BY <1>3, <1>4 DEF HoldRequest, HoldBegin, HoldAbort, rows
  <2>2. b # c
    BY <1>0, <1>4 DEF HoldRequest, HoldBegin, HoldAbort, NoHold, RolledBack, HoldCall
  <2>3. hold'[c] = hold[c]
    BY <1>0, <1>4, <2>2 DEF HoldRequest, HoldBegin, HoldAbort
  <2> QED BY <1>1, <2>1, <2>3
<1>5. ASSUME NEW b \in Booking, HoldExpireStale(b) \/ HoldLockEquipment(b)
      PROVE  FitsAlways(c, e, Counted, hold[c].pct)'
  <2>1. Counted' = Counted
    BY <1>3, <1>5 DEF HoldExpireStale, HoldLockEquipment, rows
  <2>2. b # c
    BY <1>0, <1>5 DEF HoldExpireStale, HoldLockEquipment, HoldCall
  <2>3. hold'[c] = hold[c]
    BY <1>0, <1>5, <2>2 DEF HoldExpireStale, HoldLockEquipment
  <2> QED BY <1>1, <2>1, <2>3
<1>6. ASSUME NEW b \in Booking, HoldAdmitEquipment(b)
      PROVE  FitsAlways(c, e, Counted, hold[c].pct)'
  <2>1. Counted' = Counted
    BY <1>3, <1>6 DEF HoldAdmitEquipment, rows
  <2>2. CASE c # b
    <3>1. hold'[c] = hold[c]
      BY <1>0, <1>6, <2>2 DEF HoldAdmitEquipment
    <3> QED BY <1>1, <2>1, <3>1
  <2>3. CASE c = b
    <3> DEFINE S == Reserving(hold[b].since) \ hold[b].stale
    <3>1. FitsAlways(b, e, S, hold[b].pct) /\ hold'[b].pct = hold[b].pct
      <4>1. RolledBack(b, "equipment_short").at = "equipment_short"
        BY DEF RolledBack, NoHold
      <4>2. PeakFits(b, e, S, hold[b].pct) /\ hold'[b].pct = hold[b].pct
        BY <1>0, <1>6, <2>3, <4>1 DEF HoldAdmitEquipment, HoldCall
      <4>3. S \in SUBSET Booking
        BY DEF Reserving
      <4> HIDE DEF S
      <4> QED BY <1>0, <2>3, <4>2, <4>3, PeakIsPeak
    <3>2. Counted \subseteq S
      <4>1. hold[b].since \in Nat /\ now \in Nat /\ hold[b].since <= now
        BY <1>0 DEF TypeOK, HoldCall, LockInv, HoldFacts
      <4>2. \A x \in Booking : expiresAt[x] \in Nat
        BY DEF TypeOK
      <4>3. \A x \in hold[b].stale : status[x] = "HELD" /\ ExpiredBefore(x, hold[b].since)
        BY DEF LockInv, HoldFacts
      <4> QED BY <4>1, <4>2, <4>3 DEF Counted, Reserving, Lapsed, ExpiredBefore
    <3>3. S \in SUBSET Booking
      BY DEF Reserving
    <3>4. \A t \in Nat : Cardinality(UnitsOut(Counted, e, t)) <= Cardinality(UnitsOut(S, e, t))
      BY <1>0, <3>2, <3>3, UnitsMonotone
    <3> HIDE DEF S
    <3>5. FitsAlways(b, e, Counted, hold[b].pct)
      BY <1>0, <2>3, <3>1, <3>3, <3>4, FitsBesideFewer
    <3> QED BY <2>1, <2>3, <3>1, <3>5 DEF FitsAlways, UnitsOut, During
  <2> QED BY <2>2, <2>3
<1>7. ASSUME NEW b \in Booking, HoldInsert(b)
      PROVE  FitsAlways(c, e, Counted, hold[c].pct)'
  <2>1. b # c /\ hold'[c] = hold[c]
    <3>1. RolledBack(b, "room_taken").at = "room_taken" /\ NoHold.at = "idle"
      BY DEF RolledBack, NoHold
    <3> QED BY <1>0, <1>7, <3>1 DEF HoldInsert
  <2>2. CASE RoomConflict(b)
    <3>1. Counted' = Counted
      BY <1>3, <1>7, <2>2 DEF HoldInsert, rows
    <3> QED BY <1>1, <2>1, <3>1
  <2>3. CASE ~RoomConflict(b)
    <3>1. Counted' \subseteq Counted \cup {b}
      BY <1>7, <2>3, InsertCounts
    <3>2. quantity[b][e] = 0
      <4>1. hold[b].at = "admitted" /\ hold[c].at = "admitted"
        BY <1>7, <2>1 DEF HoldInsert
      <4>2. e \notin Wanted(b)
        BY <2>1, <4>1 DEF LockInv, EquipmentLocks
      <4> QED BY <1>0, <4>2, RequestAssumption DEF Wanted
    <3> DEFINE T == Counted'
    <3>3. T \in SUBSET Booking /\ T \subseteq Counted \cup {b}
      BY <1>0, <3>1
    <3> HIDE DEF T
    <3>4. ASSUME NEW t \in Nat
          PROVE  Cardinality(UnitsOut(T, e, t)) <= Cardinality(UnitsOut(Counted, e, t))
      <4>1. Cardinality(UnitsOut(T, e, t)) <= Cardinality(UnitsOut(Counted \cup {b}, e, t))
        BY <1>0, <3>3, UnitsMonotone
      <4>2. Cardinality(UnitsOut(Counted \cup {b}, e, t)) <= Cardinality(UnitsOut(Counted, e, t))
        BY <1>0, <3>2, UnitsAdded
      <4>3. Counted \cup {b} \in SUBSET Booking
        BY <1>0
      <4> QED BY <1>0, <3>3, <4>1, <4>2, <4>3, UnitsOutFinite
    <3>5. FitsAlways(c, e, Counted, hold[c].pct)
      BY <1>7, <2>1 DEF AdmissionsHold
    <3>6. FitsAlways(c, e, T, hold[c].pct)
      BY <1>0, <3>3, <3>4, <3>5, FitsBesideFewer
    <3> QED BY <2>1, <3>6 DEF T, FitsAlways, UnitsOut, During
  <2> QED BY <2>2, <2>3
<1> QED BY <1>2, <1>4, <1>5, <1>6, <1>7, RowSteps DEF HoldStep

(* A step never lets two live rows of a room meet. *)
LEMMA RoomKept ==
  ASSUME TypeOK, LockInv, NoRoomOverlap, [Next]_vars
  PROVE  NoRoomOverlap'
<1>1. ASSUME \A x \in Booking : status'[x] \in ACTIVE => status[x] \in ACTIVE
      PROVE  NoRoomOverlap'
  BY <1>1 DEF NoRoomOverlap, SlotsOverlap
<1>2. CASE RowStep
  BY <1>1, <1>2 DEF RowStep
<1>3. ASSUME NEW b \in Booking, \/ HoldRequest(b) \/ HoldBegin(b) \/ HoldAbort(b)
                                \/ HoldExpireStale(b) \/ HoldLockEquipment(b)
                                \/ HoldAdmitEquipment(b)
      PROVE  NoRoomOverlap'
  <2>1. status' = status
    BY <1>3 DEF HoldRequest, HoldBegin, HoldAbort, HoldExpireStale, HoldLockEquipment,
                HoldAdmitEquipment, rows
  <2> QED BY <1>1, <2>1
<1>4. ASSUME NEW b \in Booking, HoldInsert(b) PROVE NoRoomOverlap'
  <2>1. CASE RoomConflict(b)
    BY <1>1, <1>4, <2>1 DEF HoldInsert, rows
  <2>2. CASE ~RoomConflict(b)
    <3>1. \A x \in Booking : x # b /\ status'[x] \in ACTIVE
                              => status[x] \in ACTIVE /\ x \notin hold[b].stale
      BY <1>4, <2>2 DEF HoldInsert, ACTIVE
    <3>2. \A x \in Booking : x # b /\ status'[x] \in ACTIVE
                              => ~SlotsOverlap(x, b) /\ ~SlotsOverlap(b, x)
      BY <2>2, <3>1 DEF RoomConflict, SlotsOverlap
    <3>3. \A x, y \in Booking : (x # y /\ status'[x] \in ACTIVE /\ status'[y] \in ACTIVE)
                                 => ~SlotsOverlap(x, y)
      BY <3>1, <3>2 DEF NoRoomOverlap
    <3> QED BY <3>3 DEF NoRoomOverlap, SlotsOverlap
  <2> QED BY <2>1, <2>2
<1> QED BY <1>2, <1>3, <1>4, RowSteps DEF HoldStep

(* Nor more units of a type out than the ceiling. *)
LEMMA FleetKept ==
  ASSUME TypeOK, TypeOK', LockInv, AdmissionsHold, EquipmentNeverOversold, [Next]_vars
  PROVE  EquipmentNeverOversold'
<1> SUFFICES ASSUME NEW e \in Equipment, NEW a \in Booking,
                    NEW t \in startsAt[a] .. (endsAt[a] - 1)
             PROVE  \E p \in BufferPcts : Cardinality(UnitsOut(Counted', e, t))
                                            <= admissionCeiling(unitsOwned[e], p)
  BY DEF EquipmentNeverOversold, Counted, UnitsOut, During
<1>0. /\ t \in Nat /\ BufferPcts \subseteq Nat
      /\ Counted \in SUBSET Booking /\ Counted' \in SUBSET Booking
  BY RequestAssumption, VenueAssumption DEF Counted, Reserving, TypeOK
<1>1. PICK p \in BufferPcts : Cardinality(UnitsOut(Counted, e, t))
                                 <= admissionCeiling(unitsOwned[e], p)
  BY DEF EquipmentNeverOversold, Counted
<1> DEFINE T == Counted'
<1> HIDE DEF T
<1>2. ASSUME Cardinality(UnitsOut(T, e, t)) <= Cardinality(UnitsOut(Counted, e, t))
      PROVE  \E q \in BufferPcts : Cardinality(UnitsOut(T, e, t))
                                     <= admissionCeiling(unitsOwned[e], q)
  <2>1. T \in SUBSET Booking
    BY <1>0 DEF T
  <2> QED BY <1>0, <1>1, <1>2, <2>1, UnitsOutFinite, CeilingType
<1>3. ASSUME T \subseteq Counted
      PROVE  \E q \in BufferPcts : Cardinality(UnitsOut(T, e, t))
                                     <= admissionCeiling(unitsOwned[e], q)
  BY <1>0, <1>2, <1>3, UnitsMonotone
<1>4. CASE RowStep
  BY <1>3, <1>4 DEF RowStep, T
<1>5. ASSUME NEW b \in Booking, \/ HoldRequest(b) \/ HoldBegin(b) \/ HoldAbort(b)
                                \/ HoldExpireStale(b) \/ HoldLockEquipment(b)
                                \/ HoldAdmitEquipment(b)
                                \/ HoldInsert(b) /\ RoomConflict(b)
      PROVE  T \subseteq Counted
  <2>1. UNCHANGED <<now, status, expiresAt, revived>>
    BY <1>5 DEF HoldRequest, HoldBegin, HoldAbort, HoldExpireStale, HoldLockEquipment,
                HoldAdmitEquipment, HoldInsert, rows
  <2> QED BY <2>1 DEF T, Counted, Reserving, Lapsed
<1>6. ASSUME NEW b \in Booking, HoldInsert(b), ~RoomConflict(b)
      PROVE  \E q \in BufferPcts : Cardinality(UnitsOut(T, e, t))
                                     <= admissionCeiling(unitsOwned[e], q)
  <2>1. T \in SUBSET Booking /\ T \subseteq Counted \cup {b}
    BY <1>0, <1>6, InsertCounts DEF T
  <2>2. Counted \cup {b} \in SUBSET Booking
    BY <1>0
  <2>3. Cardinality(UnitsOut(T, e, t)) <= Cardinality(UnitsOut(Counted \cup {b}, e, t))
    BY <2>1, <2>2, UnitsMonotone
  <2>4. CASE ~During(b, t) \/ quantity[b][e] = 0
    <3>1. Cardinality(UnitsOut(Counted \cup {b}, e, t)) <= Cardinality(UnitsOut(Counted, e, t))
      BY <1>0, <2>4, UnitsAdded
    <3> QED BY <1>0, <1>2, <2>1, <2>2, <2>3, <3>1, UnitsOutFinite
  <2>5. CASE During(b, t) /\ quantity[b][e] # 0
    <3>1. e \in Wanted(b) /\ t \in startsAt[b] .. (endsAt[b] - 1) /\ quantity[b][e] \in Nat
      BY <1>0, <2>5, RequestAssumption DEF Wanted, During
    <3>2. hold[b].at = "admitted" /\ hold[b].pct \in BufferPcts
      BY <1>6 DEF HoldInsert, LockInv, HoldFacts, InTransaction
    <3>3. Cardinality(UnitsOut(Counted, e, t)) + quantity[b][e]
            <= admissionCeiling(unitsOwned[e], hold[b].pct)
      BY <3>1, <3>2 DEF AdmissionsHold, FitsAlways
    <3>4. Cardinality(UnitsOut(Counted \cup {b}, e, t))
            <= Cardinality(UnitsOut(Counted, e, t)) + quantity[b][e]
      BY <1>0, UnitsAdded
    <3>5. admissionCeiling(unitsOwned[e], hold[b].pct) \in Int
      BY <1>0, <3>2, CeilingType
    <3>6. Cardinality(UnitsOut(T, e, t)) <= admissionCeiling(unitsOwned[e], hold[b].pct)
      BY <1>0, <2>1, <2>2, <2>3, <3>1, <3>3, <3>4, <3>5, UnitsOutFinite
    <3> QED BY <3>2, <3>6
  <2> QED BY <2>4, <2>5
<1> QED BY <1>3, <1>4, <1>5, <1>6, RowSteps DEF HoldStep, T

(* The whole invariant holds at the start and every step keeps it. *)
THEOREM InvariantHolds == Spec => []IInv
<1>1. Init => IInv
  <2> SUFFICES ASSUME Init PROVE IInv
    OBVIOUS
  <2>0. TypeOK
    BY RecordTypes DEF Init, TypeOK, Statuses, NULL
  <2>1. \A b \in Booking : /\ hold[b].at = "idle" /\ hold[b].since = 0
                            /\ hold[b].stale = {} /\ hold[b].locked = {}
    BY DEF Init, NoHold
  <2>2. RoomLockExclusive /\ EquipmentLocks /\ AdmissionsHold
    BY <2>1 DEF RoomLockExclusive, EquipmentLocks, AdmissionsHold
  <2>3. HoldFacts
    BY <2>0, <2>1 DEF HoldFacts, InTransaction, TypeOK
  <2>4. NoRoomOverlap
    BY DEF Init, NoRoomOverlap, ACTIVE
  <2>5. EquipmentNeverOversold
    <3> SUFFICES ASSUME NEW e \in Equipment, NEW b \in Booking,
                        NEW t \in startsAt[b] .. (endsAt[b] - 1)
                 PROVE  \E p \in BufferPcts : Cardinality(UnitsOut(Counted, e, t))
                                                <= admissionCeiling(unitsOwned[e], p)
      BY DEF EquipmentNeverOversold, Counted
    <3>1. Counted = {}
      BY DEF Init, Counted, Reserving, ACTIVE
    <3>2. UnitsOut(Counted, e, t) = {}
      BY <3>1 DEF UnitsOut
    <3>3. Cardinality(UnitsOut(Counted, e, t)) = 0
      BY <3>2, FS_EmptySet
    <3>4. PICK p \in BufferPcts : p \in Nat
      BY VenueAssumption
    <3>5. unitsOwned[e] * (100 + p) \in Nat
      BY VenueAssumption, <3>4
    <3> QED BY <3>3, <3>4, <3>5 DEF admissionCeiling
  <2> QED BY <2>0, <2>2, <2>3, <2>4, <2>5 DEF IInv
<1>2. TypeOK /\ TypeOK' /\ IInv /\ [Next]_vars => IInv'
  <2> SUFFICES ASSUME TypeOK, TypeOK', IInv, [Next]_vars PROVE IInv'
    OBVIOUS
  <2>1. LockInv /\ AdmissionsHold /\ NoRoomOverlap /\ EquipmentNeverOversold
    BY DEF IInv, LockInv
  <2>2. LockInv'
    BY <2>1, LocksKept
  <2>3. AdmissionsHold'
    BY <2>1, <2>2, AdmissionsKept
  <2>4. NoRoomOverlap'
    BY <2>1, RoomKept
  <2>5. EquipmentNeverOversold'
    BY <2>1, FleetKept
  <2> QED BY <2>2, <2>3, <2>4, <2>5 DEF IInv, LockInv
<1> QED
  BY <1>1, <1>2, TypeCorrect, PTL DEF Spec

(* INV-1 for every history of every venue: createHeld's constraint, with    *)
(* the expiry of lapsed rivals in the same transaction, never admits two    *)
(* live bookings whose slots meet.                                          *)
THEOREM RoomsNeverOverlap == Spec => []NoRoomOverlap
BY InvariantHolds, PTL DEF IInv

(* INV-2, for rows that were not revived after lapsing: equipment locks     *)
(* taken before the count and kept until the commit make the count good.    *)
THEOREM FleetNeverOversold == Spec => []EquipmentNeverOversold
BY InvariantHolds, PTL DEF IInv

-----------------------------------------------------------------------------
(***************************************************************************)
(* A refusal is never the fault of a dead hold.  Expiring the room's lapsed *)
(* holds once, under the room lock, is enough: no hold that is lapsed by    *)
(* the transaction's clock can appear in that room while the lock is held.  *)
(***************************************************************************)
NoLapsedRival ==
  \A x \in Booking : (status[x] = "HELD" /\ rearmCount[x] = 0) =>
    /\ expiresAt[x] # NULL
    /\ \A b \in Booking :
         (/\ roomOf[b] = roomOf[x] /\ x \notin hold[b].stale
          /\ hold[b].at \in {"locking", "admitted"})
           => expiresAt[x] >= hold[b].since

(* No step brings a lapsed rival into a room while its lock is held. *)
LEMMA RivalsKept ==
  ASSUME TypeOK, TypeOK', LockInv, LockInv', NoLapsedRival, [Next]_vars
  PROVE  NoLapsedRival'
<1>0. hold \in [Booking -> HoldCall] /\ hold' \in [Booking -> HoldCall]
  BY DEF TypeOK
<1>1. CASE RowStep
  BY <1>1 DEF NoLapsedRival, RowStep, NULL
<1>2. ASSUME NEW b \in Booking, UNCHANGED <<status, expiresAt, rearmCount>>,
             \A c \in Booking : c # b => hold'[c] = hold[c],
             hold'[b].at \notin {"locking", "admitted"}
      PROVE  NoLapsedRival'
  BY <1>2 DEF NoLapsedRival, NULL
<1>3. ASSUME NEW b \in Booking, HoldRequest(b) \/ HoldBegin(b) \/ HoldAbort(b)
      PROVE  NoLapsedRival'
  <2>1. hold'[b].at \notin {"locking", "admitted"}
    <3>1. CASE HoldRequest(b)
      BY <1>0, <3>1 DEF HoldRequest, NoHold
    <3>2. CASE HoldBegin(b)
      BY <1>0, <3>2 DEF HoldBegin, HoldCall
    <3>3. CASE HoldAbort(b)
      BY <1>0, <3>3 DEF HoldAbort, NoHold, RolledBack
    <3> QED BY <1>3, <3>1, <3>2, <3>3
  <2>2. UNCHANGED rows /\ \A c \in Booking : c # b => hold'[c] = hold[c]
    BY <1>0, <1>3 DEF HoldRequest, HoldBegin, HoldAbort
  <2> QED BY <1>2, <2>1, <2>2 DEF rows
<1>4. ASSUME NEW b \in Booking, HoldExpireStale(b) PROVE NoLapsedRival'
  <2>1. /\ UNCHANGED <<status, expiresAt, rearmCount>>
        /\ \A c \in Booking : c # b => hold'[c] = hold[c]
        /\ hold'[b].stale = StaleForRoom(roomOf[b], hold[b].since)
        /\ hold'[b].since = hold[b].since
    BY <1>0, <1>4 DEF HoldExpireStale, HoldCall, rows
  <2>2. /\ hold[b].since \in Nat
        /\ \A x \in Booking : expiresAt[x] \in Nat
    BY <1>0 DEF HoldCall, TypeOK
  <2>3. \A x \in Booking :
          (/\ status[x] = "HELD" /\ rearmCount[x] = 0 /\ roomOf[b] = roomOf[x]
           /\ x \notin hold'[b].stale) => expiresAt[x] >= hold[b].since
    BY <2>1, <2>2 DEF StaleForRoom, ExpiredBefore, NoLapsedRival
  <2>4. ASSUME NEW x \in Booking, status[x] = "HELD", rearmCount[x] = 0, NEW c \in Booking,
               roomOf[c] = roomOf[x], x \notin hold'[c].stale,
               hold'[c].at \in {"locking", "admitted"}
        PROVE  expiresAt[x] >= hold'[c].since
    <3>1. CASE c = b
      BY <2>1, <2>3, <2>4, <3>1
    <3>2. CASE c # b
      BY <2>1, <2>4, <3>2 DEF NoLapsedRival
    <3> QED BY <3>1, <3>2
  <2> QED BY <2>1, <2>4 DEF NoLapsedRival, NULL
<1>5. ASSUME NEW b \in Booking, HoldLockEquipment(b) PROVE NoLapsedRival'
  <2>1. /\ UNCHANGED <<status, expiresAt, rearmCount>>
        /\ \A c \in Booking : /\ hold'[c].stale = hold[c].stale
                               /\ hold'[c].since = hold[c].since
                               /\ hold'[c].at = hold[c].at
    BY <1>0, <1>5 DEF HoldLockEquipment, HoldCall, rows
  <2> QED BY <2>1 DEF NoLapsedRival, NULL
<1>6. ASSUME NEW b \in Booking, HoldAdmitEquipment(b) PROVE NoLapsedRival'
  <2>1. /\ UNCHANGED <<status, expiresAt, rearmCount>>
        /\ \A c \in Booking : c # b => hold'[c] = hold[c]
    BY <1>0, <1>6 DEF HoldAdmitEquipment, rows
  <2>2. CASE hold' = [hold EXCEPT ![b].at = "admitted"]
    <3>1. /\ hold'[b].stale = hold[b].stale /\ hold'[b].since = hold[b].since
          /\ hold[b].at = "locking"
      BY <1>0, <1>6, <2>2 DEF HoldAdmitEquipment, HoldCall
    <3>2. \A c \in Booking : /\ hold'[c].stale = hold[c].stale
                             /\ hold'[c].since = hold[c].since
                             /\ hold'[c].at \in {"locking", "admitted"}
                                  => hold[c].at \in {"locking", "admitted"}
      BY <2>1, <3>1
    <3> QED BY <2>1, <3>2 DEF NoLapsedRival, NULL
  <2>3. CASE hold' = [hold EXCEPT ![b] = RolledBack(b, "equipment_short")]
    <3>1. hold'[b].at \notin {"locking", "admitted"}
      BY <1>0, <2>3 DEF RolledBack, NoHold
    <3> QED BY <1>2, <2>1, <3>1
  <2> QED BY <1>6, <2>2, <2>3 DEF HoldAdmitEquipment
<1>7. ASSUME NEW b \in Booking, HoldInsert(b) PROVE NoLapsedRival'
  <2>1. /\ \A c \in Booking : c # b => hold'[c] = hold[c]
        /\ hold'[b].at \notin {"locking", "admitted"}
    BY <1>0, <1>7 DEF HoldInsert, RolledBack, NoHold
  <2>2. CASE RoomConflict(b)
    BY <1>2, <1>7, <2>1, <2>2 DEF HoldInsert, rows
  <2>3. CASE ~RoomConflict(b)
    <3>1. /\ \A x \in Booking : x # b /\ status'[x] = "HELD"
                                => status[x] = "HELD" /\ expiresAt'[x] = expiresAt[x]
          /\ expiresAt'[b] = HoldExpiry(now) /\ rearmCount' = rearmCount
      BY <1>7, <2>3 DEF HoldInsert, TypeOK
    <3>2. expiresAt'[b] # NULL
      BY <3>1, LimitAssumption DEF HoldExpiry, NULL, TypeOK
    <3>3. \A c \in Booking : c # b /\ hold[c].at \in {"locking", "admitted"}
                             => roomOf[c] # roomOf[b]
      BY <1>7 DEF HoldInsert, LockInv, RoomLockExclusive
    <3>4. ASSUME NEW x \in Booking, status'[x] = "HELD", rearmCount'[x] = 0,
                 NEW c \in Booking, roomOf[c] = roomOf[x], x \notin hold'[c].stale,
                 hold'[c].at \in {"locking", "admitted"}
          PROVE  expiresAt'[x] >= hold'[c].since
      <4>1. c # b /\ hold'[c] = hold[c]
        BY <2>1, <3>4
      <4>2. x # b
        BY <3>3, <3>4, <4>1
      <4> QED BY <3>1, <3>4, <4>1, <4>2 DEF NoLapsedRival
    <3>5. ASSUME NEW x \in Booking, status'[x] = "HELD", rearmCount'[x] = 0
          PROVE  expiresAt'[x] # NULL
      BY <3>1, <3>2, <3>5 DEF NoLapsedRival
    <3> QED BY <3>4, <3>5 DEF NoLapsedRival, NULL
  <2> QED BY <2>2, <2>3
<1> QED BY <1>1, <1>3, <1>4, <1>5, <1>6, <1>7, RowSteps DEF HoldStep

(* Every 409 for the room is owed to a row that was alive when the refused  *)
(* transaction began, a re-armed row aside.                                 *)
THEOREM RefusalsJustified == Spec => RoomRefusalJustified
<1>1. Init => NoLapsedRival
  BY DEF Init, NoLapsedRival
<1>2. IInv /\ IInv' /\ NoLapsedRival /\ [Next]_vars => NoLapsedRival'
  BY RivalsKept DEF IInv, LockInv
<1>3. Spec => []NoLapsedRival
  BY <1>1, <1>2, InvariantHolds, PTL DEF Spec
<1>4. ASSUME IInv, NoLapsedRival, [Next]_vars, NEW b \in Booking,
             hold[b].at = "admitted", hold'[b].at = "room_taken"
      PROVE  \E x \in Booking \ {b} :
               /\ SlotsOverlap(x, b) /\ status[x] \in ACTIVE
               /\ status[x] = "HELD" /\ rearmCount[x] = 0
                    => expiresAt[x] >= hold[b].since
  <2>0. hold \in [Booking -> HoldCall] /\ TypeOK /\ status[b] = "DRAFT"
    BY <1>4 DEF IInv, TypeOK, HoldFacts, InTransaction
  <2>1. ~RowStep
    BY <1>4 DEF RowStep
  <2>2. PICK c \in Booking : HoldRequest(c) \/ HoldStep(c) \/ HoldAbort(c)
    BY <1>4, <2>0, <2>1, RowSteps
  <2>3. c = b
    BY <1>4, <2>0, <2>2 DEF HoldRequest, HoldStep, HoldAbort, HoldBegin, HoldExpireStale,
                            HoldLockEquipment, HoldAdmitEquipment, HoldInsert
  <2>4. ~HoldRequest(b) /\ ~HoldAbort(b)
    BY <1>4, <2>0 DEF HoldRequest, HoldAbort, Answers, NoHold, RolledBack
  <2>5. HoldInsert(b)
    BY <1>4, <2>2, <2>3, <2>4 DEF HoldStep, HoldBegin, HoldExpireStale, HoldLockEquipment,
                                  HoldAdmitEquipment
  <2>6. RoomConflict(b)
    BY <1>4, <2>0, <2>5 DEF HoldInsert, NoHold
  <2>7. PICK x \in Booking \ hold[b].stale : status[x] \in ACTIVE /\ SlotsOverlap(x, b)
    BY <2>6 DEF RoomConflict
  <2>8. x # b
    BY <2>0, <2>7 DEF ACTIVE
  <2> QED BY <1>4, <2>7, <2>8 DEF NoLapsedRival, SlotsOverlap
<1>5. IInv /\ NoLapsedRival /\ [Next]_vars
        => [\A b \in Booking :
              (hold[b].at = "admitted" /\ hold'[b].at = "room_taken") =>
                \E x \in Booking \ {b} :
                  /\ SlotsOverlap(x, b) /\ status[x] \in ACTIVE
                  /\ status[x] = "HELD" /\ rearmCount[x] = 0
                       => expiresAt[x] >= hold[b].since]_vars
  BY <1>4
<1> QED
  BY <1>3, <1>5, InvariantHolds, PTL DEF Spec, RoomRefusalJustified

(* Every 409 for equipment is owed to an instant at which what was reserved  *)
(* when the refused transaction began leaves too little: the sweep over     *)
(* events never finds a peak that is not there.                             *)
THEOREM ShortagesJustified == Spec => EquipmentRefusalJustified
<1>1. ASSUME IInv, [Next]_vars, NEW b \in Booking,
             hold[b].at = "locking", hold'[b].at = "equipment_short"
      PROVE  \E e \in Wanted(b), t \in startsAt[b] .. (endsAt[b] - 1) :
               Cardinality(UnitsOut(Reserving(hold[b].since), e, t)) + quantity[b][e]
                 > admissionCeiling(unitsOwned[e], hold[b].pct)
  <2> DEFINE R == Reserving(hold[b].since)
             S == R \ hold[b].stale
             p == hold[b].pct
  <2>0. /\ hold \in [Booking -> HoldCall] /\ p \in Nat
        /\ S \in SUBSET R /\ R \in SUBSET Booking
    BY <1>1 DEF IInv, TypeOK, HoldCall, Reserving
  <2>1. PICK c \in Booking : HoldRequest(c) \/ HoldStep(c) \/ HoldAbort(c)
    <3>1. ~RowStep
      BY <1>1 DEF RowStep
    <3> QED BY <1>1, <3>1, RowSteps DEF IInv
  <2>2. c = b
    <3>1. \A d \in Booking \ {c} : hold'[d] = hold[d]
      BY <2>0, <2>1 DEF HoldRequest, HoldStep, HoldAbort, HoldBegin, HoldExpireStale,
                        HoldLockEquipment, HoldAdmitEquipment, HoldInsert
    <3> QED BY <1>1, <3>1
  <2>3. HoldAdmitEquipment(b)
    <3>1. ~HoldRequest(b) /\ ~HoldAbort(b)
      BY <1>1, <2>0 DEF HoldRequest, HoldAbort, Answers, NoHold, RolledBack
    <3>2. ~HoldBegin(b) /\ ~HoldExpireStale(b) /\ ~HoldInsert(b)
      BY <1>1 DEF HoldBegin, HoldExpireStale, HoldInsert
    <3>3. ASSUME HoldLockEquipment(b) PROVE FALSE
      <4>1. PICK e \in Equipment : hold' = [hold EXCEPT ![b].locked = @ \cup {e}]
        BY <3>3 DEF HoldLockEquipment
      <4>2. hold'[b].at = hold[b].at
        BY <2>0, <4>1 DEF HoldCall
      <4> QED BY <1>1, <4>2
    <3> QED BY <2>1, <2>2, <3>1, <3>2, <3>3 DEF HoldStep
  <2>4. PICK e \in Wanted(b) : ~PeakFits(b, e, S, p)
    <3>1. [hold[b] EXCEPT !.at = "admitted"].at = "admitted"
      BY <2>0 DEF HoldCall
    <3>2. hold'[b] # [hold[b] EXCEPT !.at = "admitted"]
      BY <1>1, <3>1
    <3>3. hold' # [hold EXCEPT ![b].at = "admitted"]
      BY <2>0, <3>2
    <3> QED BY <2>3, <3>3 DEF HoldAdmitEquipment
  <2>5. e \in Equipment /\ ~FitsAlways(b, e, S, p)
    <3>1. e \in Equipment /\ S \in SUBSET Booking
      BY <2>0 DEF Wanted
    <3> HIDE DEF S, p
    <3> QED BY <2>0, <2>4, <3>1, PeakIsPeak
  <2> HIDE DEF R, S, p
  <2>6. PICK t \in startsAt[b] .. (endsAt[b] - 1) :
           ~(Cardinality(UnitsOut(S, e, t)) + quantity[b][e] <= admissionCeiling(unitsOwned[e], p))
    BY <2>5 DEF FitsAlways
  <2>7. /\ Cardinality(UnitsOut(S, e, t)) \in Nat /\ Cardinality(UnitsOut(R, e, t)) \in Nat
        /\ Cardinality(UnitsOut(S, e, t)) <= Cardinality(UnitsOut(R, e, t))
        /\ quantity[b][e] \in Nat /\ admissionCeiling(unitsOwned[e], p) \in Int
    <3>1. S \in SUBSET Booking /\ quantity[b][e] \in Nat
      BY <2>0, <2>5, RequestAssumption
    <3> QED BY <2>0, <2>5, <3>1, UnitsOutFinite, UnitsMonotone, CeilingType
  <2>8. Cardinality(UnitsOut(R, e, t)) + quantity[b][e] > admissionCeiling(unitsOwned[e], p)
    BY <2>6, <2>7
  <2> QED BY <2>8 DEF R, p
<1>2. IInv /\ [Next]_vars
        => [\A b \in Booking :
              (hold[b].at = "locking" /\ hold'[b].at = "equipment_short") =>
                \E e \in Wanted(b), t \in startsAt[b] .. (endsAt[b] - 1) :
                  Cardinality(UnitsOut(Reserving(hold[b].since), e, t)) + quantity[b][e]
                    > admissionCeiling(unitsOwned[e], hold[b].pct)]_vars
  BY <1>1
<1> QED
  BY <1>2, InvariantHolds, PTL DEF Spec, EquipmentRefusalJustified

(* What the service does to bookings.status is what BookingLifecycle        *)
(* promises: rows are born HELD and then move along legal edges only.       *)
THEOREM ImplementsLifecycle == Spec => LifecycleImplemented
<1>1. Init => Lifecycle!Init
  BY DEF Init, Lifecycle!Init
<1>2. IInv /\ IInv' /\ [Next]_vars => [Lifecycle!Move]_status
  <2> SUFFICES ASSUME IInv, IInv', [Next]_vars, status' # status
               PROVE  \A x \in Booking : \/ status'[x] = status[x]
                                          \/ isLegalTransition(status[x], status'[x])
    BY DEF IInv, TypeOK, Lifecycle!Move, Lifecycle!Statuses, Statuses,
           Lifecycle!isLegalTransition, isLegalTransition,
           Lifecycle!LEGAL_TRANSITIONS, LEGAL_TRANSITIONS
  <2> USE DEF IInv, TypeOK, rows
  <2>1. ASSUME NEW b \in Booking, HoldInsert(b)
        PROVE  \A x \in Booking : \/ status'[x] = status[x]
                                   \/ isLegalTransition(status[x], status'[x])
    <3>1. status[b] = "DRAFT" /\ \A x \in hold[b].stale : status[x] = "HELD"
      BY <2>1 DEF HoldInsert, HoldFacts, InTransaction
    <3> QED BY <2>1, <3>1 DEF HoldInsert, isLegalTransition, LEGAL_TRANSITIONS
  <2>2. ASSUME NEW b \in Booking, NEW to, Transition(b, to)
        PROVE  \A x \in Booking : \/ status'[x] = status[x]
                                   \/ isLegalTransition(status[x], status'[x])
    BY <2>2 DEF Transition
  <2>3. ASSUME NEW s \in Session, PayWrite(s)
        PROVE  \A x \in Booking : \/ status'[x] = status[x]
                                   \/ isLegalTransition(status[x], status'[x])
    <3>1. session[s].bk \in Booking
      BY DEF SessionCall
    <3> QED BY <2>3, <3>1 DEF PayWrite, isLegalTransition, LEGAL_TRANSITIONS
  <2>4. ASSUME Sweep
        PROVE  \A x \in Booking : \/ status'[x] = status[x]
                                   \/ isLegalTransition(status[x], status'[x])
    BY <2>4 DEF Sweep, OldestBatch, Sweepable, isLegalTransition, LEGAL_TRANSITIONS
  <2>5. ASSUME NEW b \in Booking, Cancel(b) \/ ChargeSucceeded(b) \/ ChargeFailed(b)
        PROVE  \E to : Transition(b, to)
    BY <2>5 DEF Cancel, ChargeSucceeded, ChargeFailed
  <2>6. \A b \in Booking : ~(\/ HoldRequest(b) \/ HoldBegin(b) \/ HoldExpireStale(b)
                            \/ HoldLockEquipment(b) \/ HoldAdmitEquipment(b) \/ HoldAbort(b))
    BY DEF HoldRequest, HoldBegin, HoldExpireStale, HoldLockEquipment,
           HoldAdmitEquipment, HoldAbort
  <2>7. \A s \in Session, b \in Booking :
          ~(CheckoutRead(s, b) \/ PayRead(s, b) \/ RefuseLapsed(s, b))
    BY DEF CheckoutRead, PayRead, RefuseLapsed
  <2>8. /\ \A s \in Session : ~(CheckoutWrite(s) \/ Hangup(s))
        /\ ~Tick /\ ~UNCHANGED vars /\ \A p \in BufferPcts : ~UpdateSettings(p)
    BY DEF CheckoutWrite, Hangup, Tick, UpdateSettings, vars
  <2> QED
    BY <2>1, <2>2, <2>3, <2>4, <2>5, <2>6, <2>7, <2>8 DEF Next, HoldStep
<1> QED
  BY <1>1, <1>2, InvariantHolds, PTL DEF Spec, LifecycleImplemented, Lifecycle!Spec

-----------------------------------------------------------------------------
(* No hold transactions ever wait on one another in a ring.  In a ring each *)
(* hold that is waited for is itself waiting for an equipment row, and the  *)
(* row it waits for has a larger id than any it holds; so there would be no *)
(* largest id among the rows waited for.                                    *)
THEOREM HoldsNeverDeadlock == Spec => []NoDeadlock
<1>1. IInv => NoDeadlock
  <2> SUFFICES ASSUME IInv, NEW S \in SUBSET Booking, S # {},
                      \A a \in S : \E b \in S : WaitsFor(a, b)
               PROVE  FALSE
    BY DEF NoDeadlock
  <2> DEFINE T == {e \in Equipment : \E a \in S : hold[a].at = "locking" /\ NextLock(a, e)}
  <2>0. MAX_ID \in Nat /\ T \in SUBSET (0..MAX_ID)
    BY RequestAssumption
  <2>1. ASSUME NEW a \in S, NEW b \in S, WaitsFor(a, b)
        PROVE  hold[b].at = "locking" /\ \E f \in Equipment : NextLock(b, f)
    <3>1. hold[b].at \in {"locking", "admitted"}
      BY <2>1 DEF WaitsFor, IInv, EquipmentLocks
    <3>2. PICK c \in S : WaitsFor(b, c)
      OBVIOUS
    <3> QED BY <3>1, <3>2 DEF WaitsFor, NextLock, Wanted
  <2>2. T # {}
    <3>1. PICK a \in S : TRUE
      OBVIOUS
    <3>2. PICK b \in S : WaitsFor(a, b)
      OBVIOUS
    <3> QED BY <2>1, <3>2
  <2>3. ASSUME NEW e \in T PROVE \E f \in T : e < f
    <3>1. PICK a \in S : hold[a].at = "locking" /\ NextLock(a, e)
      OBVIOUS
    <3>2. PICK b \in S : WaitsFor(a, b)
      OBVIOUS
    <3>3. e \in hold[b].locked
      <4>1. PICK d \in hold[b].locked : NextLock(a, d)
        BY <3>1, <3>2 DEF WaitsFor
      <4>2. d \in Wanted(a) \ hold[a].locked /\ e \in Wanted(a) \ hold[a].locked
        BY <3>1, <4>1 DEF NextLock
      <4>3. d <= e /\ e <= d
        BY <3>1, <4>1, <4>2 DEF NextLock
      <4>4. d \in Nat /\ e \in Nat
        BY <4>2, RequestAssumption DEF Wanted
      <4> QED BY <4>1, <4>3, <4>4
    <3>4. hold[b].at = "locking" /\ \E f \in Equipment : NextLock(b, f)
      BY <2>1, <3>2
    <3>5. PICK f \in Equipment : NextLock(b, f)
      BY <3>4
    <3>6. e < f
      BY <3>3, <3>5 DEF NextLock, IInv, EquipmentLocks
    <3> QED BY <3>4, <3>5, <3>6
  <2> HIDE DEF T
  <2>4. PICK e \in T : \A f \in T : f <= e
    BY <2>0, <2>2, LargestElement
  <2>5. PICK f \in T : e < f /\ f <= e
    BY <2>3, <2>4
  <2> QED BY <2>0, <2>5
<1> QED
  BY <1>1, InvariantHolds, PTL

-----------------------------------------------------------------------------
(* What a checkout in flight is about to write is within the hold's lifetime: *)
(* the row it read exists, so its created_at can no longer change.            *)
RearmInv ==
  /\ \A b \in Booking : status[b] = "DRAFT" => rearmCount[b] = 0
  /\ \A s \in Session : session[s].op = "checkout" =>
       /\ status[session[s].bk] # "DRAFT"
       /\ session[s].expires <= LifetimeCap(session[s].bk)
  /\ RearmWithinLifetime

(* Most steps leave the rows' times and the calls in flight as they are. *)
LEMMA RearmInvKept ==
  ASSUME TypeOK, TypeOK', RearmInv, UNCHANGED <<createdAt, rearmCount>>,
         \A s \in Session : session'[s] = session[s] \/ session'[s].op # "checkout",
         \A x \in Booking :
           /\ status'[x] = "DRAFT" <=> status[x] = "DRAFT"
           /\ status'[x] \in {"HELD", "PENDING_PAYMENT"}
                => /\ status[x] \in {"HELD", "PENDING_PAYMENT"}
                   /\ expiresAt'[x] = expiresAt[x]
  PROVE  RearmInv'
<1>1. \A b \in Booking : LifetimeCap(b)' = LifetimeCap(b)
  BY DEF LifetimeCap
<1>2. \A s \in Session : session[s].bk \in Booking
  BY DEF TypeOK, SessionCall
<1>3. RearmWithinLifetime'
  BY <1>1 DEF RearmInv, RearmWithinLifetime
<1>4. \A s \in Session : session'[s].op = "checkout" =>
        /\ status'[session'[s].bk] # "DRAFT"
        /\ session'[s].expires <= LifetimeCap(session'[s].bk)
  BY <1>1, <1>2 DEF RearmInv
<1> QED BY <1>3, <1>4 DEF RearmInv, LifetimeCap

(* A re-arm never carries a hold past created_at + MAX_HOLD_LIFETIME, in     *)
(* whatever order the reads and writes of racing checkouts fall.             *)
THEOREM RearmsBounded == Spec => []RearmWithinLifetime
<1>1. Init => RearmInv
  BY DEF Init, RearmInv, RearmWithinLifetime, NoCall
<1>2. TypeOK /\ TypeOK' /\ HoldFacts /\ RearmInv /\ [Next]_vars => RearmInv'
  <2> SUFFICES ASSUME TypeOK, TypeOK', HoldFacts, RearmInv, [Next]_vars PROVE RearmInv'
    OBVIOUS
  <2>0. \A s \in Session : session[s].bk \in Booking /\ session[s].expires \in Nat
    BY DEF TypeOK, SessionCall
  <2>1. ASSUME UNCHANGED <<rows, session>> PROVE RearmInv'
    BY <2>1, RearmInvKept DEF rows
  <2>2. ASSUME NEW b \in Booking, \/ HoldRequest(b) \/ HoldBegin(b) \/ HoldExpireStale(b)
                                  \/ HoldLockEquipment(b) \/ HoldAdmitEquipment(b)
                                  \/ HoldAbort(b) \/ (HoldInsert(b) /\ RoomConflict(b))
        PROVE  RearmInv'
    BY <2>1, <2>2 DEF HoldRequest, HoldBegin, HoldExpireStale, HoldLockEquipment,
                      HoldAdmitEquipment, HoldAbort, HoldInsert
  <2>3. ASSUME Tick \/ (\E p \in BufferPcts : UpdateSettings(p)) \/ UNCHANGED vars
        PROVE  RearmInv'
    BY <2>1, <2>3 DEF Tick, UpdateSettings, vars
  <2>4. ASSUME NEW b \in Booking, HoldInsert(b), ~RoomConflict(b) PROVE RearmInv'
    <3>1. status[b] = "DRAFT" /\ \A x \in hold[b].stale : status[x] = "HELD"
      BY <2>4 DEF HoldInsert, HoldFacts, InTransaction
    <3>2. UNCHANGED <<rearmCount, session>> /\ rearmCount[b] = 0
      BY <2>4, <3>1 DEF HoldInsert, RearmInv
    <3>3. \A x \in Booking : x # b =>
            /\ expiresAt'[x] = expiresAt[x] /\ LifetimeCap(x)' = LifetimeCap(x)
            /\ status'[x] = status[x] \/ (status[x] = "HELD" /\ status'[x] = "EXPIRED")
      BY <2>4, <3>1 DEF HoldInsert, LifetimeCap, TypeOK
    <3>4. status'[b] = "HELD"
      BY <2>4 DEF HoldInsert, TypeOK
    <3>5. RearmWithinLifetime'
      BY <3>2, <3>3 DEF RearmInv, RearmWithinLifetime
    <3>6. \A s \in Session : session[s].op = "checkout" =>
            /\ status'[session[s].bk] # "DRAFT"
            /\ session[s].expires <= createdAt'[session[s].bk] + MAX_HOLD_LIFETIME
      <4>1. \A x \in Booking : x # b => createdAt'[x] = createdAt[x]
        BY <2>4 DEF HoldInsert, TypeOK
      <4>2. \A s \in Session : session[s].op = "checkout" => session[s].bk # b
        BY <3>1 DEF RearmInv
      <4> QED BY <2>0, <3>3, <4>1, <4>2 DEF RearmInv, LifetimeCap
    <3>7. \A x \in Booking : status'[x] = "DRAFT" => rearmCount[x] = 0
      BY <3>3, <3>4 DEF RearmInv
    <3> QED BY <3>2, <3>5, <3>6, <3>7 DEF RearmInv, LifetimeCap
  <2>5. ASSUME NEW b \in Booking, Cancel(b) \/ ChargeSucceeded(b) \/ ChargeFailed(b)
        PROVE  RearmInv'
    <3>1. PICK to \in {"CANCELLED", "EXPIRED", "CONFIRMED", "FAILED"} : Transition(b, to)
      BY <2>5 DEF Cancel, ChargeSucceeded, ChargeFailed
    <3>2. status[b] # "DRAFT"
      BY <3>1 DEF Transition, isLegalTransition, LEGAL_TRANSITIONS
    <3>3. \A x \in Booking : /\ x # b => status'[x] = status[x] /\ expiresAt'[x] = expiresAt[x]
                             /\ status'[b] = to
      BY <2>5, <3>1 DEF Transition, Cancel, ChargeSucceeded, ChargeFailed, TypeOK
    <3>4. UNCHANGED <<createdAt, rearmCount, session>>
      BY <2>5 DEF Cancel, ChargeSucceeded, ChargeFailed
    <3> QED BY <3>2, <3>3, <3>4, RearmInvKept
  <2>6. ASSUME Sweep PROVE RearmInv'
    <3>1. PICK X \in SUBSET Booking :
            /\ X \subseteq Sweepable
            /\ status' = [x \in Booking |-> IF x \in X THEN "EXPIRED" ELSE status[x]]
      BY <2>6 DEF Sweep, OldestBatch
    <3> QED BY <2>6, <3>1, RearmInvKept DEF Sweep, Sweepable
  <2>7. ASSUME NEW s \in Session, Hangup(s) PROVE RearmInv'
    BY <2>7, RearmInvKept DEF Hangup, NoCall, rows, TypeOK
  <2>8. ASSUME NEW s \in Session, NEW b \in Booking, PayRead(s, b) \/ RefuseLapsed(s, b)
        PROVE  RearmInv'
    <3>1. \A r \in Session : session'[r] = session[r] \/ session'[r].op # "checkout"
      BY <2>8 DEF PayRead, RefuseLapsed, NoCall, TypeOK
    <3> QED BY <2>8, <3>1, RearmInvKept DEF PayRead, RefuseLapsed, rows
  <2>9. ASSUME NEW s \in Session, PayWrite(s) PROVE RearmInv'
    <3>1. \A r \in Session : session'[r] = session[r] \/ session'[r].op # "checkout"
      BY <2>9 DEF PayWrite, NoCall, TypeOK
    <3>2. \A x \in Booking : status'[x] = status[x]
                             \/ (status[x] = "HELD" /\ status'[x] = "PENDING_PAYMENT")
      BY <2>0, <2>9 DEF PayWrite, TypeOK
    <3>3. UNCHANGED <<createdAt, rearmCount, expiresAt>>
      BY <2>9 DEF PayWrite
    <3> QED BY <3>1, <3>2, <3>3, RearmInvKept
  <2>10. ASSUME NEW s \in Session, NEW b \in Booking, CheckoutRead(s, b) PROVE RearmInv'
    <3>1. /\ UNCHANGED <<status, expiresAt, createdAt, rearmCount>> /\ status[b] # "DRAFT"
          /\ \A r \in Session : r # s => session'[r] = session[r]
          /\ session'[s].bk = b /\ session'[s].expires = RearmTo(b)
      BY <2>10 DEF CheckoutRead, rows, TypeOK
    <3>2. RearmTo(b) <= LifetimeCap(b)
      BY LimitAssumption DEF RearmTo, LifetimeCap, TypeOK
    <3>3. RearmWithinLifetime'
      BY <3>1 DEF RearmInv, RearmWithinLifetime, LifetimeCap
    <3>4. \A r \in Session : session'[r].op = "checkout" =>
            /\ status[session'[r].bk] # "DRAFT"
            /\ session'[r].expires <= LifetimeCap(session'[r].bk)
      BY <3>1, <3>2 DEF RearmInv
    <3> QED BY <3>1, <3>3, <3>4 DEF RearmInv, LifetimeCap
  <2>11. ASSUME NEW s \in Session, CheckoutWrite(s) PROVE RearmInv'
    <3> DEFINE b == session[s].bk
    <3>1. /\ UNCHANGED <<status, createdAt>> /\ session[s].op = "checkout" /\ b \in Booking
          /\ \A r \in Session : session'[r] = session[r] \/ session'[r].op # "checkout"
          /\ \A x \in Booking : x # b => /\ expiresAt'[x] = expiresAt[x]
                                         /\ rearmCount'[x] = rearmCount[x]
      BY <2>0, <2>11 DEF CheckoutWrite, NoCall, TypeOK
    <3>2. UNCHANGED <<expiresAt, rearmCount>> \/ expiresAt'[b] = session[s].expires
      BY <2>0, <2>11 DEF CheckoutWrite, TypeOK
    <3>3. status[b] # "DRAFT" /\ session[s].expires <= LifetimeCap(b)
      BY <3>1 DEF RearmInv
    <3>4. \A x \in Booking : LifetimeCap(x)' = LifetimeCap(x)
      BY <3>1 DEF LifetimeCap
    <3>5. RearmWithinLifetime'
      BY <3>1, <3>2, <3>3, <3>4 DEF RearmInv, RearmWithinLifetime
    <3>6. \A r \in Session : session'[r].op = "checkout" =>
            /\ status[session'[r].bk] # "DRAFT"
            /\ session'[r].expires <= LifetimeCap(session'[r].bk)
      BY <2>0, <3>1, <3>4 DEF RearmInv
    <3>7. \A x \in Booking : status[x] = "DRAFT" => rearmCount'[x] = 0
      BY <3>1, <3>3 DEF RearmInv
    <3> QED BY <3>1, <3>5, <3>6, <3>7 DEF RearmInv, LifetimeCap
  <2>12. \A b \in Booking : HoldRequest(b) \/ HoldStep(b) \/ HoldAbort(b) => RearmInv'
    BY <2>2, <2>4 DEF HoldStep
  <2>13. \A s \in Session : CheckoutWrite(s) \/ PayWrite(s) \/ Hangup(s) => RearmInv'
    BY <2>7, <2>9, <2>11
  <2>14. \A s \in Session, b \in Booking :
           CheckoutRead(s, b) \/ PayRead(s, b) \/ RefuseLapsed(s, b) => RearmInv'
    BY <2>8, <2>10
  <2> QED
    BY <2>3, <2>5, <2>6, <2>12, <2>13, <2>14 DEF Next
<1>3. IInv => TypeOK /\ HoldFacts
  BY DEF IInv
<1>4. RearmInv => RearmWithinLifetime
  BY DEF RearmInv
<1> QED
  BY <1>1, <1>2, <1>3, <1>4, InvariantHolds, PTL DEF Spec

=============================================================================
