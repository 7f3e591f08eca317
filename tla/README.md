# Atrium: a TLA+ model of bookings, payments, availability and access

Atrium is a marketplace for rooms. A customer holds a room (and some of the
venue's shared equipment) for a few minutes, goes to checkout, pays through
*paygate*, a deliberately unreliable payment provider, and may later cancel
against the venue's policy. Several identical API replicas sit behind a load
balancer and share one Postgres database; paygate keeps a database of its own.
`ARCHITECTURE.md` states the promises as INV-1 to INV-6.

This directory models the parts that carry those promises, checks them with TLC
on small instances, and proves with TLAPS, for any number of bookings, rooms,
tenants, charges and concurrent calls, and for any zone and week of opening hours,
what bookings, payments, the provider, the revenue report, the calendar, access
control and the console promise at every instant. What must eventually happen is
model-checked only. Paths below are relative to `src/`, `api/` stands for `apps/api/src/` and `paygate/` for
`apps/paygate/src/`, `web/` for `apps/web/`.

## 1. The system

### Components

| component | state it keeps | operations | correct when |
|---|---|---|---|
| booking state machine (`api/bookings/booking-state-machine.service.ts`) | `bookings.status`, `expires_at`, `rearm_count` | createHeld, transition, recordSideEffect, two bulk expiries | a row moves along legal edges only, whoever moves it |
| bookings service (`api/bookings/bookings.service.ts`) | none of its own; transactions over bookings | hold, checkout, cancel | INV-1: no two live rows of a room overlap; a 409 has a real cause |
| equipment availability (`equipment-availability.ts`) | row locks on `equipment_types` | lock in id order, peak usage, ceiling | INV-2: never more units out than the ceiling; no shortage that is not there; no lock ring |
| hold sweeper (`hold-sweeper.service.ts`) | none | one batch per tick, on each replica | INV-3: a dead hold goes away and never blocks anyone meanwhile |
| transient retry (`api/common/retry-transaction.ts`) | attempt number | start the transaction over | a retried transaction leaves nothing of its first try |
| payments service (`api/payments/payments.service.ts`) | `payments`, `payment_events`, `webhook_deliveries` | pay, ingest, apply, settle, two polls | INV-4: money and bookings agree; INV-5: none is lost |
| webhook processor (`webhook-processor.service.ts`) | a timer per replica | drain, poll | an outcome is applied once, and in the end |
| refund policy, cancellation policies | `cancellation_policies`, `policy_snapshot` | replace, snapshot, compute | a refund follows the terms agreed at confirmation |
| reconciliation report | none (reads) | classify | every loss is in a class; impossible classes stay empty |
| paygate app and ledgers (`paygate/app.ts`, `paygate/ledger/`) | charges, refunds, idempotency claims, in Postgres or in memory | charge, refund, read, import | one charge per key; never more back than came in; a durable ledger forgets nothing |
| paygate webhook delivery | timers in memory | dispatch, deliver once | one announcement per outcome |
| room availability, search | none (reads) | enumerate, freeRoomIds | what is advertised is what would be granted |
| operating hours, time zones | `venues.timezone`, `operating_hours` | windows, is-within | doors follow the clock on the wall |
| venue administration (`api/venues/`) | `venues`, `rooms`, `equipment_types` | create, update | live bookings keep what they were promised; a room stays bookable |
| authentication, guards, tenant scoping (`api/auth/`, `api/common/guards/`, `api/repositories/`) | `users`, tokens in the hands of clients | register, login, check, filter | INV-6: nobody sees, changes or detects another tenant's row |
| reports (`api/reports/`) | none (reads) | sum, count open minutes | no money is claimed that is not there |
| web console (`web/app/(console)/`) | a copy of the booking, a basket, a countdown, a polling clock | hold, pay, extend, cancel, poll, re-render | the screen does not mislead about money, and shows how it ended |
| seed, listings, load balancer | | | see "Not modelled" |

### How they interact

A hold is one database transaction: advisory lock on the room, expiry of the
room's dead holds, row locks on equipment in id order, the admission decision,
the insert, checked by the exclusion constraint `no_room_overlap`. What it needs
to know about the room, the overbooking buffer included, was read before the
transaction. Checkout and pay read the booking without a lock, decide, and then
write under a row lock. Pay commits before it calls paygate; paygate answers 202
with an id and reports the outcome by webhook, perhaps before the answer, perhaps
twice, perhaps never. Webhooks are stored, then applied by whichever replica gets
to them; a unique row in `payment_events` decides who applies an effect. Two
polls ask paygate about charges and refunds whose id is known. Cancel commits the
move, then works out the refund in a second transaction, then calls paygate.

Every request passes three guards (token, role, venue) and then a query that adds
the tenant's filter to its own. The console is a server-rendered site: a browser
tab posts server actions to it, which call the API and may bring a re-rendered
page back; the checkout screen also polls the booking every two seconds.

### What is hard

Reads that are stale when they are acted on (checkout, pay, the buffer); locks
taken by several transactions; expiry racing everything else; an HTTP call
between two commits, with a process that may die there; answers and webhooks that
are lost, doubled or swapped; a provider that restarts half way through a
handler; daylight saving between two pieces of code that compute the same windows
in different ways; a screen that shows copies, each read at another time and
arriving in another order. `PROJECT.json` lists each at the line where it bites.

## 2. Modules

| module | models | extends |
|---|---|---|
| `BookingStates` | the statuses and the table of legal transitions | |
| `BookingLifecycle` | **abstract**: rows start as DRAFT, a step moves any batch of rows along legal edges | BookingStates |
| `BookingService` | hold, checkout, pay's first transaction, cancel, sweep, charge outcome as it falls on the row, buffer changes | BookingStates, Sums |
| `BookingServiceProofs` | theorems and proofs | BookingService, SumsProofs |
| `Paygate` | the provider: ledger, idempotency, handlers, webhooks, restarts | |
| `PaygateProofs` | what its steps keep, whoever calls it | Paygate, TLAPS |
| `Bank` | **abstract**: under a key money is captured once and never more returned; a provider that is not durable may forget everything at once | |
| `Ledgers` | the provider alone, over the ledger in Postgres or in memory, with the import and any caller | Paygate, Sums |
| `LedgersProofs` | theorems and proofs, the refinement of Bank among them | Ledgers, PaygateProofs, SumsProofs |
| `PaymentFlow` | payments service and webhook processor, **composed** with Paygate | Paygate, BookingStates |
| `Reconciliation` | the report's classes over PaymentFlow's state | PaymentFlow |
| `PaymentFlowProofs` | theorems and proofs about payments and both reports | Reconciliation, Reports, PaygateProofs, SumsProofs |
| `Sums` | sums of amounts over finite sets of rows (pure) | |
| `SumsProofs` | how such sums add up, compare and split | Sums, TLAPS |
| `Reports` | the revenue report over PaymentFlow's state | PaymentFlow, Sums |
| `OperatingHours` | zones, local readings and their inversion, windows (pure) | |
| `Availability` | calendar, search, hold decision and counted open time side by side | OperatingHours, Sums |
| `AvailabilityProofs` | theorems and proofs | Availability, SumsProofs |
| `Access` | accounts, tokens, guards, tenant filters, venue administration | |
| `AccessProofs` | theorems and proofs | Access, TLAPS |
| `Pricing` | prices and refunds, as the API and as the console compute them (pure) | Sums |
| `Console` | one tab of the console beside the booking it is about | Pricing, BookingStates |
| `ConsoleProofs` | theorems and proofs | Console, SumsProofs, WellFoundedInduction |
| `MC*` | the instances TLC checks | |

Operators named `..._Something` and commented "Slip:" are plausible mistakes in
the definition that follows them. They are in no specification; substituting one
for its original must make the property named in `PROJECT.json` fail, which shows
that the property can fail.

### BookingService and the code

One element of `Booking` is one hold request and the row it becomes; its slot,
room and line items are constants. `status`, `expiresAt`, `createdAt` and
`rearmCount` are the columns. `hold[b]` is the transaction of a hold: where it
stands, its `now()` (`since`), the buffer it read (`pct`), the rows it has expired
but not committed (`stale`) and the equipment rows it has locked. `session[s]` is
a checkout or pay call between its read and its write. `revived` is history: the
rows that were written to after they had lapsed.

| action | code |
|---|---|
| HoldRequest, HoldBegin | the context read, then BEGIN; `now()` is frozen |
| HoldExpireStale | advisory lock, `expireStaleHoldsForRoom`; invisible to others until commit |
| HoldLockEquipment | `SELECT ... ORDER BY id FOR UPDATE`, one row per step |
| HoldAdmitEquipment | `peakConcurrentUsage` and the ceiling for every type; 409 if short |
| HoldInsert | `createHeld`, COMMIT; 409 on 23P01 |
| HoldAbort | class-40 abort or lost connection, with `withTransientRetry` |
| CheckoutRead/Write, PayRead/Write | the unlocked read and the locked write |
| RefuseLapsed | checkout or pay on a lapsed hold: the move to EXPIRED is rolled back by the 409 |
| Cancel, ChargeSucceeded, ChargeFailed | `transition` on the locked row |
| Sweep | one batch, oldest first, SKIP LOCKED |
| UpdateSettings | the venue's buffer |

READ COMMITTED is modelled as Postgres has it: a statement sees what was committed
when it started, `FOR UPDATE` re-reads, writes appear at commit. The two notions of
"dead" in the code (`<=` in the replicas and in the equipment query, `<` in the
expiry statements) are both kept. The equipment peak is computed as the query of
`peakConcurrentUsage` does: windows clipped to the request, two events each, running
totals in order of time and `tie_break`, the largest of them. The order of events equal
in both, which the query leaves open, is the constant `rowOrder`. The properties speak of
the units out at an instant (`UnitsOut`) and know nothing of events.

### Paygate, PaymentFlow, Reconciliation and the code

In `Paygate` a handler is a sequence of ledger transactions with awaits between
them, so each transaction is a step (`OpenCharge`, `RecoverCharge`,
`MaterialiseCharge`, `OpenRefund`, `MaterialiseRefund`). The chaos plan's choices
(transient 500, one or two webhooks, delay, loss, corrupt signature) are free.
`Restart` kills handlers and forgets timers; the ledger stays. Ids are drawn in order
from those that are free; the ids of imported charges (`SeedId`) are the seed's own
and are never drawn.

In `PaymentFlow` a database transaction of the API is one step; what happens
outside one (pay's read, the call to paygate, the refund after a commit) is a step
of its own, before which `HangUp` or `ReplicaDies` may come. `payment[b]` is the
booking's row of `payments`, `applied` is `payment_events`, `inbox` the unprocessed
`webhook_deliveries`. Keys are derived in the code (charge key from the booking,
refund key from the charge) and are therefore equal to them here (`KeyAssumption`).
Expiry is one bit, `lapsed`, since BookingService treats time in full; `Rearm`
is the late write of a checkout, which clears it. Amounts are small integers and
refunds are computed component by component, rounded down, as `computeRefund` does;
the tier that applies depends on the hour and is a free choice. `PollCharge` and
`PollRefund` ask about one payment; which ones a poll's batch contains, and that it takes
no more than `POLL_LIMIT` of those that wait, in no order the query names, is in
`ChargesCrowded`, `RefundsCrowded` and the fairness. `Together` bounds which bookings
are made in one behaviour. Every booking costs
something (`PriceAssumption`): paygate's bodies require a positive `amount_minor`
(`paygate/app.ts:21`), so a free booking never gets as far as a charge.

`Reconciliation` defines each class of the report as a set of bookings, over all of
history and with the grace period over. `double_capture` is left out: the unique
idempotency key makes it impossible.

### Availability, OperatingHours and the code

Three pieces of code decide about the same slot: `enumerate` (the calendar),
search's window filter, and the hold path (`assertBookable` plus the exclusion
constraint). `Availability` has all three over the same rows. `OperatingHours` keeps
the fixed-point inversion `fromLocalParts` with its three corrections, the stepping
from noon of `nextLocalDay`, the rule for windows over midnight and for 24:00, and
the two ways previous days are found. A zone has one transition, forward or back.
The calendar is asked for any length it accepts, which is any up to the room's maximum
(`AskedDurations`), while a hold must also reach the minimum (`Durations`). A hold whose
time is up at this very instant (`due`) is dead to the calendar and search, which compare
with `<=`, and alive to the hold path, which expires with `<`.

`Ledgers` adds the choice of ledger (`store`). The memory ledger's methods never
await, so each is one step; they are those of Postgres except that a refused refund
leaves no claim, and that `MemoryRestart` empties the maps. An import into Postgres
is two statements without a transaction, so it is two actions, with `importing`
between them and a restart possible there; in memory it is one. `BankImplemented` is
the refinement: money captured and returned key by key, summed from the ledger.

`Reports` reads the same tables as `Reconciliation`: what bookings earned by
their status, what payments say went back, the difference. Its sums are over an
arbitrary set of bookings, which is what a range of dates selects. There are finitely
many bookings (`FiniteAssumption`), as in any database.

A sum over rows is written as the number of units the rows stand for (`Sums`): each
row contributes as many pairs as its amount. That needs neither an order of the rows
nor recursion, and makes a sum a cardinality, about which there are theorems.

### Access and the code

A read is an operator (`Selected`: the rows a route's query can return to the holder
of a token), a write an action. `RequiredRoles` is
the `@Roles` of the controllers; `scopeFilter`, `EquipmentScope`, `OfVenue` are the
filters in the queries. Staff whose account got its venue after the token was issued
hold one without a venue (`Unscoped`). `updateRoom` is the one write that reads
first, and is two actions; its body has one bound of the length, or both. `writer` is
history: whose request the last write was. What a route answers about a row it may not
show (404, or the same 404 as for one that does not exist) follows from the row not being
selected and is left out. E-mail addresses come in two spellings (`Lower`). What the
seed leaves (accounts, rooms, equipment) are constants: `Seeded`, `SeededRooms`,
`SeededEquipment`.

### Console, Pricing and the code

`tab` is what React keeps: the page, the copy of the booking shown, the outcome of
the last action, `expiredLocally`, `gaveUp`, the polling clock, the basket and the
prices loaded with the page. A server action goes through *asked*, *served*,
*rendered* and *delivered*; a cancellation is served in two transactions. `Render`
happens only for the outcomes after which the action calls `revalidatePath`. Polls
are answered in any order with what the row was when they were asked.

A page can be left, or loaded afresh, at any time (`Leave`, `Open`). If an action is under
way, its answer is dropped and the request goes on without the tab: from then on it is one
of those made elsewhere. `Back` brings back `kept`, the checkout page as the router's cache
has it: as it was rendered, until an action that revalidates purges it, and with fresh
state. A page that was opened anew or brought back remembers no pay, so the two history
variables are about the page on the screen: `mine`, a pay asked for from it got as far as
the payments row; `astray`, the console gave up on one of its pays and the API may yet
execute it (`LatePay`, at any later time, or never). Of two pays that race, the one that
loses between its read and its locked write is answered 409 (`ServePay`).

The booking meanwhile changes elsewhere (another device, the sweeper, webhooks). The API's
concurrency is BookingService's and PaymentFlow's subject; here it serves a request
in a step. Simplifications: the clocks of browser and API agree; a hold, an extension or a
cancellation that times out has taken effect before the tab hears of it, or is one of
somebody else's; that the router may refresh the page it has moved to, after the answer of
a revalidating action was dropped, is left out (the tab may be opened anew instead).

## 3. Runs

Passing runs:

| run | instance | states | checks |
|---|---|---|---|
| `holds_contention` | three holds, two in one room, two equipment types with one unit each, two attempts, fair | 251k | `TypeOK`, `NoRoomOverlap`, `NoDeadlock`, `RoomRefusalJustified`, `EquipmentRefusalJustified`, `HoldReleased` (rivals lock the row) |
| `holds_checkout` | two holds, two calls at any time before the clock stops, ten units, buffer 0% or 10% and changing, fair | 419k | `EquipmentNeverOversold`, `RearmWithinLifetime`, `LifecycleImplemented` (refinement), `HoldReleased` (re-armed as often and as late as possible) |
| `provider` | two requests, one charge key that is also imported, two refund keys, either ledger | 284k | `LedgersTypeOK`, `OneChargePerKey`, `NeverOverRefunded`, `AnnouncedOnce`, `BankImplemented` (refinement) |
| `payments_captured` | one booking, two requests, two policies, webhooks doubled | 121k | `FlowTypeOK`, `ConfirmedIsPaid`, `CaptureAccounted`, `RefundByAgreedTerms`, `DeliveriesMatch` |
| `payments_two` | two of three bookings (both captured, or one declined) whose messages cross, polls that take one payment at a time, fair | 253k | `BooksAgree`, `ImpossibleClassesEmpty`, `RevenueNeverOverstated`, `FlowIsLegal` (refinement), `ChargeSettles`, `RefundSettles` |
| `availability` | four settings of zone and hours, two rows, any length asked for | 2.7k | `AdvertisedIsBookable`, `BookableIsAdvertised`, `WindowsFollowTheClock`, `OpenTimeCounted` |
| `access` | two venues, five addresses, two rooms, two equipment types, one booking, two overlapping updates | 95k | `AccessTypeOK`, `TenantIsolation`, `HoldStaysInVenue`, `WritesStayHome`, `CrossedOnlyByRace` |
| `console` | one tab, one booking, two price lists, a ladder of two tiers or none, two polls under way, fair | 904k | `HeldMeansUntouched`, `FullWindow`, `QuoteHonoured`, `EstimateIsThePrice`, `SettledIsShown` |

Runs that refute what the repository says of itself:

| run | refuted | what happens |
|---|---|---|
| `oversold` | `EquipmentCeilingHolds`: "equipment never oversells at any instant t" | checkout reads a live hold and stalls; the hold lapses; a hold in another room is admitted for its units; checkout writes the new expiry and the first hold is alive again |
| `payment_stuck` | `UnansweredPaymentExpires`: "Those are left to expire" | expiry selects `HELD` only, so a PENDING_PAYMENT row whose charge is never answered keeps its room for ever |
| `silently_lost` | `MoneyNeverSilentlyLost` | the answer and the one webhook of a captured charge are both lost: the payment has no charge id, so no poll asks and no class of the report lists it |
| `overnight_change` | `InsideWindowIsOpen`: "an overnight window opened yesterday can still be open now" | after a day of 23 hours, "24 hours before" a start in the first hour is two dates back, and the window that opened yesterday evening is not looked at |

The passing properties say precisely what is left. `EquipmentNeverOversold`
is INV-2 for rows that were not revived, so the first finding is the only way to
break it; `CaptureAccounted` says that a late capture has at least its refund key
on record, which puts it on the report (not that it is refunded, see section 5);
`ChargeSettles` and `RefundSettles` hold once the id is known, as long as those that wait
fit into a poll's batch. `HeldMeansUntouched` is a promise of one page: what a page says
that knows nothing of an earlier one is in section 5. `QuoteHonoured` compares with the
copy rendered after the cancellation, not with the one the customer had seen before it.

### Bounds and why they are enough

- *Bookings.* Overlap, overselling and refusals relate two rows; the third hold of
  `holds_contention` gives a room whose handover is too tight beside a rival for
  equipment, and a ring of locks needs two transactions and two types. The proofs
  remove this bound altogether.
- *Time.* A re-arm outlasts a hold and the lifetime cuts the re-arm short, as with
  the real values (`HOLD_TTL`, `CHECKOUT_REARM`, `MAX_HOLD_LIFETIME`). `HoldsEnd`
  bounds when holds are asked for, `CallsEnd` when checkout and pay are called, `MaxNow`
  the clock. In `holds_checkout` calls go on until the longest-lived hold is past its
  lifetime, so that a hold is re-armed as late as the code allows; in `holds_contention`
  holds are asked for until b1 and b3, in one room, have lapsed, expired one another, kept
  the row locked and rolled back. In both, and in `payment_stuck`, the clock runs on, so
  that what was left behind lapses.
- *Fleet.* Ten units and a 10% buffer make eleven, the smallest fleet in which the
  buffer and its rounding matter. No instance has units handed over inside a third
  booking, which takes three rooms: for the order of such events there is the proof
  (section 4), which is for any number of bookings.
- *Provider.* Two requests at a time reach every race between two handlers;
  two amounts (the smaller one declined) let two refunds add up to more than a
  charge, and the imported charge comes with a refund already made, so that the next
  one must count it. One key is enough: what could go wrong is that two charges share
  it. Charge and refund ids are minted in order: real ones are random and
  never repeat.
- *Payments.* One booking and two requests show what a doubled webhook and a retry do to
  it; the price of 3 + 1 minor units at 50% and 100% shows the rounding per
  component. Two bookings suffice to take one's charge for the other's (`Together` keeps
  the third for another behaviour), and with a batch of one (`POLL_LIMIT`, 50 in the
  code) to be more than a poll takes.
- *Calendar.* Days of 24 quarter hours and a week of two days keep a transition, an
  overnight window, a 24:00 close and a closed day within one query.
- *Access.* The first venue starts empty, so that everything in it is created by its
  administrator; the second has only a desk, with a token that lacks the venue.
  Isolation relates a person and a row; the updates of a room need two requests.
  `MCBound` limits how much of the rest (buffer, policy, booking, new equipment,
  updates under way) is changed at once to any two of them.
- *Console.* A slot of three half hours at odd rates needs each rounding; the tier
  boundary lies inside the run. Two polls can overtake one another, three presses are
  hold, pay and one more (retry, extend, reload, leave, cancel, check again); a
  re-arming elsewhere and the end of the session count as presses too. With one item, at
  most once in the basket (`MaxQuantity`), neither sums nor products are exercised: there
  the theorem `EstimateHolds` says it for any basket.

`CHECK_DEADLOCK FALSE` is set for BookingService, Access and Console: with the clock at
its bound and every row settled, or every token gone and nobody signing in, nothing
is left to do. `NoDeadlock` speaks of lock rings, which
is the deadlock that matters. The slots and refund keys of `provider` and the requests
of `access` are symmetric: nothing tells them apart, and neither run checks liveness.

### Fairness

`BookingService!Fairness`: time passes; the sweeper's `setInterval` keeps firing on
some replica; a transaction that can take its next step takes it; a call that has
started ends. Weak fairness is enough because a step, once enabled, stays enabled
until taken or until its row has moved. Customers, administrators and the provider
owe nothing, which is why `payment_stuck` is a counterexample about the code.

`FlowFairness`: both polls run on a timer in every replica. A poll takes 50 rows
without an order (`payments.service.ts:897`, `:1053`), and a row whose charge or refund
never gets an outcome never leaves the set it takes them from. What the code gives is
therefore that a payment is asked about as long as those that wait with it fit into one
batch (`~ChargesCrowded`, `~RefundsCrowded`), and no more is assumed; when they do not fit,
a payment may wait for ever (section 5). No fairness is given to webhooks, to request
handlers at either end, to customers, or against crashes: `ReplicaDies`, `HangUp`,
`Restart` and `LoseDelivery` may happen at any time, so the two liveness properties hold
although every webhook is lost.

`ConsoleSpec`: the tab's interval timer fires (weak); an action ends, because the
console gives up on an API that does not answer (weak); and of the polls asked again
and again some are answered (strong, since a poll under way may be overtaken or fail
any number of times). Nothing is assumed of the customer, of the session, or of
any one poll.

## 4. Theorems

Every theorem is checked down to its last leaf, for any value of the constants
within the named assumptions. Each module of proofs has the same shape: facts about
the operators, the inductive invariant as a conjunction of named parts, one lemma
per action with a step per part it can disturb, and the theorems at the end.

### Bookings

`BookingServiceProofs` proves, from `RequestAssumption`, `VenueAssumption` and
`LimitAssumption` (finitely many requests with non-empty intervals, equipment ids
that are numbers, any order of equal rows, whole-percent buffers up to 10, positive times
to live):

| theorem | says |
|---|---|
| `TypeCorrect` | `Spec => []TypeOK` |
| `RoomsNeverOverlap` | `Spec => []NoRoomOverlap` (INV-1) |
| `FleetNeverOversold` | `Spec => []EquipmentNeverOversold` (INV-2 but for revived rows) |
| `HoldsNeverDeadlock` | `Spec => []NoDeadlock` |
| `RefusalsJustified` | `Spec => RoomRefusalJustified` |
| `ShortagesJustified` | `Spec => EquipmentRefusalJustified` |
| `RearmsBounded` | `Spec => []RearmWithinLifetime` |
| `ImplementsLifecycle` | BookingService implements BookingLifecycle |
| `InvariantHolds` | the inductive invariant `IInv` they rest on |

**The invariant.** Neither INV-1 nor INV-2 is inductive alone: a step that inserts
a row relies on what its transaction established some steps earlier. `IInv` is the
conjunction of

- `TypeOK`;
- `RoomLockExclusive`: at most one hold per room is past the advisory lock;
- `EquipmentLocks`: two transactions never have the same equipment row, each takes
  the rows it wants from the smallest id up, an admitted one has them all, and one
  that has ended has none;
- `HoldFacts`: a request in flight has no row yet, its `now()` is not in the
  future, the rows it has expired are still lapsed holds of its own room, and the
  buffer it works with is one the venue has used;
- `AdmissionsHold`: an admitted, uncommitted hold still fits under the ceiling it
  was judged by. No other hold can have committed units of those types since, because
  the locks are kept until commit; what else happens (expiry, cancel) only frees
  units, except revival, which is why `revived` is subtracted;
- `NoRoomOverlap` and `EquipmentNeverOversold`.

Each action has its own lemma, and under it one step per conjunct it can disturb.
Insertion is the interesting one: the exclusion constraint gives INV-1, and for
INV-2 the units out after the insert are split into the new row's and the others',
whose cardinalities add up, with `AdmissionsHold` bounding the sum. Counting units as
elements of a set (`UnitsOut`) turns that into facts about cardinality that the
library of finite-set theorems has, and needs no recursive sum.

**The peak.** The code admits by running totals, the invariants speak of instants, and
`PeakIsPeak` says that the two agree: a request fits on top of the peak exactly if it
fits at every instant of its interval, whatever `rowOrder` is. The total at an event is
what has been taken and is not yet back, since no row is back before it is taken
(`TotalIsOut`). At an event that takes units, everything due by that instant is
already back, so the total is at most what is out then; at one that brings units back,
it is at most what was out the instant before (`TotalIsReached`). Conversely, all that is
out at an instant is in the total at the last event by then that takes units
(`InstantIsSeen`). The tie-break is used in the first of these, the clipping in all.
`ShortagesJustified` follows from one direction, INV-2 from the other.

`RoomRefusalJustified` needs a further fact, `NoLapsedRival`: once a transaction has
expired the room's dead holds, no row of the room outside `stale` that was never
re-armed was dead at its `now()`. It survives later inserts because a new row
expires after the clock, and the clock is never behind the transaction's.
`RearmsBounded` carries the cap from checkout's read to its write in `RearmInv`:
what a call will write is within the lifetime of the row it read, and a row's
creation time never changes again. For `NoDeadlock`, every hold of a ring that is waited
for is itself waiting for an equipment row, with an id above all those it has, so the
rows waited for would have no largest id.

### The provider

`LedgersProofs`, on `PaygateProofs` and `SumsProofs`, from `LedgerAssumption` (ids are
positive numbers, finitely many refunds, positive amounts) and `ImportAssumption` (an
import is one charge per key and per id, no more refunded than charged):

| theorem | says |
|---|---|
| `LedgersTypeCorrect` | `LedgersSpec => []LedgersTypeOK` |
| `NobodyChargedTwice` | `LedgersSpec => []OneChargePerKey` |
| `RefundsWithinCharge` | `LedgersSpec => []NeverOverRefunded` |
| `OutcomesAnnouncedOnce` | `LedgersSpec => AnnouncedOnce` |
| `ProviderIsABank` | `LedgersSpec => BankImplemented`: the provider implements `Bank` |
| `LedgersInvariant` | the inductive invariant `LInv` |

**The invariant.** `ProviderInv` is what holds whoever calls: a handler that is part
way through carries the id its key's claim has (`RequestsInOrder`, the fact that makes
a retry meet the charge and not a second one), a key has one charge (`KeysUnique`), a
claim has the row it stands for (`ClaimsBacked`, `RefundClaimsBacked`), a charge has
an outcome exactly when it has come to life, and a refund's charge was captured. `LInv`
adds that an imported id has the key it was imported with and is there while its claims
are not (`ImportsKnown`, `ImportsStaged`: the gap between the two statements of an
import), that a 202 waiting to be collected names the charge of its key (which a
restart of the memory ledger may break, hence only for Postgres), and
`RefundsCounted`: `refunded_minor` *is* the sum of the refunds and of those before the
import, and within the charge. The last is what makes the check of the remaining
amount sound under competing refunds: the column alone says nothing of the rows.

**The refinement.** Each provider step keeps the rows of money (`RowsKept`), opens a
charge without outcome, makes one refund, imports, or empties the ledger in memory; each
of these is a step of `Bank` or a stutter, with captured and returned money as sums
over the charges and refunds of a key. An import of a captured charge with refunds is a
capture and a return at once, under a key that had none.

### Payments and the reconciliation report

`PaymentFlowProofs`, from `LedgerAssumption`, `KeyAssumption` and `PriceAssumption`
(keys as the code derives them, prices and percentages that are numbers, positive
totals):

| theorem | says |
|---|---|
| `FlowTypeCorrect` | `FlowSpec => []FlowTypeOK` |
| `ConfirmedBookingsArePaid` | `FlowSpec => []ConfirmedIsPaid` (INV-4) |
| `CapturesAreAccountedFor` | `FlowSpec => []CaptureAccounted` (INV-5, as far as the API knows) |
| `BooksMatchTheLedger` | `FlowSpec => []BooksAgree` |
| `RefundsFollowTheTerms` | `FlowSpec => []RefundByAgreedTerms` |
| `DeliveriesFindTheirPayment` | `FlowSpec => []DeliveriesMatch` |
| `ImpossibleDiscrepancies` | `FlowSpec => []ImpossibleClassesEmpty` |
| `PaymentsImplementLifecycle` | `FlowSpec => FlowIsLegal`: PaymentFlow implements BookingLifecycle |
| `FlowInvariant` | the inductive invariant `FlowInv` |

**The invariant.** API and provider share nothing, so an invariant of the two tables
alone is lost at the first message: `FlowInv` says what each message is worth when it
arrives.

- `FlowTypeOK` and `ProviderInv`;
- `Ledger`: a charge is for the booking its key was derived from, and that booking's
  payments row was committed before; a charge has one refund and the API owes it
  (`Owed`: the key is committed and the amount is one the frozen terms give); a webhook
  on the wire or in the inbox speaks of something that has happened;
- `Requests`: a request names its own booking or charge, a 202 carries the id of the
  claim, and a caller waits for the answer to what it asked;
- `Bookings`: `Books` compares a payments row with the ledger, `Standing` with its
  booking and with what a worker is about to do after its commit.

The provider's steps are first reduced to how they change its ledger (rows and outcomes
stay, new rows answer a request under way, a webhook tells the truth) and then shown to
keep the API's part; the API's steps leave the ledger alone. That a webhook may be
doubled, early or late costs nothing in the proof: `WebhooksTrue` speaks of any number
of copies.

### The revenue report

`PaymentFlowProofs` also proves `RevenueIsThere`, `FlowSpec => []RevenueNeverOverstated`, from
`FlowInv` and `FiniteAssumption`. A booking that earns is confirmed, so it was captured
and nothing of it went back; a booking that something went back to was captured, and its
price covers that refund. The net of a range is therefore covered booking by booking,
and the lemmas of `SumsProofs` (a sum splits over disjoint rows, and is covered by
another if its rows map one to one to rows that are at least as large) carry that to
the totals.

### Access

`AccessProofs`, from `AccessAssumption` (seeded accounts are whole: staff has a venue and
nobody else does; seeded rooms and equipment belong to venues; addresses are compared in
lower case):

| theorem | says |
|---|---|
| `TypeCorrect` | `AccessSpec => []AccessTypeOK` |
| `TenantsIsolated` | `AccessSpec => []TenantIsolation` (INV-6) |
| `HoldsStayInVenue` | `AccessSpec => []HoldStaysInVenue` |
| `WritesStayAtHome` | `AccessSpec => WritesStayHome`: whoever wrote is an administrator of the venue written to |
| `CrossingNeedsARace` | `AccessSpec => CrossedOnlyByRace`: the update that crosses the bounds had read one of them as it no longer was |
| `InvariantHolds` | the inductive invariant `IInv` |

`IInv` adds to the types what the database's constraints and the order of events give:
staff accounts have venues (`users_venue_ck`), a token's role is its account's and its
venue the account's or none (a token may be old, never worth more), an update under way
was asked for by someone who administers its venue and was coherent with what it read,
and a booking's room and equipment exist. `WritesStayHome` needs the third: an update
lands after its token may be gone.

### The console

`ConsoleProofs`, from `ConsoleAssumption` (positive times, prices and quantities that are
numbers, finitely many equipment types, ladders as `TiersSchema` accepts them):

| theorem | says |
|---|---|
| `ScreenIsHonest` | `ConsoleSpec => []HeldMeansUntouched` |
| `WindowIsFull` | `ConsoleSpec => []FullWindow` |
| `QuoteIsTheRefund` | `ConsoleSpec => []QuoteHonoured`, for any ladder, prices and basket |
| `EstimateHolds` | `ConsoleSpec => EstimateIsThePrice` |
| `RefundWithinPrice` | `ConsoleSpec => [](tab.result.refund \subseteq 0..order.total)`, for any ladder `TiersSchema` accepts |
| `ConsoleInvariant` | the inductive invariant `CInv` |

**The invariant.** `Places` says on which page an action or a poll can be under way.
`Honest` says what each copy is worth: one that shows the booking paid for was read when
it was, and the row never goes back to HELD (`Later`); a poll never brings a hold that
can still be paid, because the screen polls only once it has seen the payment pending, or
after a conflict, which a live hold does not give (`Dead`). `Recorded` says what a pay leaves
behind: as long as one of the page's may come late or is on record, a page that shows a
running hold admits doubt (its outcome is an error, a time-out or a 502/503, or the answer
is still on its way), and so will the page an extension brings; a pay that was answered
202 or 409 left no live hold behind. `InWindow` ties the polling clock to the time since the window began. `Quoted`
carries a refund from the transaction that computed it to the page that shows it: the
row stays cancelled and its terms stay frozen, whatever else happens to it meanwhile. The
equality of the two refund computations and of the two prices is proved for any numbers
(`PreviewIsRefund`, `EstimateIsTotal`).

**The bound.** `RefundWithinPrice` adds `LinesWithinTotal` to `CInv`: the line items are
part of the total, because only the hold writes them (`OrderIsWritten`). An accepted
ladder ends at zero hours, so the set of tiers a lead time clears is never empty and the
first of them exists (`TierIsThere`, by the well-foundedness of the naturals); a share of
at most 100% rounded down is part of what it is a share of (`ShareIsPart`), once for the
room and once for the equipment.

### The calendar

`AvailabilityProofs`, from `CalendarAssumption`, `GridAssumption` and `SettingsAssumption`
(positive days and weeks, whole positions on the grid, hours as `parseClock` accepts them):

| theorem | says | of venues that are |
|---|---|---|
| `AdvertisedSlotsAreGranted` | `AvailabilitySpec => []AdvertisedIsBookable`, with the exceptions it names | orderly, yesterday reached |
| `GrantedSlotsAreAdvertised` | `AvailabilitySpec => []BookableIsAdvertised` | orderly |
| `OnlyTheChangeUpsets` | `AvailabilitySpec => []InsideWindowIsOpen` | orderly, yesterday reached |
| `DoorsFollowTheClock` | `AvailabilitySpec => []WindowsFollowTheClock` | orderly |
| `OpenTimeIsOpen` | `AvailabilitySpec => []OpenTimeCounted` | orderly |
| `AvailabilityTypeCorrect` | the types `AInv` | any |

**The two conditions.** The code does not ask them of a venue, and without them the
theorems are false; they name the venues for which its arithmetic is right.
`Orderly`: the clock moves by less than half a day (so that noon, from which
`nextLocalDay` steps, stays on its date), no window opens at 24:00, and no door opens or
closes at a reading that the change skips or repeats, the midnight from which a 24:00
close is stepped among them. Real zones move their clock by an hour or so in the small
hours, so this is a condition on the doors: none between 01:00 and 02:00, say, on the two
nights of the year when London's clocks change. `YesterdayReached`: while last night's
window is open, 24 hours ago was yesterday. It fails for a window that runs over midnight into the first
hour of the day after a change forward, which is exactly the run `overnight_change`:
`OnlyTheChangeUpsets` says that the finding has no other cause. `MCAvailability` has
TLC evaluate both: the settings of the passing run satisfy them (an overnight
window, a 24:00 close and changes of the clock both ways among them), and the setting of the
finding satisfies the first and not the second.

**The argument.** A reading that exists once has an instant that divides time: earlier
instants read earlier, later ones not (`Reads`). The three rounds of `fromLocal` find it,
whatever the two offsets (`FromLocalInverts`), and the step from noon reaches the next
date (`NextDay`). So a window is the instants whose readings lie between two readings
(`WindowReads`), which no longer mentions offsets, and the three ways of deciding about
a slot can be compared: a slot inside a window of any date is within the hours of its own
date or of the one before (`InsideIsWithin`), and the calendar's walk over dates meets
every window that meets the range (`WalkMeets`). The grid adds that a
candidate is the least multiple of the step not before the door (`CeilIsLeast`), the rows
that what `busyIntervals` leaves free is what the exclusion constraint admits
(`FreeIsFree`, `ListedIsFree`, `FreeIsListed`). For the open minutes, windows that do not
overlap are disjoint sets of instants, each clipped to the range, and their sizes
add up.

### Model-checked only

- Liveness (`HoldReleased`, `ChargeSettles`, `RefundSettles`, `SettledIsShown`): the
  prover knows neither fairness nor ENABLED.
- The findings are counterexamples and have nothing to prove.

## 5. Seen while modelling, without a run

- Checkout and pay move a lapsed row to EXPIRED and throw the 409 in the same
  transaction: the customer is told EXPIRED and the row is still HELD
  (`api/bookings/bookings.service.ts:441`).
- Two checkouts that read the same `rearm_count` both write the same successor
  (`bookings.service.ts:495`), so a hold may be re-armed more often than the limit
  says; the lifetime still bounds it (`RearmWithinLifetime`).
- The buffer is read before the hold's transaction (`bookings.service.ts:205`):
  a hold may be admitted under a buffer the venue has just withdrawn.
- A refused refund's idempotency claim is committed, so a retry under the same key
  finds a claim without a refund and answers 500 for ever
  (`paygate/ledger/postgres.ts:278`); the memory ledger does not do this
  (`paygate/ledger/memory.ts`).
- After a restart between a charge's claim and its outcome, a retry is a replay
  and does not finish the charge (`paygate/app.ts:308`, `:338`).
- A cancellation that refunds nothing still sets the refund key and stays on the
  report as initiated and not settled (`api/payments/payments.service.ts:710`,
  `api/admin/reconciliation.service.ts:42`).
- `busyIntervals` is clipped to the range asked about, so a slot that ends less than
  the turnaround before `to` may be advertised and refused
  (`api/rooms/availability.service.ts:151`); `enumerate` knows no booking horizon; the
  length asked for is compared with the room's maximum only (`:80`), so a calendar for one
  below the minimum, or off the grid, lists slots that `assertBookable` answers 422
  (`bookings.service.ts:829`), against "Never enumerate a start time the hold path is going
  to refuse" (`:91`). At the instant its time is up, a hold is dead to the calendar
  (`:150`, `<=`) and not to the hold path (`booking-state-machine.service.ts:270`, `<`).
  These are the exceptions `AdvertisedIsBookable` names, and it claims nothing else.
- A poll takes 50 payments without an order, from a set that a charge or refund without an
  outcome never leaves (`api/payments/payments.service.ts:897`, `:1053`): with more than
  that waiting, one may never be asked about.
- A hold with equipment of another venue and one with equipment that does not exist are
  both refused with 422, in different words (`bookings.service.ts:320`, `:334`): of all
  routes this one tells them apart. `GET` of the current policy gives staff without a venue
  the platform's default (`api/policies/policies.service.ts:16`), where other routes of the
  venue give 404 or nothing.
- `fromLocalParts` is documented to resolve a reading that exists twice to its first
  occurrence and one that does not exist to after the gap; for a zone like London's
  its three rounds end on the second occurrence and before the gap
  (`api/common/time/zoned-time.ts:117`). The windows of the `availability` run open
  and close on readings that exist once.

- The automatic refund of a late capture is asked for once, after the commit
  (`api/payments/payments.service.ts:395`). If the process dies first, nothing asks
  again: the polls want a refund id, the gate in `payment_events` keeps redeliveries
  away, and an EXPIRED booking cannot be cancelled. `CaptureAccounted` says what is left:
  the refund key is on record, and the report lists the booking.
- An imported claim has the fingerprint `'imported'`, which no request has, so a pay
  under its key is answered 409 where the comment at `paygate/ledger/postgres.ts:427`
  says that it "replays into the same charge". The memory ledger's import writes over
  a claim that is there (`paygate/ledger/memory.ts:233`); the seed's keys are imported
  before anyone pays under them, and `MemoryImport` is limited to that.
- `updateRoom` checks the bound it was sent against the other one as it read it
  (`api/venues/venues-admin.service.ts:147`), and the database has no CHECK: two updates
  that overlap can leave a room with min above max. `CrossedOnlyByRace` shows that
  this is the only way.
- Staff may hold a room at another venue, and are then answered 404 about their own
  booking (`bookings.service.ts:739`). Staff without a venue on the token are answered
  403 by bookings and 404 by payments (`payments.service.ts:1396`).
- A cancelled booking contributes minus its refund to the net revenue although
  `api/reports/reports.service.ts:17` says that it contributes nothing; the rooms are
  sorted by gross as text (`:186`); the four sums are separate statements and need
  not agree. Windows that overlap are counted twice in the open minutes.
- Checkout screen (`web/app/(console)/checkout/[id]/checkout-client.tsx`): a retry
  while it polls clears the clock (`:78`) and the effect that sets it does not run
  again, so the ceiling of three minutes is never reached; after a 502 or 503 the
  booking is not re-read; once the countdown has run out, `expiredLocally` stays although
  an extension that raced it succeeded, and the hold cannot be paid until a reload; an
  older poll may overwrite a newer one, so that CONFIRMED is shown as pending again
  (against `:38`).
- "Held. Nothing has been charged yet." (`checkout-client.tsx:471`) is right about what was
  asked for from the page that says it (`HeldMeansUntouched`), not about the booking: it is
  said while a pay is under way, by a page that was reloaded during one, by a page loaded
  before a pay that the console gave up on is executed after all (`web/lib/api.ts:140`),
  and by the cached page that Back brings after a 502 or 503, which do not revalidate
  (`web/app/(console)/checkout/[id]/actions.ts:49`).
- The cancel panel computes from its copy: one that still shows the booking held says that
  cancelling "moves no money" (`cancel-panel.tsx:158`) although it has been paid for since
  and a refund is made.
- A quantity such as 1.5 passes `Math.max(1, Number(q))` in the booking panel and makes
  `BigInt` throw in the estimate (`booking-panel.tsx:358`, `:82`); baskets are of whole
  numbers here.
- After a time-out the cancel panel says "Nothing was cancelled" and the booking panel
  "Nothing was held", although the API may have committed
  (`web/app/(console)/bookings/actions.ts`, `rooms/[id]/actions.ts`). Cancelling is
  offered for PENDING_PAYMENT, where it is always refused.

## 6. Not modelled

- **Changes of the fleet under live bookings**: Access changes `units_owned`, but in
  BookingService the fleet is a constant.
- **The provider's log of delivery attempts and its test routes**: nothing branches on
  the log, and the routes only force choices that are free here.
- **Breakdowns by room and by day**, audit rows, the public room page, paging: read or
  written beside the state modelled here.
- **The console's desk pages** (settings, reports, reconciliation, search, bookings
  list): reads, and forms that post once.
- **The seed's calendar generator, migrations, deployment**: the schema's constraints
  are in the modules that rely on them, and "any replica may act, and may die" is in
  all of them.
- Back-off times, the intervals of the timers, the size and order of the drain's batches
  (100, in order of arrival), signature bytes, passwords, log lines.
- **Free bookings** in the payment flow: the provider refuses a charge of nothing.

## 7. Plan

Done: the booking core, the provider over both ledgers and the specification they
implement, payments composed with it, the two reports, access and the console, each with
its safety properties proved, and the calendar with the venues it is right for. Next:
changes of `units_owned` under live bookings.
