------------------------------ MODULE Console ------------------------------
(***************************************************************************)
(* The customer's side: one browser tab of the console (the room page, the *)
(* checkout screen, the booking page) and the API as it answers it.        *)
(*                                                                         *)
(* The tab shows copies.  A copy arrives with a page the server rendered   *)
(* (on load, or with the answer of a server action that revalidated the    *)
(* path) or as the answer of a poll, each read from the row some time      *)
(* before, while other devices, the sweeper and the webhooks go on.        *)
(*                                                                         *)
(* A server action (hold, pay, extend, cancel) goes through stages: asked, *)
(* served by the API, its page rendered, delivered.  Next runs a tab's     *)
(* actions one at a time, but the page can be left or reloaded meanwhile:  *)
(* the answer is dropped, and the request is one of somebody else's.       *)
(* The API's own concurrency is in BookingService and PaymentFlow: here it *)
(* serves a request in a step, a cancellation in two.  One unit of time is *)
(* one poll interval, and `tab' is what React keeps for the screen after a *)
(* commit and its effects.                                                 *)
(***************************************************************************)
EXTENDS Pricing, BookingStates

CONSTANTS
  HOLD_TTL, CHECKOUT_REARM, MAX_HOLD_LIFETIME, MAX_HOLD_REARMS,
  POLL_CEILING,  \* how long the checkout screen keeps asking
  StartsAt,      \* the slot's start
  HalfHours,     \* and its length
  Item,          \* equipment types
  PriceLists,    \* [room |-> rate, items |-> [Item -> rate]]: what the venue may charge
  Ladders,       \* refund tiers a confirmation may freeze; <<>> without a policy
  MaxNow,        \* bound: the clock stops there, timers go on
  MaxPolls,      \* bound: poll requests in flight
  MaxPresses,    \* bound: what the customer does, re-armings elsewhere, ends of the session
  MaxQuantity    \* bound: units of an item in the basket

ASSUME ConsoleAssumption ==
  /\ {HOLD_TTL, CHECKOUT_REARM, MAX_HOLD_LIFETIME, POLL_CEILING, StartsAt} \subseteq Nat \ {0}
  /\ {MAX_HOLD_REARMS, HalfHours, MaxNow, MaxPolls, MaxPresses, MaxQuantity} \subseteq Nat
  /\ IsFiniteSet(Item)
  /\ PriceLists \subseteq [room : Nat, items : [Item -> Nat]]
  /\ \A l \in Ladders : l = <<>> \/ ValidTiers(l)

VARIABLES
  now,
  row,       \* the booking: [status, expiresAt, rearm, terms]
  order,     \* what it was held for: [createdAt, items, total]
  money,     \* its payment: [status, charged, refunding], charged: the provider has the charge
  rates,     \* the venue's price list
  signedIn,  \* the tab's session is good
  tab,
  kept,      \* the checkout page in the router's cache, as it was rendered
  call,      \* the server action under way
  polls,     \* answers to polls, on their way
  presses,
  mine,      \* history: a pay of the page on screen got as far as the payments row
  astray     \* history: the API may yet execute one that the console gave up on

server == <<row, order, money, rates>>
session == <<signedIn, kept>>
paid == <<mine, astray>>
vars == <<now, server, session, tab, call, polls, presses, paid>>

TERMINAL == {"CONFIRMED", "COMPLETED", "FAILED", "EXPIRED", "CANCELLED", "REFUNDED"}
LiveStatuses == {"HELD", "PENDING_PAYMENT"}

Draft == [status |-> "DRAFT", expiresAt |-> 0, rearm |-> 0, terms |-> <<>>]
Unset == -1
NoResult == [refund |-> {}, at |-> 0]
NoPrices == [room |-> 0, items |-> [i \in Item |-> 0]]
NoSession == [Draft EXCEPT !.status = "401"]
NoPage == [Draft EXCEPT !.status = "failed"]
Idle == [kind |-> "none", stage |-> "idle", reply |-> "none", result |-> NoResult, copy |-> NoPage]
Asked(kind) == [Idle EXCEPT !.kind = kind, !.stage = "asked"]

Live(copy) == copy.status \in LiveStatuses

(* A page as it is first shown: clock is the time since startedAt, age     *)
(* (history) the time since the polling window last began.                 *)
Blank(page, copy) ==
  [page |-> page, shown |-> copy, outcome |-> "idle", expired |-> FALSE, gaveUp |-> FALSE,
   clock |-> Unset, age |-> 0, notice |-> "idle", result |-> NoResult,
   prices |-> NoPrices, basket |-> [i \in Item |-> 0]]

RoomPage == [Blank("room", Draft) EXCEPT !.prices = rates]

ConsoleInit ==
  /\ now = 0
  /\ row = Draft
  /\ order = [createdAt |-> 0, items |-> <<>>, total |-> 0]
  /\ money = [status |-> "NONE", charged |-> FALSE, refunding |-> FALSE]
  /\ rates \in PriceLists
  /\ signedIn = TRUE
  /\ tab = RoomPage /\ kept = NoPage
  /\ call = Idle /\ polls = {}
  /\ presses = 0 /\ mine = FALSE /\ astray = FALSE

Press == presses < MaxPresses /\ presses' = presses + 1

-----------------------------------------------------------------------------
(* The screen's effects. *)

waiting(t) == t.shown.status = "PENDING_PAYMENT"

(* Slip: only after a pay of its own does the screen ask. *)
Polling_AfterOwnPay(t) ==
  t.page = "checkout" /\ waiting(t) /\ ~t.gaveUp /\ t.outcome = "accepted"

Polling(t) == t.page = "checkout" /\ waiting(t) /\ ~t.gaveUp

(* The countdown calls onExpire once the shown deadline has passed, and    *)
(* expiredLocally is never taken back.                                     *)
Countdown(t, at) ==
  IF t.page = "checkout" /\ Live(t.shown) /\ at >= t.shown.expiresAt
  THEN [t EXCEPT !.expired = TRUE] ELSE t

(* The poll effect runs when waiting or gaveUp changed, and then           *)
(* startedAt ??= Date.now().                                               *)
PollEffect(before, t) ==
  IF Polling(t) /\ ~Polling(before) /\ t.clock = Unset
  THEN [t EXCEPT !.clock = 0, !.age = 0] ELSE t

Committed(before, t, at) == PollEffect(before, Countdown(t, at))

(* Slip: the give-up flag is cleared and the clock is not. *)
Rendered_KeepsClock(t, copy) ==
  LET shows == [t EXCEPT !.shown = copy] IN
  IF t.page = "checkout" /\ copy.status \notin TERMINAL
  THEN [shows EXCEPT !.gaveUp = FALSE, !.age = 0] ELSE shows

(* A freshly rendered booking wins, and in flight it restarts the window. *)
Rendered(t, copy) ==
  LET shows == [t EXCEPT !.shown = copy] IN
  IF t.page = "checkout" /\ copy.status \notin TERMINAL
  THEN [shows EXCEPT !.gaveUp = FALSE, !.clock = Unset, !.age = 0] ELSE shows

Mounted(page, copy, at) ==
  LET t == Blank(page, copy) IN Committed(Blank("none", Draft), t, at)

(* What GET /bookings/:id gives the page: the row, or no page without it. *)
Page(page, at) ==
  {Blank("failed", Draft)} \cup (IF signedIn THEN {Mounted(page, row, at)} ELSE {})

Up(n, top) == IF n < top THEN n + 1 ELSE n

(* What the console's route handler answers a poll asked now. *)
Reading == IF signedIn THEN row ELSE NoSession

(* A poll interval: the timer gives up past the ceiling, or asks again.    *)
(* The answer is what the row was when it was read.                        *)
Tick ==
  LET at == Up(now, MaxNow)
      ticked == Countdown([tab EXCEPT !.clock = IF @ = Unset THEN @ ELSE Up(@, POLL_CEILING + 1),
                                      !.age = IF waiting(tab) \/ tab.clock # Unset
                                              THEN Up(@, POLL_CEILING + 1) ELSE @], at) IN
  /\ now' = at
  /\ IF ~Polling(tab) THEN tab' = ticked /\ UNCHANGED polls
     ELSE IF ticked.clock # Unset /\ ticked.clock > POLL_CEILING
     THEN tab' = [ticked EXCEPT !.gaveUp = TRUE] /\ UNCHANGED polls
     ELSE /\ tab' = ticked
          /\ polls' = IF Cardinality(polls) < MaxPolls THEN polls \cup {Reading} ELSE polls
  /\ UNCHANGED <<server, session, call, presses, paid>>

(* "Re-read the booking" and "Check again". *)
Refresh ==
  /\ tab.page = "checkout" /\ Cardinality(polls) < MaxPolls
  /\ \/ tab.shown.status \notin TERMINAL /\ tab.outcome = "conflict"
     \/ waiting(tab) /\ tab.gaveUp /\ tab.outcome \in {"idle", "accepted", "replayed"}
  /\ Press
  /\ polls' = polls \cup {Reading}
  /\ UNCHANGED <<now, server, session, tab, call, paid>>

(* Answers come in any order: several polls may be under way. *)
PollAnswered(copy) ==
  /\ copy \in polls \ {NoSession}
  /\ polls' = polls \ {copy}
  /\ tab' = Committed(tab, [tab EXCEPT !.shown = copy], now)
  /\ UNCHANGED <<now, server, session, call, presses, paid>>

(* 401: to the login page, and back from there. *)
PollRefused ==
  /\ NoSession \in polls
  /\ polls' = {} /\ tab' = Blank("login", Draft)
  /\ UNCHANGED <<now, server, session, call, presses, paid>>

(* The API does not answer, which the screen shows as pollError. *)
PollFailed(copy) ==
  /\ copy \in polls
  /\ polls' = polls \ {copy}
  /\ UNCHANGED <<now, server, session, tab, call, presses, paid>>

-----------------------------------------------------------------------------
(* Buttons. *)

holdIsUp(t) == t.expired /\ Live(t.shown)

Ask(kind) ==
  /\ call = Idle /\ Press
  /\ call' = Asked(kind)
  /\ UNCHANGED <<now, server, session, tab, polls, paid>>

PressPay ==
  /\ tab.page = "checkout"
  /\ \/ tab.shown.status = "HELD" /\ ~holdIsUp(tab)
     \/ waiting(tab)
  /\ Ask("pay")

PressExtend ==
  /\ tab.page = "checkout" /\ tab.shown.status = "HELD" /\ ~holdIsUp(tab)
  /\ tab.shown.rearm < MAX_HOLD_REARMS
  /\ Ask("extend")

PressCancel ==
  /\ tab.page = "detail" /\ tab.notice # "done"
  /\ tab.shown.status \in {"HELD", "PENDING_PAYMENT", "CONFIRMED"}
  /\ Ask("cancel")

(* The lines of the basket, at a price list. *)
Chosen(t, prices) ==
  [i \in {j \in Item : t.basket[j] > 0} |-> [rate |-> prices.items[i], quantity |-> t.basket[i]]]

PressHold ==
  /\ tab.page = "room" /\ Ask("hold")

(* The picker's number, at least one whatever was typed. *)
Quantities == 1..MaxQuantity

(* Asking twice for an item means the sum: the basket has one line for it. *)
AddItem(i, n) ==
  /\ tab.page = "room" /\ call = Idle /\ tab.basket[i] + n <= MaxQuantity
  /\ tab' = [tab EXCEPT !.basket[i] = @ + n]
  /\ UNCHANGED <<now, server, session, call, polls, presses, paid>>

RemoveItem(i) ==
  /\ tab.page = "room" /\ call = Idle /\ tab.basket[i] > 0
  /\ tab' = [tab EXCEPT !.basket[i] = 0]
  /\ UNCHANGED <<now, server, session, call, polls, presses, paid>>

(* Another page, or the same one anew: nothing is known there of what the   *)
(* last one asked for, and the answer to it is dropped.                     *)
Leave ==
  /\ call' = Idle /\ polls' = {}
  /\ mine' = FALSE /\ astray' = FALSE

(* Links and reloads. *)
Open(page) ==
  /\ row.status # "DRAFT" /\ Press /\ Leave
  /\ tab' \in Page(page, now)
  /\ kept' = IF tab'.page = "checkout" THEN row ELSE kept
  /\ UNCHANGED <<now, server, signedIn>>

(* Back to the checkout page as the router has kept it. *)
Back ==
  /\ tab.page = "detail" /\ kept # NoPage /\ Press /\ Leave
  /\ tab' = Mounted("checkout", kept, now)
  /\ UNCHANGED <<now, server, session>>

(* The sign-in that comes back to where it started. *)
SignIn ==
  /\ tab.page \in {"login", "failed"} /\ ~signedIn /\ Leave
  /\ signedIn' = TRUE
  /\ tab' = Mounted("checkout", row, now) /\ kept' = row
  /\ UNCHANGED <<now, server, presses>>

SessionEnds ==
  /\ signedIn /\ signedIn' = FALSE
  /\ Press  \* bound
  /\ UNCHANGED <<now, server, tab, kept, call, polls, paid>>

-----------------------------------------------------------------------------
(* The API's answers.  One that gets lost after the work is done looks the  *)
(* same as one to a request that never arrived.                             *)

Reply(outcome) == call' = [call EXCEPT !.stage = "served", !.reply = outcome]

Untouched == UNCHANGED <<row, order, money, paid>>

(* pay: a lapsed hold's move to EXPIRED is rolled back with the 409. *)
Payable ==
  \/ row.status = "HELD" /\ now < row.expiresAt
  \/ row.status = "PENDING_PAYMENT"

settled == money.status \notin {"NONE", "PENDING"}

(* The pending payment and the move to PENDING_PAYMENT are on record; the   *)
(* provider was asked afterwards and may have the charge.                   *)
PayRecorded ==
  /\ Payable /\ ~settled
  /\ row' = [row EXCEPT !.status = "PENDING_PAYMENT"]
  /\ \E charged \in {money.charged, TRUE} :
       money' = [money EXCEPT !.status = "PENDING", !.charged = charged]

(* Besides a row that is past paying, a 409 comes of a pay of somebody      *)
(* else's between the read of the row and its lock.                         *)
ServePay ==
  \/ /\ Reply("no_answer")
     /\ UNCHANGED <<row, order, money, mine>>
     /\ astray' \in {astray} \cup (IF signedIn THEN {TRUE} ELSE {})
  \/ ~signedIn /\ Untouched /\ Reply("error")
  \/ signedIn /\ settled /\ Untouched /\ Reply("replayed")
  \/ /\ signedIn /\ ~(row.status = "HELD" /\ Payable)
     /\ Untouched /\ Reply("conflict")
  \/ /\ signedIn /\ PayRecorded
     /\ \E outcome \in {"transient", "no_answer"}
                        \cup (IF money'.charged THEN {"accepted"} ELSE {}) : Reply(outcome)
     /\ mine' = TRUE /\ UNCHANGED <<order, astray>>

(* The console gives up on a request; that does not stop the API. *)
LatePay ==
  /\ astray /\ PayRecorded
  /\ mine' = TRUE /\ astray' = FALSE
  /\ UNCHANGED <<now, order, rates, session, tab, call, polls, presses>>

Least(a, b) == IF a < b THEN a ELSE b

(* checkout *)
Rearmable == Live(row) /\ now < row.expiresAt /\ row.rearm < MAX_HOLD_REARMS
             /\ now < order.createdAt + MAX_HOLD_LIFETIME

Rearmed ==
  /\ Rearmable
  /\ row' = [row EXCEPT !.rearm = @ + 1,
                        !.expiresAt = Least(now + CHECKOUT_REARM,
                                            order.createdAt + MAX_HOLD_LIFETIME)]

ServeExtend ==
  \/ Untouched /\ Reply("unreachable")
  \/ ~(signedIn /\ Rearmable) /\ Untouched /\ Reply("refused")
  \/ /\ signedIn /\ Rearmed
     /\ UNCHANGED <<order, money, paid>>
     /\ \E outcome \in {"ok", "unreachable"} : Reply(outcome)

(* hold: priced from the venue's rows, for as many units as the form says; *)
(* refused when somebody (this customer, perhaps) has the slot.             *)
ServeHold ==
  LET items == Chosen(tab, rates) IN
  \/ Untouched /\ Reply("unreachable")
  \/ ~signedIn /\ Untouched /\ Reply("error")
  \/ signedIn /\ Untouched /\ Reply("conflict")
  \/ /\ signedIn /\ row.status = "DRAFT"
     /\ row' = [row EXCEPT !.status = "HELD", !.expiresAt = now + HOLD_TTL]
     /\ order' = [createdAt |-> now, items |-> items,
                  total |-> totalMinor(HalfHours, rates.room, items)]
     /\ UNCHANGED <<money, paid>>
     /\ \E outcome \in {"done", "unreachable"} : Reply(outcome)

(* cancel, first the state and then, in a transaction of its own, the money. *)
ServeCancel ==
  \/ Untouched /\ Reply("unreachable")
  \/ ~signedIn /\ Untouched /\ Reply("error")
  \/ signedIn /\ ~isLegalTransition(row.status, "CANCELLED") /\ Untouched /\ Reply("conflict")
  \/ /\ signedIn /\ isLegalTransition(row.status, "CANCELLED")
     /\ row' = [row EXCEPT !.status = "CANCELLED"]
     /\ call' = [call EXCEPT !.stage = "settling"]
     /\ UNCHANGED <<order, money, paid>>

(* The booking as both refund computations take it from a copy of the row. *)
Priced(copy) == [halfHours |-> HalfHours, items |-> order.items, total |-> order.total,
                 terms |-> copy.terms]

Settle ==
  LET due == money.status = "SUCCEEDED" /\ ~money.refunding /\ row.terms # <<>>
      refund == IF due THEN {computeRefund(Priced(row), StartsAt, now)} ELSE {} IN
  /\ call.kind = "cancel" /\ call.stage = "settling"
  /\ money' = [money EXCEPT !.refunding = @ \/ due]
  /\ \E outcome \in {"done", "unreachable"} :
       call' = [call EXCEPT !.stage = "served", !.reply = outcome,
                            !.result = [refund |-> refund, at |-> now]]
  /\ UNCHANGED <<now, row, order, rates, session, tab, polls, presses, paid>>

Serve ==
  /\ call # Idle /\ call.stage = "asked"
  /\ CASE call.kind = "pay" -> ServePay
       [] call.kind = "extend" -> ServeExtend
       [] call.kind = "hold" -> ServeHold
       [] call.kind = "cancel" -> ServeCancel
  /\ UNCHANGED <<now, rates, session, tab, polls, presses>>

(* revalidatePath: which answers bring the page with them, action by action. *)

(* Slip: a charge that was accepted does not refresh the page. *)
PayRevalidates_OnConflict(reply) == reply = "conflict"

PayRevalidates(reply) == reply \in {"accepted", "replayed", "conflict"}
ExtendRevalidates(reply) == reply # "unreachable"
CancelRevalidates(reply) == reply # "unreachable"
HoldRedirects(reply) == reply = "done"

Revalidates(kind, reply) ==
  CASE kind = "pay" -> PayRevalidates(reply)
    [] kind = "extend" -> ExtendRevalidates(reply)
    [] kind = "cancel" -> CancelRevalidates(reply)
    [] kind = "hold" -> HoldRedirects(reply)

Render ==
  /\ call # Idle /\ call.stage = "served" /\ Revalidates(call.kind, call.reply)
  /\ \E copy \in {NoPage} \cup (IF signedIn THEN {row} ELSE {}) :
       call' = [call EXCEPT !.stage = "rendered", !.copy = copy]
  /\ UNCHANGED <<now, server, session, tab, polls, presses, paid>>

(* The action's state, as the form hook keeps it for the screen. *)
Answered(t) ==
  CASE call.kind = "pay" -> [t EXCEPT !.outcome = call.reply]
    [] call.kind = "extend" -> t
    [] call.kind = "hold" -> [t EXCEPT !.notice = call.reply]
    [] call.kind = "cancel" ->
         [t EXCEPT !.notice = call.reply,
                   !.result = IF call.reply = "done" THEN call.result ELSE @]

(* What the router keeps of the checkout page once an action has purged it. *)
Recached == kept' = IF tab.page = "login" \/ call.kind = "cancel" THEN NoPage ELSE call.copy

(* An answer that finds its page gone to the login is dropped. *)
Deliver ==
  /\ call # Idle
  /\ \/ /\ call.stage = "served" /\ ~Revalidates(call.kind, call.reply)
        /\ tab' = (IF tab.page = "login" THEN tab ELSE Answered(tab))
        /\ UNCHANGED <<polls, kept>>
     \/ /\ call.stage = "rendered" /\ tab.page = "login"
        /\ Recached /\ UNCHANGED <<tab, polls>>
     \/ /\ call.stage = "rendered" /\ tab.page # "login" /\ Recached
        /\ IF call.copy = NoPage THEN tab' = Blank("failed", Draft) /\ polls' = {}
           ELSE /\ tab' = IF call.kind = "hold" THEN Mounted("checkout", call.copy, now)
                          ELSE Committed(tab, Rendered(Answered(tab), call.copy), now)
                /\ UNCHANGED polls
  /\ call' = Idle
  /\ UNCHANGED <<now, server, signedIn, presses, paid>>

-----------------------------------------------------------------------------
(* What happens to the booking without this page: the customer's other      *)
(* devices and the requests of pages that were left, the sweeper, the       *)
(* webhooks, the venue.                                                     *)

ElsewhereUnchanged == UNCHANGED <<now, order, rates, session, tab, call, polls, presses, paid>>

PaidElsewhere ==
  /\ PayRecorded /\ ElsewhereUnchanged

RearmedElsewhere ==
  /\ Rearmed
  /\ Press  \* bound
  /\ UNCHANGED <<now, order, money, rates, session, tab, call, polls, paid>>

CancelledElsewhere ==
  /\ isLegalTransition(row.status, "CANCELLED")
  /\ row' = [row EXCEPT !.status = "CANCELLED"]
  /\ UNCHANGED money /\ ElsewhereUnchanged

(* The second half of such a cancellation. *)
RefundedElsewhere ==
  /\ row.status = "CANCELLED" /\ row.terms # <<>>
  /\ money.status = "SUCCEEDED" /\ ~money.refunding
  /\ call.stage # "settling"
  /\ money' = [money EXCEPT !.refunding = TRUE]
  /\ UNCHANGED row /\ ElsewhereUnchanged

Swept ==
  /\ row.status = "HELD" /\ now >= row.expiresAt
  /\ row' = [row EXCEPT !.status = "EXPIRED"]
  /\ UNCHANGED money /\ ElsewhereUnchanged

(* The webhook: captured in time, captured too late, or failed. *)
OutcomeApplied ==
  /\ row.status = "PENDING_PAYMENT" /\ money.charged
  /\ \/ /\ now < row.expiresAt
        /\ \E l \in Ladders : row' = [row EXCEPT !.status = "CONFIRMED", !.terms = l]
        /\ money' = [money EXCEPT !.status = "SUCCEEDED"]
     \/ /\ now >= row.expiresAt
        /\ row' = [row EXCEPT !.status = "EXPIRED"]
        /\ money' = [money EXCEPT !.status = "SUCCEEDED", !.refunding = TRUE]
     \/ /\ row' = [row EXCEPT !.status = "FAILED"]
        /\ money' = [money EXCEPT !.status = "FAILED"]
  /\ ElsewhereUnchanged

RefundSettled ==
  /\ money.refunding /\ money.status = "SUCCEEDED"
  /\ money' = [money EXCEPT !.status = "REFUNDED"]
  /\ row' = IF row.status = "CANCELLED" THEN [row EXCEPT !.status = "REFUNDED"] ELSE row
  /\ ElsewhereUnchanged

Reprice ==
  /\ \E r \in PriceLists \ {rates} : rates' = r
  /\ row.status = "DRAFT"  \* bound: a held booking has its prices already
  /\ UNCHANGED <<now, row, order, money, session, tab, call, polls, presses, paid>>

-----------------------------------------------------------------------------
Customer ==
  \/ PressPay \/ PressExtend \/ PressCancel \/ PressHold \/ Refresh \/ SignIn \/ Back
  \/ \E i \in Item : RemoveItem(i) \/ \E n \in Quantities : AddItem(i, n)
  \/ \E page \in {"checkout", "detail"} : Open(page)

Elsewhere ==
  \/ PaidElsewhere \/ RearmedElsewhere \/ CancelledElsewhere \/ RefundedElsewhere
  \/ Swept \/ OutcomeApplied \/ RefundSettled \/ Reprice \/ SessionEnds

Action == Serve \/ Settle \/ Render \/ Deliver

ConsoleNext ==
  \/ Customer \/ Elsewhere \/ Action \/ LatePay \/ Tick
  \/ PollRefused \/ \E copy \in polls : PollAnswered(copy) \/ PollFailed(copy)

(* The tab's timer runs, an action comes to its end (the console gives up   *)
(* on an API that does not answer), and of the polls asked again and again  *)
(* some are answered.                                                       *)
ConsoleSpec ==
  /\ ConsoleInit /\ [][ConsoleNext]_vars
  /\ WF_vars(Tick) /\ WF_vars(Action)
  /\ SF_vars(PollRefused \/ \E copy \in polls : PollAnswered(copy))

-----------------------------------------------------------------------------
(* StateCard's last branch. *)
SaysUntouched(t) ==
  /\ t.page = "checkout" /\ t.shown.status = "HELD" /\ ~holdIsUp(t)
  /\ t.outcome \in {"idle", "accepted", "replayed"}

(* "Held. Nothing has been charged yet." is never what a page says once a   *)
(* pay asked for from it is on record, or is one the console gave up on and *)
(* the API may still execute, however its answer, the page it refreshes and *)
(* the polls came in (StateCard, payForBooking).  It is a promise of one    *)
(* page: one opened anew or brought back knows nothing of an earlier pay,   *)
(* and may well say so of a booking that an earlier page has paid for.      *)
HeldMeansUntouched == SaysUntouched(tab) /\ call = Idle => ~mine /\ ~astray

(* "Still pending after three minutes" is said only after a whole window    *)
(* since the last in-flight page: a retry after giving up gets a new one,   *)
(* and a late answer never shortens it (the two effects of CheckoutClient). *)
FullWindow == tab.gaveUp => tab.age > POLL_CEILING

(* The refund of a cancellation is the number the cancel panel computes     *)
(* from its copy for the moment it was cancelled (lib/refund.ts against     *)
(* refund-policy.ts).                                                       *)
QuoteHonoured ==
  tab.result.refund # {} => previewRefund(Priced(tab.shown), StartsAt, tab.result.at) = tab.result.refund

(* A hold costs what the booking panel estimated, unless the venue changed  *)
(* its prices after the page was loaded.                                    *)
EstimateIsThePrice ==
  [][row.status = "DRAFT" /\ row'.status = "HELD" /\ tab.prices = rates
       => order'.total = estimate(HalfHours, tab.prices.room, Chosen(tab, tab.prices))]_vars

(* A booking that settled while the checkout screen waits for it is seen to *)
(* settle, unless the screen has said that it stopped asking or the         *)
(* customer left it.                                                        *)
SettledIsShown ==
  (row.status \in TERMINAL /\ tab.page = "checkout" /\ tab.shown.status = "PENDING_PAYMENT")
    ~> (tab.shown.status \in TERMINAL \/ tab.gaveUp \/ tab.page # "checkout")

=============================================================================
