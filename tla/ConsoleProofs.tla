---------------------------- MODULE ConsoleProofs ----------------------------
(***************************************************************************)
(* Proofs about the console: what the screen says of money is true however *)
(* answers, polls and re-rendered pages are ordered, and the numbers it    *)
(* shows are those of the API.                                             *)
(***************************************************************************)
EXTENDS Console, SumsProofs, WellFoundedInduction

(* What is known of every copy of the booking, wherever it is under way. *)
Seen == Statuses \cup {"401", "failed"}
Time == Nat
Terms == Ladders \cup {<<>>}
Copy == [status : Seen, expiresAt : Time, rearm : Time, terms : Terms]

Pages == {"room", "checkout", "detail", "login", "failed"}
Replies == {"none", "idle", "accepted", "replayed", "conflict", "transient", "no_answer",
            "error", "unreachable", "refused", "ok", "done"}
Lines == UNION {[D -> [rate : Nat, quantity : Nat]] : D \in SUBSET Item}
Orders == [createdAt : Time, items : Lines, total : Nat]

(* What a cancellation comes to, and every number that could be. *)
Owed(terms, o, at) ==
  computeRefund([halfHours |-> HalfHours, items |-> o.items, total |-> o.total, terms |-> terms],
                StartsAt, at)
Amounts == {Owed(x[1], x[2], x[3]) : x \in Terms \X Orders \X Time}
Result == [refund : SUBSET Amounts, at : Time]
Prices == [room : Nat, items : [Item -> Nat]]
Clock == Nat \cup {Unset}
Basket == [Item -> Nat]
Tab == [page : Pages, shown : Copy, outcome : Replies, expired : BOOLEAN, gaveUp : BOOLEAN,
        clock : Clock, age : Time, notice : Replies, result : Result,
        prices : Prices, basket : Basket]
Kinds == {"none", "pay", "extend", "hold", "cancel"}
Stages == {"idle", "asked", "settling", "served", "rendered"}
Calls == [kind : Kinds, stage : Stages, reply : Replies, result : Result, copy : Copy]

Types == /\ now \in Time /\ row \in Copy /\ order \in Orders /\ rates \in Prices
         /\ mine \in BOOLEAN /\ astray \in BOOLEAN /\ kept \in Copy
         /\ tab \in Tab /\ call \in Calls /\ polls \subseteq Copy

(* Before there is a booking the tab is on the room page; afterwards an     *)
(* action belongs to the page it was started on, and polls to the checkout. *)
Places ==
  /\ row.status = "DRAFT" =>
       /\ tab.page = "room" /\ call.kind \in {"none", "hold"}
       /\ call.stage \in {"served", "rendered"} => call.reply # "done"
  /\ polls # {} => tab.page = "checkout"
  /\ call.kind \in {"pay", "extend"} => tab.page \in {"checkout", "login"}
  /\ call.kind = "cancel" => tab.page = "detail"
  /\ call.kind = "hold" => tab.page = "room"
  /\ call.kind = "none" <=> call.stage = "idle"
  /\ call.stage = "rendered" => Revalidates(call.kind, call.reply)
  /\ call.kind = "pay" /\ call.stage \in {"served", "rendered"} =>
       call.reply \in {"no_answer", "error", "replayed", "conflict", "transient", "accepted"}

Unpaid == {"DRAFT", "HELD"}

(* A copy that shows the booking paid for was read when it was; the row     *)
(* never goes back.                                                         *)
Later(copy) == copy.status \in Statuses \ Unpaid => row.status \notin Unpaid

(* The row is not a hold that a payment could still be made for. *)
Dead == row.status = "HELD" => row.expiresAt <= now

(* What the copies and the answers under way say of the booking. *)
Honest ==
  /\ Later(tab.shown) /\ Later(kept)
  /\ \A copy \in polls : Later(copy) /\ (copy.status = "HELD" => copy.expiresAt <= now)
  /\ call.stage = "rendered" => Later(call.copy)
  /\ tab.page = "checkout" /\ tab.outcome = "conflict" => Dead
  /\ row.status \in Unpaid => money.status = "NONE"

(* Answers of a pay that leave it open whether the booking was touched. *)
Unsure == {"transient", "no_answer", "error"}
Answering == call.kind = "pay" /\ call.stage \in {"served", "rendered"}
Doubt == tab.outcome \in Unsure \/ Answering
Suspect == tab.page = "checkout" /\ (mine \/ astray)

(* What an answered pay says, and what is still in doubt: as long as one may *)
(* come late, or once it is on record, a page that shows a running hold      *)
(* admits it, and so will the page that an extension brings.                 *)
Recorded ==
  /\ mine => row.status \notin Unpaid
  /\ mine \/ astray => tab.page # "room"
  /\ Answering /\ call.reply \in {"accepted", "replayed"} => row.status \notin Unpaid
  /\ Answering /\ call.reply = "conflict" => Dead
  /\ Answering /\ call.stage = "rendered" /\ call.copy.status = "HELD" => call.copy.expiresAt <= now
  /\ tab.page = "checkout" /\ astray => Doubt \/ Dead
  /\ Suspect /\ tab.shown.status = "HELD" /\ ~tab.expired => Doubt
  /\ Suspect /\ call.kind = "extend" /\ call.stage = "rendered" /\ call.copy.status = "HELD" =>
       tab.outcome \in Unsure \/ call.copy.expiresAt <= now

(* The time since the polling window began is at least what its clock says. *)
InWindow(t) == t.clock <= t.age /\ (t.gaveUp => t.age > POLL_CEILING)
Window == InWindow(tab)

(* A refund that was computed is that of the row as it is and will stay. *)
Gone == {"CANCELLED", "REFUNDED"}
Computed(result, r, o) == result.refund # {} =>
  /\ r.status \in Gone /\ r.terms # <<>>
  /\ result.refund = {Owed(r.terms, o, result.at)}

Quoted ==
  /\ call.stage = "settling" => call.kind = "cancel" /\ row.status \in Gone
  /\ Computed(tab.result, row, order) /\ Computed(call.result, row, order)
  /\ tab.result.refund # {} => tab.page = "detail" /\ tab.shown.terms = row.terms
  /\ call.stage = "rendered" /\ call.copy # NoPage
       /\ (tab.result.refund # {} \/ call.result.refund # {}) => call.copy.terms = row.terms

CInv == Types /\ Places /\ Honest /\ Recorded /\ Window /\ Quoted

(* How the row moves: never back, a hold that lapsed stays lapsed, and what *)
(* a cancellation is refunded by stays.                                     *)
Onward ==
  /\ row' \in Copy
  /\ row.status # "DRAFT" => row'.status # "DRAFT"
  /\ row.status \notin Unpaid => row'.status \notin Unpaid
  /\ row.status = "HELD" /\ Dead => Dead'
  /\ row.status \in Gone => row'.status \in Gone /\ row'.terms = row.terms

-----------------------------------------------------------------------------
(* Records, field by field. *)

(* Copies that are no booking's. *)
LEMMA PlainCopies ==
  /\ Draft \in Copy /\ Draft.status = "DRAFT" /\ Draft.terms = <<>>
  /\ NoSession \in Copy /\ NoSession.status = "401"
  /\ NoPage \in Copy /\ NoPage.status = "failed"
BY DEF Draft, NoSession, NoPage, Copy, Seen, Statuses, Time, Terms

(* No action, and no result. *)
LEMMA PlainCalls ==
  /\ NoResult \in Result /\ NoResult.refund = {}
  /\ Idle \in Calls /\ Idle.kind = "none" /\ Idle.stage = "idle" /\ Idle.result = NoResult
<1>1. NoResult \in Result /\ NoResult.refund = {}
  BY DEF NoResult, Result, Time
<1> QED BY <1>1, PlainCopies DEF Idle, Calls, Kinds, Stages, Replies

(* An action that was just asked for. *)
LEMMA AskedCalls ==
  ASSUME NEW kind \in Kinds
  PROVE  /\ Asked(kind) \in Calls /\ Asked(kind).kind = kind /\ Asked(kind).stage = "asked"
         /\ Asked(kind).result = NoResult
<1> HIDE DEF NoResult
<1> QED BY PlainCalls, PlainCopies DEF Asked, Idle, Calls, Kinds, Stages, Replies

(* A page as it is first shown. *)
LEMMA BlankIs ==
  ASSUME NEW page \in Pages, NEW copy \in Copy
  PROVE  LET t == Blank(page, copy) IN
         /\ t \in Tab /\ t.page = page /\ t.shown = copy /\ t.outcome = "idle"
         /\ t.expired = FALSE /\ t.gaveUp = FALSE /\ InWindow(t) /\ t.result = NoResult
<1>1. NoPrices \in Prices /\ [i \in Item |-> 0] \in Basket
  BY DEF NoPrices, Prices, Basket
<1>2. Unset \in Clock /\ Unset <= 0 /\ 0 \in Time
  BY DEF Unset, Clock, Time
<1> QED BY <1>1, <1>2, PlainCalls DEF Blank, Tab, Replies, InWindow

(* The countdown only ever sets its flag, and does so once it is due. *)
LEMMA CountdownIs ==
  ASSUME NEW t \in Tab, NEW at \in Time
  PROVE  LET u == Countdown(t, at) IN
         /\ u \in Tab /\ u.page = t.page /\ u.shown = t.shown /\ u.outcome = t.outcome
         /\ u.gaveUp = t.gaveUp /\ u.result = t.result /\ u.clock = t.clock /\ u.age = t.age
         /\ t.expired => u.expired
         /\ u.page = "checkout" /\ u.shown.status = "HELD" /\ u.shown.expiresAt <= at => u.expired
<1>1. t.shown.expiresAt \in Nat /\ at \in Nat
  BY DEF Tab, Copy, Time
<1>2. CASE t.page = "checkout" /\ Live(t.shown) /\ at >= t.shown.expiresAt
  BY <1>2 DEF Countdown, Tab
<1>3. CASE ~(t.page = "checkout" /\ Live(t.shown) /\ at >= t.shown.expiresAt)
  BY <1>1, <1>3 DEF Countdown, Live, LiveStatuses
<1> QED BY <1>2, <1>3

(* Starting a window moves its two clocks together. *)
LEMMA CommittedIs ==
  ASSUME NEW before, NEW t \in Tab, NEW at \in Time
  PROVE  LET u == Committed(before, t, at) IN
         /\ u \in Tab /\ u.page = t.page /\ u.shown = t.shown /\ u.outcome = t.outcome
         /\ u.gaveUp = t.gaveUp /\ u.result = t.result
         /\ t.expired => u.expired
         /\ u.page = "checkout" /\ u.shown.status = "HELD" /\ u.shown.expiresAt <= at => u.expired
         /\ InWindow(t) => InWindow(u)
<1> DEFINE c == Countdown(t, at)
<1>1. /\ c \in Tab /\ c.page = t.page /\ c.shown = t.shown /\ c.outcome = t.outcome
      /\ c.gaveUp = t.gaveUp /\ c.result = t.result /\ c.clock = t.clock /\ c.age = t.age
      /\ t.expired => c.expired
      /\ c.page = "checkout" /\ c.shown.status = "HELD" /\ c.shown.expiresAt <= at => c.expired
  BY CountdownIs
<1>2. Committed(before, t, at) = PollEffect(before, c)
  BY DEF Committed
<1>3. 0 \in Clock /\ 0 \in Time
  BY DEF Clock, Time
<1> HIDE DEF c
<1>4. CASE Polling(c) /\ ~Polling(before) /\ c.clock = Unset
  <2> DEFINE u == [c EXCEPT !.clock = 0, !.age = 0]
  <2>1. Committed(before, t, at) = u
    BY <1>2, <1>4 DEF PollEffect
  <2>2. /\ u \in Tab /\ u.page = c.page /\ u.shown = c.shown /\ u.outcome = c.outcome
        /\ u.gaveUp = c.gaveUp /\ u.result = c.result /\ u.clock = 0 /\ u.age = 0
        /\ u.expired = c.expired
    BY <1>1, <1>3 DEF Tab
  <2>3. InWindow(u)
    BY <1>4, <2>2 DEF Polling, InWindow
  <2> HIDE DEF u
  <2> QED BY <1>1, <2>1, <2>2, <2>3
<1>5. CASE ~(Polling(c) /\ ~Polling(before) /\ c.clock = Unset)
  BY <1>1, <1>2, <1>5 DEF PollEffect, InWindow
<1> QED BY <1>4, <1>5

(* A page that arrives fresh. *)
LEMMA MountedIs ==
  ASSUME NEW page \in Pages, NEW copy \in Copy, NEW at \in Time
  PROVE  LET t == Mounted(page, copy, at) IN
         /\ t \in Tab /\ t.page = page /\ t.shown = copy /\ t.outcome = "idle"
         /\ t.result = NoResult /\ InWindow(t)
<1> DEFINE t == Blank(page, copy)
           before == Blank("none", Draft)
           u == Committed(before, t, at)
<1>1. /\ t \in Tab /\ t.page = page /\ t.shown = copy /\ t.outcome = "idle"
      /\ t.result = NoResult /\ InWindow(t)
  BY BlankIs
<1>2. Mounted(page, copy, at) = u
  BY DEF Mounted
<1> HIDE DEF t, before
<1>3. /\ u \in Tab /\ u.page = t.page /\ u.shown = t.shown /\ u.outcome = t.outcome
      /\ u.result = t.result
      /\ InWindow(t) => InWindow(u)
  BY <1>1, CommittedIs
<1> HIDE DEF u
<1> QED BY <1>1, <1>2, <1>3

(* The page a server action brought back. *)
LEMMA RenderedIs ==
  ASSUME NEW t \in Tab, NEW copy \in Copy
  PROVE  LET u == Rendered(t, copy) IN
         /\ u \in Tab /\ u.page = t.page /\ u.shown = copy /\ u.outcome = t.outcome
         /\ u.result = t.result /\ u.expired = t.expired
         /\ InWindow(t) => InWindow(u)
<1>1. Unset \in Clock /\ 0 \in Time /\ Unset <= 0
  BY DEF Clock, Time, Unset
<1> DEFINE s == [t EXCEPT !.shown = copy]
<1>2. /\ s \in Tab /\ s.page = t.page /\ s.shown = copy /\ s.outcome = t.outcome
      /\ s.result = t.result /\ s.expired = t.expired
      /\ s.clock = t.clock /\ s.age = t.age /\ s.gaveUp = t.gaveUp
  BY DEF Tab
<1>3. Rendered(t, copy) = IF t.page = "checkout" /\ copy.status \notin TERMINAL
                          THEN [s EXCEPT !.gaveUp = FALSE, !.clock = Unset, !.age = 0] ELSE s
  BY DEF Rendered
<1> HIDE DEF s
<1>4. CASE t.page = "checkout" /\ copy.status \notin TERMINAL
  <2> DEFINE u == [s EXCEPT !.gaveUp = FALSE, !.clock = Unset, !.age = 0]
  <2>1. /\ u \in Tab /\ u.page = s.page /\ u.shown = s.shown /\ u.outcome = s.outcome
        /\ u.result = s.result /\ u.expired = s.expired /\ u.gaveUp = FALSE
        /\ u.clock = Unset /\ u.age = 0
    BY <1>1, <1>2 DEF Tab
  <2>2. Rendered(t, copy) = u
    BY <1>3, <1>4
  <2> HIDE DEF u
  <2>3. InWindow(u)
    BY <1>1, <2>1 DEF InWindow
  <2> QED BY <1>2, <2>1, <2>2, <2>3
<1>5. CASE ~(t.page = "checkout" /\ copy.status \notin TERMINAL)
  BY <1>2, <1>3, <1>5 DEF InWindow
<1> QED BY <1>4, <1>5

(* What an action's answer leaves on the screen. *)
LEMMA AnsweredIs ==
  ASSUME NEW t \in Tab, call \in Calls, call.kind # "none"
  PROVE  LET u == Answered(t) IN
         /\ u \in Tab /\ u.page = t.page /\ u.shown = t.shown /\ u.expired = t.expired
         /\ u.gaveUp = t.gaveUp /\ u.clock = t.clock /\ u.age = t.age
         /\ u.outcome = IF call.kind = "pay" THEN call.reply ELSE t.outcome
         /\ u.result = IF call.kind = "cancel" /\ call.reply = "done" THEN call.result ELSE t.result
<1>1. call.kind \in {"pay", "extend", "hold", "cancel"} /\ call.reply \in Replies /\ call.result \in Result
  BY DEF Calls, Kinds
<1>2. CASE call.kind = "pay"
  BY <1>1, <1>2 DEF Answered, Tab
<1>3. CASE call.kind = "extend"
  BY <1>3 DEF Answered
<1>4. CASE call.kind = "hold"
  BY <1>1, <1>4 DEF Answered, Tab
<1>5. CASE call.kind = "cancel"
  BY <1>1, <1>5 DEF Answered, Tab
<1> QED BY <1>1, <1>2, <1>3, <1>4, <1>5

-----------------------------------------------------------------------------
(* Moves of the row, with or without an answer of the API's. *)

(* A refund that was computed stays that of the row. *)
LEMMA ComputedStays ==
  ASSUME NEW result, NEW r, NEW s, NEW o, NEW p, Computed(result, r, o),
         r.status \in Gone => s.status \in Gone /\ s.terms = r.terms /\ p = o
  PROVE  Computed(result, s, p)
BY DEF Computed

(* Where a dead hold is, and where it stays so. *)
LEMMA DeadStays ==
  ASSUME CInv, Onward, tab.page = "checkout", Dead
  PROVE  Dead'
<1>1. row.status # "DRAFT"
  BY DEF CInv, Places
<1>2. CASE row.status = "HELD"
  BY <1>2 DEF Onward
<1>3. CASE row.status # "HELD"
  BY <1>1, <1>3 DEF Onward, Unpaid, Dead
<1> QED BY <1>2, <1>3

(* The row moves, while the tab and its action stand still: elsewhere, or   *)
(* by a pay of this page that comes late.                                   *)
LEMMA RowMoves ==
  ASSUME CInv, Onward, order' \in Orders, row.status # "DRAFT" => order' = order,
         UNCHANGED <<now, tab, polls, call, kept>>, rates' \in Prices,
         row'.status \in Unpaid => money'.status = "NONE",
         \/ UNCHANGED <<mine, astray>>
         \/ mine' = TRUE /\ astray /\ astray' = FALSE /\ row'.status \notin Unpaid
  PROVE  CInv'
<1>1. Types'
  BY DEF CInv, Types, Onward
<1>2. Places'
  BY DEF CInv, Places, Onward, Revalidates, PayRevalidates, ExtendRevalidates, CancelRevalidates, HoldRedirects
<1>3. tab.page = "checkout" /\ Dead => Dead'
  BY DeadStays
<1>4. Honest'
  BY <1>3 DEF CInv, Honest, Onward, Later
<1>5. Recorded'
  <2>1. Answering => tab.page \in {"checkout", "login"} /\ row.status # "DRAFT"
    BY DEF CInv, Places, Answering
  <2>2. Answering /\ call.reply = "conflict" => Dead'
    <3> SUFFICES ASSUME Answering, call.reply = "conflict"
                 PROVE  Dead'
      OBVIOUS
    <3>1. Dead /\ row.status # "DRAFT"
      BY <2>1 DEF CInv, Recorded
    <3>2. CASE row.status = "HELD"
      BY <3>1, <3>2 DEF Onward
    <3>3. CASE row.status # "HELD"
      BY <3>1, <3>3 DEF Onward, Unpaid, Dead
    <3> QED BY <3>2, <3>3
  <2>3. /\ Answering' <=> Answering
        /\ Doubt' <=> Doubt
        /\ Suspect' => Suspect
    BY DEF Answering, Doubt, Suspect
  <2>4. row.status \notin Unpaid => row'.status \notin Unpaid
    BY DEF Onward
  <2> QED BY <1>3, <2>2, <2>3, <2>4 DEF CInv, Recorded
<1>6. Window'
  BY DEF CInv, Window
<1>7. Quoted'
  <2>1. row.status \in Gone => row'.status \in Gone /\ row'.terms = row.terms /\ order' = order
    BY DEF Onward, Gone
  <2>2. Computed(tab'.result, row', order') /\ Computed(call'.result, row', order')
    BY <2>1, ComputedStays DEF CInv, Quoted
  <2>3. tab.result.refund # {} => row.status \in Gone
    BY DEF CInv, Quoted, Computed
  <2>4. call.result.refund # {} => row.status \in Gone
    BY DEF CInv, Quoted, Computed
  <2> QED BY <2>1, <2>2, <2>3, <2>4 DEF CInv, Quoted
<1> QED BY <1>1, <1>2, <1>4, <1>5, <1>6, <1>7 DEF CInv

(* The API answers, or a cancellation reaches its second transaction. *)
LEMMA AnswerMoves ==
  ASSUME CInv, Onward, order' \in Orders, row.status # "DRAFT" => order' = order,
         UNCHANGED <<now, tab, polls, rates, kept>>,
         call.stage = "asked", call' \in Calls, call'.kind = call.kind, call'.result = call.result,
         \/ call'.stage = "served"
         \/ call'.stage = "settling" /\ call.kind = "cancel" /\ row'.status \in Gone,
         row'.status \in Unpaid => money'.status = "NONE",
         \/ UNCHANGED <<mine, astray>>
         \/ /\ call.kind = "pay" /\ call'.stage = "served"
            /\ mine' \in BOOLEAN /\ astray' \in BOOLEAN /\ (mine' => row'.status \notin Unpaid),
         row'.status = "DRAFT" => call'.reply # "done",
         call.kind = "pay" => call'.reply \in
           {"no_answer", "error", "replayed", "conflict", "transient", "accepted"},
         call.kind = "pay" /\ call'.reply = "conflict" => Dead',
         call.kind = "pay" /\ call'.reply \in {"accepted", "replayed"} => row'.status \notin Unpaid
  PROVE  CInv'
<1>1. Types'
  BY DEF CInv, Types, Onward
<1>2. Places'
  BY DEF CInv, Places, Onward, Revalidates, PayRevalidates, ExtendRevalidates, CancelRevalidates, HoldRedirects
<1>3. tab.page = "checkout" /\ Dead => Dead'
  BY DeadStays
<1>4. Honest'
  BY <1>3 DEF CInv, Honest, Onward, Later
<1>5. Recorded'
  <2>1. row.status \notin Unpaid => row'.status \notin Unpaid
    BY DEF Onward
  <2>2. ~Answering /\ (Doubt => Doubt') /\ call'.stage # "rendered"
    BY DEF Answering, Doubt
  <2>3. CASE call.kind = "pay"
    <3>1. call'.stage = "served" /\ Answering' /\ Doubt' /\ tab.page # "room"
      BY <2>3 DEF CInv, Places, Answering, Doubt
    <3> QED BY <2>1, <2>2, <2>3, <3>1 DEF CInv, Recorded
  <2>4. CASE call.kind # "pay"
    <3>1. UNCHANGED <<mine, astray>> /\ ~Answering' /\ (Suspect' => Suspect)
      BY <2>4 DEF Answering, Suspect
    <3> QED BY <1>3, <2>1, <2>2, <3>1 DEF CInv, Recorded
  <2> QED BY <2>3, <2>4
<1>6. Window'
  BY DEF CInv, Window
<1>7. Quoted'
  <2>1. row.status \in Gone => row'.status \in Gone /\ row'.terms = row.terms /\ order' = order
    BY DEF Onward, Gone
  <2>2. Computed(tab'.result, row', order') /\ Computed(call'.result, row', order')
    BY <2>1, ComputedStays DEF CInv, Quoted
  <2>3. tab.result.refund # {} => row.status \in Gone
    BY DEF CInv, Quoted, Computed
  <2> QED BY <2>1, <2>2, <2>3 DEF CInv, Quoted
<1> QED BY <1>1, <1>2, <1>4, <1>5, <1>6, <1>7 DEF CInv

-----------------------------------------------------------------------------
(* What happens without this tab. *)

(* A pay is put on record: by this page, late, or by somebody else. *)
LEMMA PayMoves ==
  ASSUME CInv, PayRecorded, UNCHANGED <<now, order>>
  PROVE  Onward /\ row'.status = "PENDING_PAYMENT" /\ row.status # "DRAFT"
<1>1. row \in Copy /\ row.status \in {"HELD", "PENDING_PAYMENT"}
      /\ row' = [row EXCEPT !.status = "PENDING_PAYMENT"]
  BY DEF CInv, Types, PayRecorded, Payable
<1>2. row' \in Copy /\ row'.status = "PENDING_PAYMENT"
  BY <1>1 DEF Copy, Seen, Statuses
<1> QED BY <1>1, <1>2 DEF Onward, Dead, Unpaid, Gone

(* A hold's deadline is moved, while there is one. *)
LEMMA RearmMoves ==
  ASSUME CInv, Rearmed, UNCHANGED <<now, order>>
  PROVE  Onward /\ row'.status = row.status /\ row.status # "DRAFT"
<1> DEFINE deadline == Least(now + CHECKOUT_REARM, order.createdAt + MAX_HOLD_LIFETIME)
<1>1. row \in Copy /\ row.rearm \in Time /\ row.expiresAt \in Time /\ now \in Time
      /\ order.createdAt \in Time
  BY DEF CInv, Types, Copy, Orders
<1>2. deadline \in Time
  <2>1. CHECKOUT_REARM \in Nat /\ MAX_HOLD_LIFETIME \in Nat
    BY ConsoleAssumption DEF ConsoleAssumption
  <2> QED BY <1>1, <2>1 DEF Least, Time
<1>3. row' = [row EXCEPT !.rearm = row.rearm + 1, !.expiresAt = deadline]
  BY DEF Rearmed
<1> HIDE DEF deadline
<1>4. row.rearm + 1 \in Time
  BY <1>1 DEF Time
<1>5. row' \in Copy /\ row'.status = row.status
  BY <1>1, <1>2, <1>3, <1>4 DEF Copy
<1>6. row.status \in {"HELD", "PENDING_PAYMENT"} /\ now < row.expiresAt
  BY DEF Rearmed, Rearmable, Live, LiveStatuses
<1>7. row.status = "HELD" => ~Dead
  BY <1>1, <1>6 DEF Dead, Time
<1> QED BY <1>5, <1>6, <1>7 DEF Onward, Unpaid, Gone

(* Other devices, the sweeper, the webhooks, the venue and the session.     *)
LEMMA ElsewhereKeeps ==
  ASSUME CInv, Elsewhere
  PROVE  CInv'
<1>1. /\ row \in Copy /\ row.status \in Seen /\ row.expiresAt \in Time /\ row.rearm \in Time
      /\ row.terms \in Terms /\ (row.status \in Unpaid => money.status = "NONE")
  BY DEF CInv, Types, Copy, Honest
<1>2. order \in Orders /\ mine \in BOOLEAN /\ rates \in Prices
  BY DEF CInv, Types
<1>3. ASSUME NEW s \in Seen \ {"DRAFT", "HELD"}, row' = [row EXCEPT !.status = s],
             row.status \notin Gone \/ s \in Gone, UNCHANGED now
      PROVE  Onward /\ row'.status \notin Unpaid
  <2>1. row' \in Copy /\ row'.status = s /\ row'.terms = row.terms
    BY <1>1, <1>3 DEF Copy
  <2> QED BY <2>1, <1>3 DEF Onward, Dead, Unpaid
<1>11. ASSUME row' = row, UNCHANGED now
      PROVE  Onward
  BY <1>1, <1>11 DEF Onward, Dead
<1> DEFINE Still == UNCHANGED <<now, order, tab, polls, call, mine, astray, kept, rates>>
<1>12. ElsewhereUnchanged => Still
  BY DEF ElsewhereUnchanged, session, paid
<1>4. CASE PaidElsewhere
  <2>1. Still /\ PayRecorded
    BY <1>4, <1>12 DEF PaidElsewhere
  <2> QED BY <1>2, <2>1, PayMoves, RowMoves DEF Unpaid
<1>13. CASE RearmedElsewhere
  <2>1. Still /\ Rearmed /\ money' = money
    BY <1>13 DEF RearmedElsewhere, session, paid
  <2> QED BY <1>1, <1>2, <2>1, RearmMoves, RowMoves
<1>5. CASE CancelledElsewhere
  <2>1. Still
    BY <1>5, <1>12 DEF CancelledElsewhere
  <2> QED BY <1>2, <1>3, <1>5, <2>1, RowMoves DEF CancelledElsewhere, Seen, Statuses, Gone
<1>14. CASE RefundedElsewhere
  <2>1. Still /\ row' = row /\ row.status = "CANCELLED"
    BY <1>14, <1>12 DEF RefundedElsewhere
  <2> QED BY <1>2, <1>11, <2>1, RowMoves DEF Unpaid
<1>6. CASE Swept
  <2>1. Still
    BY <1>6, <1>12 DEF Swept
  <2> QED BY <1>2, <1>3, <1>6, <2>1, RowMoves DEF Swept, Seen, Statuses, Gone
<1>7. CASE OutcomeApplied
  <2>1. Still /\ row.status = "PENDING_PAYMENT"
    BY <1>7, <1>12 DEF OutcomeApplied
  <2>2. Onward /\ row'.status \notin Unpaid
    <3>1. CASE \E l \in Ladders : row' = [row EXCEPT !.status = "CONFIRMED", !.terms = l]
      <4>1. row' \in Copy /\ row'.status = "CONFIRMED"
        BY <1>1, <3>1 DEF Copy, Seen, Statuses, Terms
      <4> QED BY <2>1, <4>1 DEF Onward, Dead, Unpaid, Gone
    <3>2. CASE \E s \in {"EXPIRED", "FAILED"} : row' = [row EXCEPT !.status = s]
      BY <1>3, <2>1, <3>2 DEF Seen, Statuses, Gone
    <3> QED BY <1>7, <3>1, <3>2 DEF OutcomeApplied
  <2> QED BY <1>2, <2>1, <2>2, RowMoves
<1>8. CASE RefundSettled
  <2>1. Still /\ money.status = "SUCCEEDED"
    BY <1>8, <1>12 DEF RefundSettled
  <2>2. CASE row.status = "CANCELLED"
    BY <1>2, <1>3, <1>8, <2>1, <2>2, RowMoves DEF RefundSettled, Seen, Statuses, Gone
  <2>3. CASE row.status # "CANCELLED"
    <3>1. row' = row
      BY <1>8, <2>3 DEF RefundSettled
    <3> QED BY <1>1, <1>2, <1>11, <2>1, <3>1, RowMoves
  <2> QED BY <2>2, <2>3
<1>9. CASE Reprice
  <2>1. UNCHANGED <<now, row, order, money, tab, polls, call, mine, astray, kept>> /\ rates' \in Prices
    BY <1>9, ConsoleAssumption DEF Reprice, ConsoleAssumption, Prices, session, paid
  <2> QED BY <1>1, <1>2, <1>11, <2>1, RowMoves
<1>10. CASE SessionEnds
  <2>1. Still /\ row' = row /\ money' = money
    BY <1>10 DEF SessionEnds, server, paid
  <2> QED BY <1>1, <1>2, <1>11, <2>1, RowMoves
<1> QED BY <1>4, <1>5, <1>6, <1>7, <1>8, <1>9, <1>10, <1>13, <1>14 DEF Elsewhere

(* A pay that the console gave up on is executed after all. *)
LEMMA LatePayKeeps ==
  ASSUME CInv, LatePay
  PROVE  CInv'
<1>1. /\ UNCHANGED <<now, order, rates, tab, call, polls, kept>> /\ PayRecorded
      /\ mine' = TRUE /\ astray /\ astray' = FALSE
  BY DEF LatePay, session
<1>2. order \in Orders /\ rates \in Prices
  BY DEF CInv, Types
<1> QED BY <1>1, <1>2, PayMoves, RowMoves DEF Unpaid

-----------------------------------------------------------------------------
(* The API's answers. *)

(* Prices and quantities are numbers, and so is what they come to. *)
LEMMA LinesAdd ==
  ASSUME NEW items \in Lines
  PROVE  EquipmentTotal(HalfHours, items) \in Nat
<1> DEFINE lines == [i \in DOMAIN items |-> lineTotal(HalfHours, items[i])]
<1>1. PICK D \in SUBSET Item : items \in [D -> [rate : Nat, quantity : Nat]]
  BY DEF Lines
<1>2. IsFiniteSet(DOMAIN items) /\ HalfHours \in Nat
  BY <1>1, FS_Subset, ConsoleAssumption DEF ConsoleAssumption
<1>3. ASSUME NEW i \in DOMAIN items
      PROVE  lines[i] \in Nat
  <2>1. items[i].rate \in Nat /\ items[i].quantity \in Nat
    BY <1>1
  <2>2. HalfHours * items[i].rate \in Nat
    BY <1>2, <2>1
  <2>3. HalfHours * items[i].rate * items[i].quantity \in Nat
    BY <2>1, <2>2
  <2>4. lines[i] = (HalfHours * items[i].rate * items[i].quantity) \div 2
    BY DEF lineTotal
  <2> HIDE DEF lines
  <2> QED BY <2>3, <2>4
<1> HIDE DEF lines
<1>4. SumOver(lines, DOMAIN items) \in Nat
  BY <1>2, <1>3, SumIsNat
<1> QED BY <1>4 DEF EquipmentTotal, lines

(* The basket at a price list is lines that add up. *)
LEMMA ChosenAdds ==
  ASSUME NEW t \in Tab, NEW prices \in Prices
  PROVE  /\ Chosen(t, prices) \in Lines
         /\ totalMinor(HalfHours, prices.room, Chosen(t, prices)) \in Nat
<1> DEFINE items == Chosen(t, prices)
<1>1. items \in Lines
  <2>1. \A i \in Item : prices.items[i] \in Nat /\ t.basket[i] \in Nat
    BY DEF Prices, Tab, Basket
  <2>2. items \in [{j \in Item : t.basket[j] > 0} -> [rate : Nat, quantity : Nat]]
    BY <2>1 DEF Chosen
  <2> HIDE DEF items
  <2> QED BY <2>2 DEF Lines
<1> HIDE DEF items
<1>2. EquipmentTotal(HalfHours, items) \in Nat
  BY <1>1, LinesAdd
<1>3. prices.room * HalfHours \in Nat
  BY ConsoleAssumption DEF ConsoleAssumption, Prices
<1>4. totalMinor(HalfHours, prices.room, items) \in Nat
  BY <1>2, <1>3 DEF totalMinor
<1> QED BY <1>1, <1>4 DEF items

(* Each of the API's four handlers, answered, refused or lost. *)
LEMMA ServeKeeps ==
  ASSUME CInv, Serve
  PROVE  CInv'
<1>1. /\ row \in Copy /\ row.status \in Seen /\ row.expiresAt \in Time /\ row.rearm \in Time
      /\ row.terms \in Terms /\ now \in Time /\ (row.status \in Unpaid => money.status = "NONE")
  BY DEF CInv, Types, Copy, Honest
<1>2. /\ order \in Orders /\ mine \in BOOLEAN /\ astray \in BOOLEAN /\ rates \in Prices
      /\ call \in Calls /\ tab \in Tab /\ (mine => row.status \notin Unpaid)
  BY DEF CInv, Types, Recorded
<1>3. call.stage = "asked" /\ UNCHANGED <<now, tab, polls, rates, kept>> /\ call.kind # "none"
  BY DEF Serve, CInv, Places, session
<1>4. ASSUME NEW r \in Replies, Reply(r)
      PROVE  /\ call' \in Calls /\ call'.kind = call.kind /\ call'.result = call.result
             /\ call'.stage = "served" /\ call'.reply = r
  BY <1>2, <1>4 DEF Reply, Calls, Stages
<1>5. ASSUME Untouched
      PROVE  Onward /\ order' = order /\ UNCHANGED <<mine, astray, money>> /\ row' = row
  BY <1>1, <1>3, <1>5 DEF Untouched, Onward, Dead, paid
<1>6. row.status = "DRAFT" => call.kind \in {"none", "hold"}
  BY DEF CInv, Places
<1>7. CASE ServePay /\ call.kind = "pay"
  <2>1. ASSUME Untouched, NEW r \in {"error", "replayed", "conflict"}, Reply(r),
               r = "conflict" => ~(row.status = "HELD" /\ Payable), r = "replayed" => settled
        PROVE  CInv'
    <3>1. Onward /\ order' = order /\ UNCHANGED <<mine, astray, money>> /\ row' = row
      BY <1>5, <2>1
    <3>2. /\ call' \in Calls /\ call'.kind = call.kind /\ call'.result = call.result
          /\ call'.stage = "served" /\ call'.reply = r
      BY <1>4, <2>1 DEF Replies
    <3>3. r = "conflict" => Dead'
      BY <1>1, <1>3, <2>1, <3>1 DEF Payable, Dead, Time
    <3>4. r = "replayed" => row.status \notin Unpaid
      BY <1>1, <2>1 DEF settled
    <3> QED BY <1>1, <1>2, <1>3, <1>6, <1>7, <2>1, <3>1, <3>2, <3>3, <3>4, AnswerMoves
  <2>2. ASSUME UNCHANGED <<row, order, money, mine>>, astray' \in BOOLEAN, Reply("no_answer")
        PROVE  CInv'
    <3>1. Onward
      BY <1>1, <1>3, <2>2 DEF Onward, Dead
    <3>2. /\ call' \in Calls /\ call'.kind = call.kind /\ call'.result = call.result
          /\ call'.stage = "served" /\ call'.reply = "no_answer"
      BY <1>4, <2>2 DEF Replies
    <3> QED BY <1>1, <1>2, <1>3, <1>7, <2>2, <3>1, <3>2, AnswerMoves
  <2>3. ASSUME PayRecorded, mine' = TRUE, UNCHANGED <<order, astray>>,
               NEW r \in {"transient", "no_answer", "accepted"}, Reply(r)
        PROVE  CInv'
    <3>1. Onward /\ row'.status = "PENDING_PAYMENT" /\ row.status # "DRAFT"
      BY <1>3, <2>3, PayMoves
    <3>2. /\ call' \in Calls /\ call'.kind = call.kind /\ call'.result = call.result
          /\ call'.stage = "served" /\ call'.reply = r
      BY <1>4, <2>3 DEF Replies
    <3> QED BY <1>2, <1>3, <1>7, <2>3, <3>1, <3>2, AnswerMoves DEF Unpaid
  <2>4. CASE Reply("no_answer") /\ UNCHANGED <<row, order, money, mine>>
               /\ astray' \in {astray} \cup (IF signedIn THEN {TRUE} ELSE {})
    BY <1>2, <2>2, <2>4
  <2>5. CASE Untouched /\ Reply("error")
    BY <2>1, <2>5
  <2>6. CASE settled /\ Untouched /\ Reply("replayed")
    BY <2>1, <2>6
  <2>7. CASE ~(row.status = "HELD" /\ Payable) /\ Untouched /\ Reply("conflict")
    BY <2>1, <2>7
  <2>8. CASE PayRecorded /\ mine' = TRUE /\ UNCHANGED <<order, astray>>
               /\ \E r \in {"transient", "no_answer", "accepted"} : Reply(r)
    BY <2>3, <2>8
  <2> QED BY <1>7, <2>4, <2>5, <2>6, <2>7, <2>8 DEF ServePay
<1>8. CASE ServeExtend /\ call.kind = "extend"
  <2>1. ASSUME Untouched, NEW r \in {"unreachable", "refused"}, Reply(r)
        PROVE  CInv'
    <3>1. Onward /\ order' = order /\ UNCHANGED <<mine, astray, money>> /\ row' = row
      BY <1>5, <2>1
    <3>2. /\ call' \in Calls /\ call'.kind = call.kind /\ call'.result = call.result
          /\ call'.stage = "served" /\ call'.reply = r
      BY <1>4, <2>1 DEF Replies
    <3> QED BY <1>1, <1>2, <1>3, <1>6, <1>8, <3>1, <3>2, AnswerMoves
  <2>2. ASSUME Rearmed, UNCHANGED <<order, money, paid>>, NEW r \in {"ok", "unreachable"}, Reply(r)
        PROVE  CInv'
    <3>1. Onward /\ row'.status = row.status /\ row.status # "DRAFT"
      BY <1>3, <2>2, RearmMoves
    <3>2. /\ call' \in Calls /\ call'.kind = call.kind /\ call'.result = call.result
          /\ call'.stage = "served" /\ call'.reply = r
      BY <1>4, <2>2 DEF Replies
    <3>3. UNCHANGED <<mine, astray, money, order>>
      BY <2>2 DEF paid
    <3> QED BY <1>1, <1>2, <1>3, <1>8, <3>1, <3>2, <3>3, AnswerMoves
  <2> QED BY <1>8, <2>1, <2>2 DEF ServeExtend
<1>9. CASE ServeHold /\ call.kind = "hold"
  <2>1. ASSUME Untouched, NEW r \in {"unreachable", "error", "conflict"}, Reply(r)
        PROVE  CInv'
    <3>1. Onward /\ order' = order /\ UNCHANGED <<mine, astray, money>> /\ row' = row
      BY <1>5, <2>1
    <3>2. /\ call' \in Calls /\ call'.kind = call.kind /\ call'.result = call.result
          /\ call'.stage = "served" /\ call'.reply = r
      BY <1>4, <2>1 DEF Replies
    <3> QED BY <1>1, <1>2, <1>3, <1>9, <2>1, <3>1, <3>2, AnswerMoves
  <2>2. ASSUME row.status = "DRAFT", UNCHANGED <<money, paid>>, NEW r \in {"done", "unreachable"}, Reply(r),
               row' = [row EXCEPT !.status = "HELD", !.expiresAt = now + HOLD_TTL],
               order' = [createdAt |-> now, items |-> Chosen(tab, rates),
                         total |-> totalMinor(HalfHours, rates.room, Chosen(tab, rates))]
        PROVE  CInv'
    <3>1. now + HOLD_TTL \in Time
      BY <1>1, ConsoleAssumption DEF ConsoleAssumption, Time
    <3>2. row' \in Copy /\ row'.status = "HELD"
      BY <1>1, <2>2, <3>1 DEF Copy, Seen, Statuses
    <3>3. Onward
      BY <2>2, <3>2 DEF Onward, Gone, Unpaid
    <3>4. order' \in Orders
      BY <1>1, <1>2, <2>2, ChosenAdds DEF Orders
    <3>5. /\ call' \in Calls /\ call'.kind = call.kind /\ call'.result = call.result
          /\ call'.stage = "served" /\ call'.reply = r
      BY <1>4, <2>2 DEF Replies
    <3>6. UNCHANGED <<mine, astray, money>>
      BY <2>2 DEF paid
    <3> QED BY <1>1, <1>2, <1>3, <1>9, <2>2, <3>2, <3>3, <3>4, <3>5, <3>6, AnswerMoves DEF Unpaid
  <2> QED BY <1>9, <2>1, <2>2 DEF ServeHold
<1>10. CASE ServeCancel /\ call.kind = "cancel"
  <2>1. ASSUME Untouched, NEW r \in {"unreachable", "error", "conflict"}, Reply(r)
        PROVE  CInv'
    <3>1. Onward /\ order' = order /\ UNCHANGED <<mine, astray, money>> /\ row' = row
      BY <1>5, <2>1
    <3>2. /\ call' \in Calls /\ call'.kind = call.kind /\ call'.result = call.result
          /\ call'.stage = "served" /\ call'.reply = r
      BY <1>4, <2>1 DEF Replies
    <3> QED BY <1>1, <1>2, <1>3, <1>10, <3>1, <3>2, AnswerMoves
  <2>2. ASSUME isLegalTransition(row.status, "CANCELLED"), UNCHANGED <<order, money, paid>>,
               row' = [row EXCEPT !.status = "CANCELLED"],
               call' = [call EXCEPT !.stage = "settling"]
        PROVE  CInv'
    <3>1. row' \in Copy /\ row'.status = "CANCELLED"
      BY <1>1, <2>2 DEF Copy, Seen, Statuses
    <3>2. row.status \in {"HELD", "CONFIRMED"}
      BY <2>2 DEF isLegalTransition, LEGAL_TRANSITIONS
    <3>3. Onward /\ row'.status \in Gone
      BY <3>1, <3>2 DEF Onward, Dead, Unpaid, Gone
    <3>4. /\ call' \in Calls /\ call'.kind = call.kind /\ call'.result = call.result
          /\ call'.stage = "settling"
      BY <1>2, <2>2 DEF Calls, Stages
    <3>5. UNCHANGED <<mine, astray, money>>
      BY <2>2 DEF paid
    <3> QED BY <1>2, <1>3, <1>10, <2>2, <3>1, <3>3, <3>4, <3>5, AnswerMoves DEF Unpaid
  <2> QED BY <1>10, <2>1, <2>2 DEF ServeCancel
<1>11. call.kind \in {"pay", "extend", "hold", "cancel"}
  BY <1>2, <1>3 DEF Calls, Kinds
<1> QED BY <1>7, <1>8, <1>9, <1>10, <1>11 DEF Serve

(* The second transaction computes the refund from the row it locked. *)
LEMMA SettleKeeps ==
  ASSUME CInv, Settle
  PROVE  CInv'
<1>1. /\ UNCHANGED <<now, row, order, rates, tab, polls, mine, astray, kept>>
      /\ call.kind = "cancel" /\ call.stage = "settling" /\ call \in Calls /\ now \in Time
      /\ row \in Copy /\ order \in Orders /\ row.terms \in Terms
  BY DEF Settle, CInv, Types, Copy, session, paid
<1> DEFINE due == money.status = "SUCCEEDED" /\ ~money.refunding /\ row.terms # <<>>
           refund == IF due THEN {computeRefund(Priced(row), StartsAt, now)} ELSE {}
           result == [refund |-> refund, at |-> now]
<1>2. PICK r \in {"done", "unreachable"} :
        call' = [call EXCEPT !.stage = "served", !.reply = r, !.result = result]
  BY DEF Settle
<1>3. row.status \in Gone
  BY <1>1 DEF CInv, Quoted
<1>4. result \in Result /\ Computed(result, row, order)
  <2>1. CASE due
    <3>1. refund = {Owed(row.terms, order, now)}
      BY <2>1 DEF Owed, Priced
    <3>2. Owed(row.terms, order, now) \in Amounts
      <4>1. <<row.terms, order, now>> \in Terms \X Orders \X Time
        BY <1>1
      <4> QED BY <4>1 DEF Amounts
    <3> HIDE DEF refund
    <3> QED BY <1>1, <1>3, <2>1, <3>1, <3>2 DEF Result, Computed
  <2>2. CASE ~due
    BY <1>1, <2>2 DEF Computed, Result
  <2> QED BY <2>1, <2>2
<1> HIDE DEF result
<1>5. /\ call' \in Calls /\ call'.kind = "cancel" /\ call'.stage = "served" /\ call'.result = result
  BY <1>1, <1>2, <1>4 DEF Calls, Stages, Replies
<1>6. Types'
  BY <1>1, <1>5 DEF CInv, Types
<1>7. Places'
  BY <1>1, <1>5 DEF CInv, Places
<1>8. Honest'
  BY <1>1, <1>3, <1>5 DEF CInv, Honest, Later, Dead, Gone, Unpaid
<1>9. Recorded'
  BY <1>1, <1>5 DEF CInv, Recorded, Answering, Doubt, Suspect, Dead
<1>10. Window'
  BY <1>1 DEF CInv, Window
<1>11. Quoted'
  BY <1>1, <1>4, <1>5 DEF CInv, Quoted
<1> QED BY <1>6, <1>7, <1>8, <1>9, <1>10, <1>11 DEF CInv

(* The page is rendered from the row as it is by now. *)
LEMMA RenderKeeps ==
  ASSUME CInv, Render
  PROVE  CInv'
<1>1. /\ UNCHANGED <<now, row, order, money, rates, tab, polls, mine, astray, kept>> /\ row \in Copy
      /\ call.stage = "served" /\ call \in Calls /\ Revalidates(call.kind, call.reply)
  BY DEF Render, server, session, paid, CInv, Types
<1>2. PICK copy \in {NoPage, row} : call' = [call EXCEPT !.stage = "rendered", !.copy = copy]
  BY DEF Render
<1>3. /\ call' \in Calls /\ call'.kind = call.kind /\ call'.stage = "rendered"
      /\ call'.reply = call.reply /\ call'.result = call.result /\ call'.copy = copy
  BY <1>1, <1>2, PlainCopies DEF Calls, Stages
<1>4. Types'
  BY <1>1, <1>3 DEF CInv, Types
<1>5. Places'
  BY <1>1, <1>3 DEF CInv, Places, Revalidates, PayRevalidates, ExtendRevalidates,
                    CancelRevalidates, HoldRedirects
<1>6. Honest'
  BY <1>1, <1>2, <1>3, PlainCopies DEF CInv, Honest, Later, Dead, Unpaid, Statuses
<1>7. Recorded'
  <2>1. copy.status = "HELD" => copy = row
    BY <1>2, PlainCopies
  <2>2. Dead /\ copy.status = "HELD" => copy.expiresAt <= now
    BY <2>1 DEF Dead
  <2>3. Answering' <=> Answering
    BY <1>1, <1>3 DEF Answering
  <2>4. Answering => call.reply \in {"accepted", "replayed", "conflict"}
    BY <1>1 DEF Answering, Revalidates, PayRevalidates
  <2>5. Answering /\ copy.status = "HELD" => copy.expiresAt <= now
    BY <2>1, <2>2, <2>4 DEF CInv, Recorded, Unpaid
  <2>6. Suspect /\ call.kind = "extend" /\ copy.status = "HELD" =>
          tab.outcome \in Unsure \/ copy.expiresAt <= now
    <3>1. call.kind = "extend" => ~Answering
      BY DEF Answering
    <3>2. copy.status = "HELD" => ~mine
      BY <2>1 DEF CInv, Recorded, Unpaid
    <3> QED BY <2>2, <3>1, <3>2 DEF CInv, Recorded, Suspect, Doubt
  <2> QED BY <1>1, <1>3, <2>3, <2>5, <2>6 DEF CInv, Recorded, Doubt, Suspect, Dead
<1>8. Window'
  BY <1>1 DEF CInv, Window
<1>9. Quoted'
  BY <1>1, <1>2, <1>3 DEF CInv, Quoted
<1> QED BY <1>4, <1>5, <1>6, <1>7, <1>8, <1>9 DEF CInv

-----------------------------------------------------------------------------
(* The customer's moves and the screen's. *)

(* A button of the page the tab is on. *)
LEMMA AskKeeps ==
  ASSUME CInv, NEW kind \in {"pay", "extend", "cancel", "hold"}, Ask(kind),
         kind \in {"pay", "extend"} => tab.page = "checkout",
         kind = "cancel" => tab.page = "detail",
         kind = "hold" => tab.page = "room"
  PROVE  CInv'
<1>1. /\ UNCHANGED <<now, row, order, money, rates, tab, polls, mine, astray, kept>> /\ call = Idle
      /\ call' = Asked(kind)
  BY DEF Ask, server, session, paid
<1>2. /\ call' \in Calls /\ call'.kind = kind /\ call'.stage = "asked" /\ call'.result.refund = {}
      /\ call.kind = "none" /\ call.stage = "idle"
  BY <1>1, PlainCalls, AskedCalls DEF Kinds
<1>3. Types'
  BY <1>1, <1>2 DEF CInv, Types
<1>4. Places'
  BY <1>1, <1>2 DEF CInv, Places
<1>5. Honest'
  BY <1>1, <1>2 DEF CInv, Honest, Later, Dead
<1>6. Recorded'
  BY <1>1, <1>2 DEF CInv, Recorded, Answering, Doubt, Suspect, Dead
<1>7. Window'
  BY <1>1 DEF CInv, Window
<1>8. Quoted'
  BY <1>1, <1>2 DEF CInv, Quoted, Computed
<1> QED BY <1>3, <1>4, <1>5, <1>6, <1>7, <1>8 DEF CInv

(* A page stays: it may show another copy, and polls come and go. *)
LEMMA ScreenMoves ==
  ASSUME CInv, UNCHANGED <<row, order, money, rates, mine, astray, kept, call>>,
         now' \in Time, now' >= now,
         tab' \in Tab, tab'.page = tab.page, tab'.outcome = tab.outcome,
         tab'.result = tab.result, InWindow(tab'), tab.expired => tab'.expired,
         \/ tab'.shown = tab.shown
         \/ /\ tab.page = "checkout" /\ Later(tab'.shown)
            /\ tab'.shown.status = "HELD" => tab'.expired,
         polls' \subseteq Copy, polls' # {} => tab.page = "checkout",
         \A copy \in polls' : \/ copy \in polls
                              \/ Later(copy) /\ (copy.status = "HELD" => copy.expiresAt <= now)
  PROVE  CInv'
<1>1. /\ \A copy \in Copy : copy.expiresAt \in Nat
      /\ now \in Nat /\ now' \in Nat /\ row \in Copy
  BY DEF CInv, Types, Copy, Time
<1>2. Types'
  BY DEF CInv, Types
<1>3. Places'
  BY DEF CInv, Places
<1>4. Honest'
  <2> DEFINE Fine(copy, s, n) == /\ copy.status \in Statuses \ Unpaid => s.status \notin Unpaid
                                 /\ copy.status = "HELD" => copy.expiresAt <= n
  <2>1. Later(tab'.shown)
    BY DEF CInv, Honest
  <2>2. tab'.shown.status \in Statuses \ Unpaid => row'.status \notin Unpaid
    BY <2>1 DEF Later
  <2>3. Dead => Dead'
    <3>1. row.expiresAt \in Nat
      BY <1>1
    <3> QED BY <1>1, <3>1 DEF Dead
  <2>4. \A copy \in polls' : Fine(copy, row', now')
    <3> SUFFICES ASSUME NEW copy \in polls'
                 PROVE  Fine(copy, row', now')
      OBVIOUS
    <3>1. Fine(copy, row, now)
      BY DEF CInv, Honest, Later
    <3>2. copy.expiresAt \in Nat
      BY <1>1
    <3> QED BY <1>1, <3>1, <3>2
  <2> QED BY <2>2, <2>3, <2>4 DEF CInv, Honest, Later
<1>5. Recorded'
  <2>1. (Answering' <=> Answering) /\ (Doubt' <=> Doubt) /\ (Suspect' <=> Suspect)
    BY DEF Answering, Doubt, Suspect
  <2>2. Dead => Dead'
    <3>1. row.expiresAt \in Nat
      BY <1>1
    <3> QED BY <1>1, <3>1 DEF Dead
  <2>3. call.copy.expiresAt <= now => call.copy.expiresAt <= now'
    <3>1. call.copy.expiresAt \in Nat
      BY <1>1 DEF CInv, Types, Calls
    <3> QED BY <1>1, <3>1
  <2> QED BY <2>1, <2>2, <2>3 DEF CInv, Recorded
<1>6. Window'
  BY DEF Window
<1>7. Quoted'
  BY DEF CInv, Quoted
<1> QED BY <1>2, <1>3, <1>4, <1>5, <1>6, <1>7 DEF CInv

(* A page is left or comes back: without an answer of its own, or with it. *)
LEMMA PageMoves ==
  ASSUME CInv, UNCHANGED <<now, row, order, money, rates>>, tab' \in Tab, InWindow(tab'),
         mine' \in BOOLEAN, astray' \in BOOLEAN, mine' => mine, astray' => astray,
         kept' \in Copy, Later(kept'),
         row.status = "DRAFT" => tab'.page = "room",
         polls' \subseteq polls, polls' # {} => tab'.page = "checkout",
         Later(tab'.shown),
         tab'.page = "checkout" /\ tab'.outcome = "conflict" => Dead,
         mine' \/ astray' => tab'.page # "room",
         tab'.page = "checkout" /\ astray' => tab'.outcome \in Unsure \/ Dead,
         Suspect' /\ tab'.shown.status = "HELD" /\ ~tab'.expired => tab'.outcome \in Unsure,
         Computed(tab'.result, row, order),
         tab'.result.refund # {} => tab'.page = "detail" /\ tab'.shown.terms = row.terms,
         \/ call' = Idle
         \/ /\ call' = call /\ call.kind \notin {"cancel", "hold"}
            /\ call.kind \in {"pay", "extend"} => tab'.page \in {"checkout", "login"}
            /\ tab'.result.refund = {} /\ tab'.page # "checkout"
  PROVE  CInv'
<1>1. call' \in Calls /\ Computed(call'.result, row, order)
  BY PlainCalls DEF CInv, Types, Quoted, Computed
<1>2. \/ /\ call'.kind = "none" /\ call'.stage = "idle"
      \/ /\ call' = call /\ call.kind \notin {"cancel", "hold"}
         /\ call.kind \in {"pay", "extend"} => tab'.page \in {"checkout", "login"}
  <2> HIDE DEF Idle
  <2> QED BY PlainCalls
<1>3. Types'
  BY <1>1 DEF CInv, Types
<1>4. Places'
  BY <1>2 DEF CInv, Places
<1>5. Honest'
  BY <1>2 DEF CInv, Honest, Later, Dead
<1>6. Recorded'
  <2>1. Dead' <=> Dead
    BY DEF Dead
  <2>2. CASE call'.kind = "none" /\ call'.stage = "idle"
    BY <2>1, <2>2 DEF CInv, Recorded, Answering, Doubt
  <2>3. CASE call' = call /\ tab'.page # "checkout"
    BY <2>1, <2>3 DEF CInv, Recorded, Answering, Suspect
  <2>4. \/ call'.kind = "none" /\ call'.stage = "idle"
        \/ call' = call /\ tab'.page # "checkout"
    <3> HIDE DEF Idle
    <3> QED BY PlainCalls
  <2> QED BY <2>2, <2>3, <2>4
<1>7. Window'
  BY DEF Window
<1>8. Quoted'
  <2>1. CASE call' = Idle
    BY <1>1, <2>1, PlainCalls DEF Quoted
  <2>2. CASE call' = call /\ tab'.result.refund = {}
    BY <1>1, <2>2 DEF CInv, Quoted
  <2> QED BY <2>1, <2>2
<1> QED BY <1>3, <1>4, <1>5, <1>6, <1>7, <1>8 DEF CInv

(* Buttons, links, the basket and the sign-in. *)
LEMMA CustomerKeeps ==
  ASSUME CInv, Customer
  PROVE  CInv'
<1>1. /\ row \in Copy /\ now \in Time /\ now \in Nat /\ tab \in Tab /\ call \in Calls
      /\ polls \subseteq Copy /\ rates \in Prices /\ InWindow(tab)
  BY DEF CInv, Types, Window, Time
<1>2. CASE PressPay
  BY <1>2, AskKeeps DEF PressPay
<1>3. CASE PressExtend
  BY <1>3, AskKeeps DEF PressExtend
<1>4. CASE PressCancel
  BY <1>4, AskKeeps DEF PressCancel
<1>5. CASE PressHold
  BY <1>5, AskKeeps DEF PressHold
<1>6. CASE Refresh
  <2>1. /\ UNCHANGED <<row, order, money, rates, mine, astray, kept, call, now, tab>>
        /\ tab.page = "checkout"
        /\ polls' = polls \cup {Reading}
        /\ tab.outcome = "conflict" \/ waiting(tab)
    BY <1>6 DEF Refresh, server, session, paid
  <2>2. Reading \in Copy /\ Reading \in {row, NoSession}
    BY <1>1, PlainCopies DEF Reading
  <2>3. Later(Reading) /\ (Reading.status = "HELD" => Reading.expiresAt <= now)
    <3>1. Later(row) /\ ~(NoSession.status \in Statuses \ Unpaid) /\ NoSession.status # "HELD"
      BY PlainCopies DEF Later, Statuses
    <3>2. row.status = "HELD" => row.expiresAt <= now
      <4>1. CASE tab.outcome = "conflict"
        BY <2>1, <4>1 DEF CInv, Honest, Dead
      <4>2. CASE waiting(tab)
        BY <2>1, <4>2 DEF CInv, Honest, Later, waiting, Statuses, Unpaid
      <4> QED BY <2>1, <4>1, <4>2
    <3> QED BY <2>2, <3>1, <3>2 DEF Later
  <2> HIDE DEF Reading
  <2> QED BY <1>1, <2>1, <2>2, <2>3, ScreenMoves
<1>7. ASSUME Leave, UNCHANGED <<now, row, order, money, rates>>, row.status # "DRAFT",
             tab' \in Tab, tab'.page # "room", tab'.outcome = "idle", tab'.result = NoResult,
             InWindow(tab'), Later(tab'.shown), kept' \in Copy, Later(kept')
      PROVE  CInv'
  <2>1. call' = Idle /\ polls' = {} /\ mine' = FALSE /\ astray' = FALSE
    BY <1>7 DEF Leave
  <2> HIDE DEF Idle
  <2> QED BY <1>7, <2>1, PageMoves, PlainCalls DEF Computed, Suspect
<1>8. kept \in Copy /\ Later(kept) /\ Later(row)
  BY DEF CInv, Types, Honest, Later
<1>11. CASE SignIn
  <2>1. /\ UNCHANGED <<now, row, order, money, rates>> /\ Leave /\ kept' = row
        /\ tab.page \in {"login", "failed"} /\ tab' = Mounted("checkout", row, now)
    BY <1>11 DEF SignIn, server
  <2>2. /\ tab' \in Tab /\ tab'.page = "checkout" /\ tab'.shown = row /\ tab'.outcome = "idle"
        /\ tab'.result = NoResult /\ InWindow(tab')
    BY <1>1, <2>1, MountedIs DEF Pages
  <2>3. row.status # "DRAFT"
    BY <2>1 DEF CInv, Places
  <2> QED BY <1>1, <1>7, <1>8, <2>1, <2>2, <2>3
<1>12. CASE Back
  <2>1. /\ UNCHANGED <<now, row, order, money, rates, kept>> /\ Leave
        /\ tab.page = "detail" /\ tab' = Mounted("checkout", kept, now)
    BY <1>12 DEF Back, server, session
  <2>2. /\ tab' \in Tab /\ tab'.page = "checkout" /\ tab'.shown = kept /\ tab'.outcome = "idle"
        /\ tab'.result = NoResult /\ InWindow(tab')
    BY <1>1, <1>8, <2>1, MountedIs DEF Pages
  <2>3. row.status # "DRAFT"
    BY <2>1 DEF CInv, Places
  <2> QED BY <1>7, <1>8, <2>1, <2>2, <2>3
<1>13. ASSUME NEW page \in {"checkout", "detail"}, Open(page)
       PROVE  CInv'
  <2>1. /\ UNCHANGED <<now, row, order, money, rates>> /\ Leave /\ kept' \in {row, kept}
        /\ row.status # "DRAFT"
        /\ tab' \in {Blank("failed", Draft), Mounted(page, row, now)}
    BY <1>13 DEF Open, Page, server
  <2>2. /\ tab' \in Tab /\ tab'.page \in {"failed", page} /\ tab'.shown \in {Draft, row}
        /\ tab'.outcome = "idle" /\ tab'.result = NoResult /\ InWindow(tab')
    <3>1. CASE tab' = Blank("failed", Draft)
      BY <3>1, BlankIs, PlainCopies DEF Pages
    <3>2. CASE tab' = Mounted(page, row, now)
      BY <1>1, <3>2, MountedIs DEF Pages
    <3> QED BY <2>1, <3>1, <3>2
  <2>3. Later(Draft)
    BY PlainCopies DEF Later, Unpaid
  <2> QED BY <1>1, <1>7, <1>8, <2>1, <2>2, <2>3
<1>9. ASSUME NEW i \in Item, RemoveItem(i)
      PROVE  CInv'
  <2>1. /\ UNCHANGED <<row, order, money, rates, mine, astray, kept, call, now, polls>>
        /\ tab' = [tab EXCEPT !.basket[i] = 0]
    BY <1>9 DEF RemoveItem, server, session, paid
  <2> DEFINE basket == [tab.basket EXCEPT ![i] = 0]
  <2>2. basket \in Basket
    BY <1>1 DEF Tab, Basket
  <2>3. tab' = [tab EXCEPT !.basket = basket]
    BY <1>1, <2>1 DEF Tab
  <2> HIDE DEF basket
  <2>4. /\ tab' \in Tab /\ tab'.page = tab.page /\ tab'.outcome = tab.outcome
        /\ tab'.result = tab.result /\ tab'.expired = tab.expired /\ tab'.shown = tab.shown
        /\ tab'.gaveUp = tab.gaveUp /\ tab'.clock = tab.clock /\ tab'.age = tab.age
    BY <1>1, <2>2, <2>3 DEF Tab
  <2>5. InWindow(tab') /\ (polls # {} => tab.page = "checkout")
    BY <1>1, <2>4 DEF InWindow, CInv, Places
  <2> QED BY <1>1, <2>1, <2>4, <2>5, ScreenMoves
<1>10. ASSUME NEW i \in Item, NEW n \in Quantities, AddItem(i, n)
       PROVE  CInv'
  <2>1. /\ UNCHANGED <<row, order, money, rates, mine, astray, kept, call, now, polls>>
        /\ tab' = [tab EXCEPT !.basket[i] = @ + n]
    BY <1>10 DEF AddItem, server, session, paid
  <2> DEFINE basket == [tab.basket EXCEPT ![i] = @ + n]
  <2>2. basket \in Basket
    BY <1>1, ConsoleAssumption DEF Tab, Basket, Quantities, ConsoleAssumption
  <2>3. tab' = [tab EXCEPT !.basket = basket]
    BY <1>1, <2>1 DEF Tab
  <2> HIDE DEF basket
  <2>4. /\ tab' \in Tab /\ tab'.page = tab.page /\ tab'.outcome = tab.outcome
        /\ tab'.result = tab.result /\ tab'.expired = tab.expired /\ tab'.shown = tab.shown
        /\ tab'.gaveUp = tab.gaveUp /\ tab'.clock = tab.clock /\ tab'.age = tab.age
    BY <1>1, <2>2, <2>3 DEF Tab
  <2>5. InWindow(tab') /\ (polls # {} => tab.page = "checkout")
    BY <1>1, <2>4 DEF InWindow, CInv, Places
  <2> QED BY <1>1, <2>1, <2>4, <2>5, ScreenMoves
<1> QED BY <1>2, <1>3, <1>4, <1>5, <1>6, <1>9, <1>10, <1>11, <1>12, <1>13 DEF Customer

(* A poll interval: the clock goes on, the screen gives up or asks again. *)
LEMMA TickKeeps ==
  ASSUME CInv, Tick
  PROVE  CInv'
<1> DEFINE at == Up(now, MaxNow)
           clock == IF tab.clock = Unset THEN tab.clock ELSE Up(tab.clock, POLL_CEILING + 1)
           age == IF waiting(tab) \/ tab.clock # Unset THEN Up(tab.age, POLL_CEILING + 1) ELSE tab.age
           aged == [tab EXCEPT !.clock = clock, !.age = age]
           ticked == Countdown(aged, at)
<1>1. /\ UNCHANGED <<row, order, money, rates, mine, astray, kept, call>> /\ now' = at
      /\ \/ tab' = ticked
         \/ tab' = [ticked EXCEPT !.gaveUp = TRUE] /\ ticked.clock > POLL_CEILING
              /\ ticked.clock # Unset
      /\ \/ polls' = polls
         \/ Polling(tab) /\ polls' \subseteq polls \cup {Reading}
  BY DEF Tick, server, session, paid
<1>2. /\ row \in Copy /\ tab \in Tab /\ polls \subseteq Copy /\ InWindow(tab)
      /\ now \in Nat /\ tab.clock \in Nat \cup {-1} /\ tab.age \in Nat /\ tab.gaveUp \in BOOLEAN
  BY DEF CInv, Types, Window, Time, Tab, Clock, Unset
<1>3. POLL_CEILING \in Nat /\ MaxNow \in Nat
  BY ConsoleAssumption DEF ConsoleAssumption
<1>4. at \in Nat /\ at >= now
  BY <1>2, <1>3 DEF Up
<1>5. /\ clock \in Nat \cup {-1} /\ age \in Nat /\ clock <= age
      /\ tab.gaveUp => age > POLL_CEILING
  BY <1>2, <1>3 DEF Up, Unset, InWindow
<1> HIDE DEF at, clock, age
<1>6. /\ aged \in Tab /\ aged.page = tab.page /\ aged.outcome = tab.outcome
      /\ aged.result = tab.result /\ aged.expired = tab.expired /\ aged.shown = tab.shown
      /\ aged.gaveUp = tab.gaveUp /\ aged.clock = clock /\ aged.age = age
  <2>1. clock \in Clock /\ age \in Time
    BY <1>5 DEF Clock, Time, Unset
  <2> QED BY <1>2, <2>1 DEF Tab
<1> HIDE DEF aged
<1>7. /\ ticked \in Tab /\ ticked.page = tab.page /\ ticked.outcome = tab.outcome
      /\ ticked.result = tab.result /\ ticked.shown = tab.shown
      /\ ticked.gaveUp = tab.gaveUp /\ ticked.clock = clock /\ ticked.age = age
      /\ tab.expired => ticked.expired
  BY <1>4, <1>6, CountdownIs DEF Time
<1> HIDE DEF ticked
<1>8. /\ tab' \in Tab /\ tab'.page = tab.page /\ tab'.outcome = tab.outcome
      /\ tab'.result = tab.result /\ tab'.shown = tab.shown
      /\ tab'.clock = clock /\ tab'.age = age
      /\ tab'.gaveUp = tab.gaveUp \/ clock > POLL_CEILING
      /\ tab.expired => tab'.expired
  <2>1. CASE tab' = ticked
    BY <1>7, <2>1
  <2>2. CASE tab' = [ticked EXCEPT !.gaveUp = TRUE] /\ ticked.clock > POLL_CEILING
    BY <1>7, <2>2 DEF Tab
  <2> QED BY <1>1, <2>1, <2>2
<1>9. InWindow(tab')
  BY <1>3, <1>5, <1>8 DEF InWindow
<1>10. /\ polls' \subseteq Copy /\ (polls' # {} => tab.page = "checkout")
       /\ \A copy \in polls' : \/ copy \in polls
                               \/ Later(copy) /\ (copy.status = "HELD" => copy.expiresAt <= now)
  <2>1. CASE polls' = polls
    BY <1>2, <2>1 DEF CInv, Places
  <2>2. CASE Polling(tab) /\ polls' \subseteq polls \cup {Reading}
    <3>1. tab.page = "checkout" /\ tab.shown.status = "PENDING_PAYMENT"
      BY <2>2 DEF Polling, waiting
    <3>2. row.status \notin Unpaid
      BY <3>1 DEF CInv, Honest, Later, Unpaid, Statuses
    <3>3. Reading \in Copy /\ Later(Reading) /\ Reading.status # "HELD"
      BY <1>2, <3>2, PlainCopies DEF Reading, Later, Unpaid, Statuses
    <3> HIDE DEF Reading
    <3> QED BY <1>2, <2>2, <3>1, <3>3
  <2> QED BY <1>1, <2>1, <2>2
<1> QED BY <1>1, <1>4, <1>8, <1>9, <1>10, ScreenMoves DEF Time

(* A poll is answered, refused or lost. *)
LEMMA PollsKeep ==
  ASSUME CInv, PollRefused \/ \E copy \in polls : PollAnswered(copy) \/ PollFailed(copy)
  PROVE  CInv'
<1>1. /\ now \in Time /\ now \in Nat /\ tab \in Tab /\ call \in Calls
      /\ polls \subseteq Copy /\ InWindow(tab) /\ (polls # {} => tab.page = "checkout")
  BY DEF CInv, Types, Window, Time, Places
<1>2. CASE PollRefused
  <2>1. /\ UNCHANGED <<now, row, order, money, rates, mine, astray, kept, call>>
        /\ tab.page = "checkout" /\ polls' = {} /\ tab' = Blank("login", Draft)
    BY <1>1, <1>2 DEF PollRefused, server, session, paid
  <2>2. /\ tab' \in Tab /\ tab'.page = "login" /\ tab'.shown = Draft
        /\ tab'.result = NoResult /\ InWindow(tab')
    <3>1. "login" \in Pages /\ Draft \in Copy
      BY PlainCopies DEF Pages
    <3> QED BY <2>1, <3>1, BlankIs
  <2>3. /\ row.status # "DRAFT" /\ call.kind \notin {"cancel", "hold"} /\ Later(Draft)
        /\ kept \in Copy /\ Later(kept) /\ mine \in BOOLEAN /\ astray \in BOOLEAN
    BY <2>1, PlainCopies DEF CInv, Types, Places, Honest, Later, Unpaid
  <2> QED BY <2>1, <2>2, <2>3, PageMoves, PlainCalls DEF Computed, Suspect
<1>3. ASSUME NEW copy \in polls, PollAnswered(copy)
      PROVE  CInv'
  <2> DEFINE shows == [tab EXCEPT !.shown = copy]
  <2>1. /\ UNCHANGED <<now, row, order, money, rates, mine, astray, kept, call>> /\ polls' \subseteq polls
        /\ tab' = Committed(tab, shows, now) /\ copy \in Copy /\ tab.page = "checkout"
    BY <1>1, <1>3 DEF PollAnswered, server, session, paid
  <2>2. /\ shows \in Tab /\ shows.page = tab.page /\ shows.shown = copy
        /\ shows.outcome = tab.outcome /\ shows.gaveUp = tab.gaveUp /\ shows.result = tab.result
        /\ shows.expired = tab.expired /\ shows.clock = tab.clock /\ shows.age = tab.age
    BY <1>1, <2>1 DEF Tab
  <2> HIDE DEF shows
  <2>3. InWindow(shows)
    BY <1>1, <2>2 DEF InWindow
  <2>4. Later(copy) /\ (copy.status = "HELD" => copy.expiresAt <= now)
    BY DEF CInv, Honest
  <2>5. /\ tab' \in Tab /\ tab'.page = tab.page /\ tab'.shown = copy
        /\ tab'.outcome = tab.outcome /\ tab'.result = tab.result /\ InWindow(tab')
        /\ tab.expired => tab'.expired
    BY <1>1, <2>1, <2>2, <2>3, CommittedIs
  <2>6. copy.status = "HELD" => tab'.expired
    BY <1>1, <2>1, <2>2, <2>4, CommittedIs
  <2> QED BY <1>1, <2>1, <2>4, <2>5, <2>6, ScreenMoves
<1>4. ASSUME NEW copy \in polls, PollFailed(copy)
      PROVE  CInv'
  <2>1. UNCHANGED <<now, row, order, money, rates, mine, astray, kept, call, tab>> /\ polls' \subseteq polls
    BY <1>4 DEF PollFailed, server, session, paid
  <2> QED BY <1>1, <2>1, ScreenMoves
<1> QED BY <1>2, <1>3, <1>4

(* The action's answer, and the page it brings, reach the tab. *)
LEMMA DeliverKeeps ==
  ASSUME CInv, Deliver
  PROVE  CInv'
<1>1. /\ UNCHANGED <<now, row, order, money, rates, mine, astray>> /\ call' = Idle
      /\ call.stage \in {"served", "rendered"} /\ call.kind # "none"
  BY DEF Deliver, server, paid, CInv, Places
<1>2. /\ now \in Time /\ tab \in Tab /\ call \in Calls /\ call.copy \in Copy /\ InWindow(tab)
      /\ polls # {} => tab.page = "checkout"
      /\ Computed(tab.result, row, order) /\ Computed(call.result, row, order)
      /\ mine \in BOOLEAN /\ astray \in BOOLEAN /\ (mine \/ astray => tab.page # "room")
  BY DEF CInv, Types, Window, Places, Quoted, Calls, Recorded
<1>12. kept' \in Copy /\ Later(kept')
  <2>1. kept \in Copy /\ Later(kept) /\ NoPage \in Copy /\ Later(NoPage)
    BY PlainCopies DEF CInv, Types, Honest, Later, Statuses
  <2>2. call.stage = "rendered" => Later(call.copy)
    BY DEF CInv, Honest
  <2> HIDE DEF NoPage
  <2>3. \/ kept' = kept
        \/ call.stage = "rendered" /\ kept' \in {NoPage, call.copy}
    BY DEF Deliver, Recached
  <2> QED BY <1>2, <2>1, <2>2, <2>3
<1>3. CASE tab' = tab /\ polls' = polls /\ tab.page = "login"
  <2>1. tab.result.refund = {} /\ row.status # "DRAFT" /\ Later(tab.shown) /\ polls = {}
    BY <1>2, <1>3 DEF CInv, Quoted, Places, Honest
  <2> QED BY <1>1, <1>2, <1>3, <1>12, <2>1, PageMoves DEF Suspect
<1> DEFINE heard == Answered(tab)
<1>4. /\ heard \in Tab /\ heard.page = tab.page /\ heard.shown = tab.shown
      /\ heard.expired = tab.expired
      /\ heard.gaveUp = tab.gaveUp /\ heard.clock = tab.clock /\ heard.age = tab.age
      /\ heard.outcome = IF call.kind = "pay" THEN call.reply ELSE tab.outcome
      /\ heard.result = IF call.kind = "cancel" /\ call.reply = "done" THEN call.result ELSE tab.result
  BY <1>1, <1>2, AnsweredIs
<1> HIDE DEF heard
<1>5. InWindow(heard) /\ Computed(heard.result, row, order)
  BY <1>2, <1>4 DEF InWindow
<1>6. tab.page = "checkout" /\ heard.outcome = "conflict" => Dead
  BY <1>1, <1>4 DEF CInv, Honest, Recorded, Answering
<1>13. tab.page = "checkout" /\ astray => heard.outcome \in Unsure \/ Dead
  <2>1. CASE call.kind = "pay"
    <3>1. Answering
      BY <1>1, <2>1 DEF Answering
    <3>2. call.reply \in Unsure \cup {"accepted", "replayed", "conflict"}
      BY <3>1 DEF CInv, Places, Answering, Unsure
    <3>3. call.reply \in {"accepted", "replayed", "conflict"} => Dead
      BY <3>1 DEF CInv, Recorded, Dead, Unpaid
    <3> QED BY <1>4, <2>1, <3>2, <3>3
  <2>2. CASE call.kind # "pay"
    BY <1>4, <2>2 DEF CInv, Recorded, Doubt, Answering
  <2> QED BY <2>1, <2>2
<1>7. CASE call.stage = "served" /\ ~Revalidates(call.kind, call.reply)
             /\ tab' = heard /\ polls' = polls
  <2>1. ~(call.kind = "cancel" /\ call.reply = "done")
    BY <1>7 DEF Revalidates, CancelRevalidates
  <2>2. call.kind = "pay" => call.reply \in {"no_answer", "error", "transient"}
    BY <1>7 DEF CInv, Places, Revalidates, PayRevalidates
  <2>3. Suspect /\ tab.shown.status = "HELD" /\ ~tab.expired => heard.outcome \in Unsure
    BY <1>4, <2>2 DEF CInv, Recorded, Doubt, Answering, Unsure
  <2>7. Suspect' => Suspect
    BY <1>1, <1>4, <1>7 DEF Suspect
  <2>4. Later(tab.shown)
    BY DEF CInv, Honest
  <2>5. row.status = "DRAFT" => tab.page = "room"
    BY DEF CInv, Places
  <2>6. heard.result.refund # {} => tab.page = "detail" /\ tab.shown.terms = row.terms
    BY <1>4, <2>1 DEF CInv, Quoted
  <2> QED BY <1>1, <1>2, <1>4, <1>5, <1>6, <1>7, <1>12, <1>13, <2>3, <2>4,
         <2>5, <2>6, <2>7, PageMoves
<1>8. ASSUME call.stage = "rendered"
      PROVE  /\ Later(call.copy)
             /\ Suspect /\ call.copy.status = "HELD" =>
                  heard.outcome \in Unsure \/ call.copy.expiresAt <= now
             /\ Revalidates(call.kind, call.reply) /\ row.status # "DRAFT"
  <2>1. Later(call.copy) /\ Revalidates(call.kind, call.reply)
    BY <1>8 DEF CInv, Honest, Places
  <2>2. call.kind = "hold" => call.reply = "done"
    BY <2>1 DEF Revalidates, HoldRedirects
  <2>3. row.status # "DRAFT"
    BY <1>1, <2>2 DEF CInv, Places
  <2>4. Suspect => call.kind \in {"pay", "extend"}
    BY <1>1, <1>2 DEF CInv, Types, Calls, Kinds, Places, Suspect
  <2>5. call.kind = "pay" /\ call.copy.status = "HELD" => call.copy.expiresAt <= now
    BY <1>8 DEF CInv, Recorded, Answering
  <2>6. Suspect /\ call.kind = "extend" /\ call.copy.status = "HELD" =>
          heard.outcome \in Unsure \/ call.copy.expiresAt <= now
    BY <1>4, <1>8 DEF CInv, Recorded
  <2> QED BY <2>1, <2>3, <2>4, <2>5, <2>6
<1>9. CASE call.stage = "rendered" /\ tab' = Blank("failed", Draft) /\ polls' = {}
  <2>1. /\ tab' \in Tab /\ tab'.page = "failed" /\ tab'.shown = Draft
        /\ tab'.result = NoResult /\ InWindow(tab')
    BY <1>9, BlankIs, PlainCopies DEF Pages
  <2>2. row.status # "DRAFT" /\ Later(Draft)
    BY <1>8, <1>9, PlainCopies DEF Later, Unpaid
  <2> QED BY <1>1, <1>2, <1>9, <1>12, <2>1, <2>2, PageMoves, PlainCalls DEF Computed, Suspect
<1>10. CASE call.stage = "rendered" /\ call.kind = "hold" /\ polls' = polls
              /\ tab' = Mounted("checkout", call.copy, now)
  <2>1. /\ tab' \in Tab /\ tab'.page = "checkout" /\ tab'.shown = call.copy
        /\ tab'.outcome = "idle" /\ tab'.result = NoResult /\ InWindow(tab')
    BY <1>2, <1>10, MountedIs DEF Pages
  <2>2. ~mine /\ ~astray
    BY <1>2, <1>10 DEF CInv, Places
  <2> QED BY <1>1, <1>2, <1>8, <1>10, <1>12, <2>1, <2>2, PageMoves, PlainCalls DEF Computed, Suspect
<1>11. CASE call.stage = "rendered" /\ call.kind # "hold" /\ polls' = polls
              /\ call.copy # NoPage
              /\ tab' = Committed(tab, Rendered(heard, call.copy), now)
  <2> DEFINE fresh == Rendered(heard, call.copy)
  <2>1. /\ fresh \in Tab /\ fresh.page = tab.page /\ fresh.shown = call.copy
        /\ fresh.outcome = heard.outcome /\ fresh.result = heard.result /\ InWindow(fresh)
    BY <1>2, <1>4, <1>5, RenderedIs
  <2> HIDE DEF fresh
  <2>2. /\ tab' \in Tab /\ tab'.page = tab.page /\ tab'.shown = call.copy
        /\ tab'.outcome = heard.outcome /\ tab'.result = heard.result /\ InWindow(tab')
        /\ tab'.page = "checkout" /\ tab'.shown.status = "HELD" /\ tab'.shown.expiresAt <= now
             => tab'.expired
    BY <1>2, <1>11, <2>1, CommittedIs DEF fresh
  <2>3. heard.result.refund # {} => tab.page = "detail" /\ call.copy.terms = row.terms
    BY <1>4, <1>11 DEF CInv, Quoted, Places
  <2>4. Suspect' => Suspect
    BY <1>1, <2>2 DEF Suspect
  <2>5. Suspect' /\ tab'.shown.status = "HELD" /\ ~tab'.expired => tab'.outcome \in Unsure
    BY <1>8, <1>11, <2>2, <2>4 DEF Suspect
  <2> QED BY <1>1, <1>2, <1>5, <1>6, <1>8, <1>11, <1>12, <1>13, <2>2, <2>3, <2>5, PageMoves
<1> QED BY <1>1, <1>3, <1>7, <1>9, <1>10, <1>11 DEF Deliver, heard

-----------------------------------------------------------------------------
(* The invariant is inductive. *)

(* It holds on the room page, before there is a booking. *)
LEMMA InitHolds == ConsoleInit => CInv
<1> SUFFICES ASSUME ConsoleInit
             PROVE  CInv
  OBVIOUS
<1> DEFINE blank == Blank("room", Draft)
<1>1. /\ now = 0 /\ row = Draft /\ rates \in Prices /\ call = Idle /\ polls = {} /\ mine = FALSE
      /\ astray = FALSE /\ kept = NoPage /\ money.status = "NONE"
      /\ order = [createdAt |-> 0, items |-> <<>>, total |-> 0]
      /\ tab = [blank EXCEPT !.prices = rates]
  BY ConsoleAssumption DEF ConsoleInit, RoomPage, ConsoleAssumption, Prices
<1>2. /\ blank \in Tab /\ blank.page = "room" /\ blank.shown = Draft /\ blank.outcome = "idle"
      /\ blank.gaveUp = FALSE /\ InWindow(blank) /\ blank.result = NoResult
  <2>1. "room" \in Pages /\ Draft \in Copy
    BY PlainCopies DEF Pages
  <2> QED BY <2>1, BlankIs
<1> HIDE DEF blank
<1>3. /\ tab \in Tab /\ tab.page = "room" /\ tab.shown = Draft /\ tab.outcome = "idle"
      /\ tab.gaveUp = FALSE /\ tab.clock = blank.clock /\ tab.age = blank.age
      /\ tab.result = NoResult
  BY <1>1, <1>2 DEF Tab
<1>4. order \in Orders
  <2>1. <<>> \in Lines
    <3>1. <<>> \in [{} -> [rate : Nat, quantity : Nat]]
      OBVIOUS
    <3> QED BY <3>1 DEF Lines
  <2> QED BY <1>1, <2>1 DEF Orders, Time
<1>5. Types
  BY <1>1, <1>3, <1>4, PlainCopies, PlainCalls DEF Types, Time
<1>6. Places
  BY <1>1, <1>3, PlainCopies, PlainCalls DEF Places
<1>7. Honest
  BY <1>1, <1>3, PlainCopies, PlainCalls DEF Honest, Later, Unpaid, Statuses
<1>8. Recorded
  BY <1>1, <1>3, PlainCalls DEF Recorded, Answering, Doubt, Suspect
<1>9. Window
  BY <1>2, <1>3 DEF Window, InWindow
<1>10. Quoted
  BY <1>1, <1>3, PlainCopies, PlainCalls DEF Quoted, Computed
<1> QED BY <1>5, <1>6, <1>7, <1>8, <1>9, <1>10 DEF CInv

(* And every step keeps it. *)
LEMMA NextKeeps == CInv /\ [ConsoleNext]_vars => CInv'
<1> SUFFICES ASSUME CInv, [ConsoleNext]_vars
             PROVE  CInv'
  OBVIOUS
<1>1. CASE Customer
  BY <1>1, CustomerKeeps
<1>2. CASE Elsewhere
  BY <1>2, ElsewhereKeeps
<1>3. CASE Action
  BY <1>3, ServeKeeps, SettleKeeps, RenderKeeps, DeliverKeeps DEF Action
<1>4. CASE Tick
  BY <1>4, TickKeeps
<1>5. CASE PollRefused \/ \E copy \in polls : PollAnswered(copy) \/ PollFailed(copy)
  BY <1>5, PollsKeep
<1>6. CASE UNCHANGED vars
  BY <1>6, ScreenMoves DEF vars, server, session, paid, CInv, Types, Places, Window, Time
<1>7. CASE LatePay
  BY <1>7, LatePayKeeps
<1> QED BY <1>1, <1>2, <1>3, <1>4, <1>5, <1>6, <1>7 DEF ConsoleNext

(* The invariant the console's theorems rest on: copies, answers under way  *)
(* and the row agree on how far the booking has come.                       *)
THEOREM ConsoleInvariant == ConsoleSpec => []CInv
<1>1. ConsoleInit => CInv
  BY InitHolds
<1>2. CInv /\ [ConsoleNext]_vars => CInv'
  BY NextKeeps
<1> QED BY <1>1, <1>2, PTL DEF ConsoleSpec

-----------------------------------------------------------------------------
(* "Held. Nothing has been charged yet." is never what a page says once a   *)
(* pay asked for from it is on record, or given up on and possibly still to *)
(* be executed: StateCard and payForBooking, for every order of the pays'   *)
(* answers, the pages they refresh, the polls and what happens elsewhere.   *)
THEOREM ScreenIsHonest == ConsoleSpec => []HeldMeansUntouched
<1>1. CInv => HeldMeansUntouched
  <2> SUFFICES ASSUME CInv, SaysUntouched(tab), call = Idle, mine \/ astray
               PROVE  FALSE
    BY DEF HeldMeansUntouched
  <2>1. ~Answering
    BY PlainCalls DEF Answering
  <2>2. Suspect /\ tab.shown.status = "HELD" /\ ~tab.expired
    BY DEF SaysUntouched, holdIsUp, Live, LiveStatuses, Suspect
  <2>3. tab.outcome \in Unsure
    BY <2>1, <2>2 DEF CInv, Recorded, Doubt
  <2> QED BY <2>3 DEF SaysUntouched, Unsure
<1> QED BY <1>1, ConsoleInvariant, PTL

(* The checkout screen gives up polling only after a whole window, however  *)
(* often it was retried (the two effects of CheckoutClient).                *)
THEOREM WindowIsFull == ConsoleSpec => []FullWindow
<1>1. CInv => FullWindow
  BY DEF CInv, Window, InWindow, FullWindow
<1> QED BY <1>1, ConsoleInvariant, PTL

(* The two refund computations, lib/refund.ts and refund-policy.ts, agree   *)
(* on every ladder and every order.                                         *)
LEMMA PreviewIsRefund ==
  ASSUME NEW o, o.items \in Lines, o.total \in Nat, NEW terms, terms # <<>>, NEW at \in Nat
  PROVE  previewRefund([halfHours |-> HalfHours, items |-> o.items, total |-> o.total,
                        terms |-> terms], StartsAt, at) = {Owed(terms, o, at)}
<1> DEFINE b == [halfHours |-> HalfHours, items |-> o.items, total |-> o.total, terms |-> terms]
<1>1. b.halfHours = HalfHours /\ b.items = o.items /\ b.total = o.total /\ b.terms = terms
  OBVIOUS
<1>2. Owed(terms, o, at) = computeRefund(b, StartsAt, at)
  BY DEF Owed
<1> HIDE DEF b
<1> DEFINE equipment == EquipmentTotal(b.halfHours, b.items)
           hours == HoursBefore(StartsAt, at)
           tier(h) == b.terms[First({i \in DOMAIN b.terms : h >= b.terms[i].minHours})]
           room == IF b.total < equipment THEN 0 ELSE b.total - equipment
           amount(t, r) == (r * t.room) \div 100 + (equipment * t.equipment) \div 100
<1>3. equipment \in Nat
  BY <1>1, LinesAdd
<1>4. StartsAt \in Nat
  BY ConsoleAssumption DEF ConsoleAssumption
<1>5. (IF StartsAt - at < 0 THEN 0 ELSE StartsAt - at) = hours
  BY <1>4 DEF HoursBefore
<1>6. splitTotals(b).room = room /\ splitTotals(b).equipment = equipment
  <2>1. splitTotals(b) = [room |-> IF b.total - equipment < 0 THEN 0 ELSE b.total - equipment,
                          equipment |-> equipment]
    BY DEF splitTotals
  <2>2. (IF b.total - equipment < 0 THEN 0 ELSE b.total - equipment) = room
    BY <1>1, <1>3
  <2> HIDE DEF room, equipment
  <2> QED BY <2>1, <2>2
<1>7. computeRefund(b, StartsAt, at) = amount(tier(hours), room)
  <2>1. computeRefund(b, StartsAt, at)
          = (splitTotals(b).room * tier(hours).room) \div 100
              + (splitTotals(b).equipment * tier(hours).equipment) \div 100
    BY DEF computeRefund, selectTier
  <2> HIDE DEF room, equipment, hours, tier
  <2> QED BY <1>6, <2>1
<1>8. previewRefund(b, StartsAt, at)
        = {amount(tier(IF StartsAt - at < 0 THEN 0 ELSE StartsAt - at), room)}
  BY <1>1 DEF previewRefund
<1> HIDE DEF amount, tier, room, hours
<1> QED BY <1>5, <1>7, <1>8, <1>2 DEF b

(* The refund of a cancellation is the number the cancel panel computes     *)
(* from its copy for the moment it was cancelled.                           *)
THEOREM QuoteIsTheRefund == ConsoleSpec => []QuoteHonoured
<1>1. CInv => QuoteHonoured
  <2> SUFFICES ASSUME CInv, tab.result.refund # {}
               PROVE  previewRefund(Priced(tab.shown), StartsAt, tab.result.at) = tab.result.refund
    BY DEF QuoteHonoured
  <2>1. /\ tab.shown.terms = row.terms /\ row.terms # <<>>
        /\ tab.result.refund = {Owed(row.terms, order, tab.result.at)}
    BY DEF CInv, Quoted, Computed
  <2>2. order.items \in Lines /\ order.total \in Nat /\ tab.result.at \in Nat
    BY DEF CInv, Types, Orders, Tab, Result, Time
  <2>3. Priced(tab.shown) = [halfHours |-> HalfHours, items |-> order.items,
                             total |-> order.total, terms |-> row.terms]
    BY <2>1 DEF Priced
  <2>4. previewRefund(Priced(tab.shown), StartsAt, tab.result.at)
          = {Owed(row.terms, order, tab.result.at)}
    BY <2>1, <2>2, <2>3, PreviewIsRefund
  <2> QED BY <2>1, <2>4
<1> QED BY <1>1, ConsoleInvariant, PTL

(* What the booking panel estimates is what the hold path charges. *)
LEMMA EstimateIsTotal ==
  ASSUME NEW rate \in Nat, NEW items
  PROVE  totalMinor(HalfHours, rate, items) = estimate(HalfHours, rate, items)
<1>1. rate * HalfHours = HalfHours * rate
  BY ConsoleAssumption DEF ConsoleAssumption
<1> QED BY <1>1 DEF totalMinor, estimate, EquipmentTotal, lineTotal

(* A hold costs what the booking panel estimated, unless the venue changed  *)
(* its prices after the page was loaded (holdsService.create against the    *)
(* panel's estimate).                                                       *)
THEOREM EstimateHolds == ConsoleSpec => EstimateIsThePrice
<1> DEFINE Estimated ==
      row.status = "DRAFT" /\ row'.status = "HELD" /\ tab.prices = rates
        => order'.total = estimate(HalfHours, tab.prices.room, Chosen(tab, tab.prices))
<1>1. CInv /\ [ConsoleNext]_vars => [Estimated]_vars
  <2> SUFFICES ASSUME CInv, ConsoleNext, row.status = "DRAFT", row'.status = "HELD",
                      tab.prices = rates
               PROVE  order'.total = estimate(HalfHours, tab.prices.room, Chosen(tab, tab.prices))
    OBVIOUS
  <2>1. row' # row /\ rates.room \in Nat
    BY DEF CInv, Types, Prices
  <2>2. /\ ~Customer /\ ~Tick /\ ~LatePay
        /\ ~PollRefused /\ ~(\E copy \in polls : PollAnswered(copy) \/ PollFailed(copy))
    BY <2>1 DEF Customer, PressPay, PressExtend, PressCancel, PressHold, Ask, Refresh, SignIn,
                RemoveItem, AddItem, Open, Back, Tick, LatePay,
                PayRecorded, Payable, PollRefused, PollAnswered, PollFailed, server
  <2>3. ~Settle /\ ~Render /\ ~Deliver
    BY <2>1 DEF Settle, Render, Deliver, server
  <2>4. ~Elsewhere
    BY <2>1 DEF Elsewhere, PaidElsewhere, PayRecorded, Payable, RearmedElsewhere, Rearmed,
                Rearmable, Live, LiveStatuses,
                CancelledElsewhere, RefundedElsewhere, Swept, OutcomeApplied, RefundSettled,
                Reprice, SessionEnds, server, isLegalTransition, LEGAL_TRANSITIONS
  <2>5. Serve
    BY <2>2, <2>3, <2>4 DEF ConsoleNext, Action
  <2>6. call.kind = "hold"
    <3>1. call.kind \in {"none", "hold"} /\ call.kind # "none"
      BY <2>5 DEF CInv, Places, Serve
    <3> QED BY <3>1
  <2>7. ServeHold
    BY <2>5, <2>6 DEF Serve
  <2>8. order'.total = totalMinor(HalfHours, rates.room, Chosen(tab, rates))
    BY <2>1, <2>7 DEF ServeHold, Untouched
  <2> QED BY <2>1, <2>8, EstimateIsTotal
<1> QED BY <1>1, ConsoleInvariant, PTL DEF ConsoleSpec, EstimateIsThePrice

-----------------------------------------------------------------------------
(* No cancellation gives back more than was charged. *)

(* Of a set of naturals that is not empty, First is in it. *)
LEMMA FirstIsIn ==
  ASSUME NEW S \in SUBSET Nat, S # {}
  PROVE  First(S) \in S
<1>1. \E x \in S : \A y \in S : ~(<<y, x>> \in OpToRel(<, Nat))
  BY NatLessThanWellFounded, WFMin
<1>2. PICK x \in S : \A y \in S : ~(<<y, x>> \in OpToRel(<, Nat))
  BY <1>1
<1>3. \A y \in S : x <= y
  <2> SUFFICES ASSUME NEW y \in S
               PROVE  x <= y
    OBVIOUS
  <2>1. <<y, x>> \in Nat \X Nat
    OBVIOUS
  <2>2. ~(y < x)
    BY <1>2, <2>1 DEF OpToRel
  <2> QED BY <2>2
<1> QED BY <1>2, <1>3 DEF First

(* Whatever the lead time, a ladder that TiersSchema accepts has a tier.    *)
LEMMA TierIsThere ==
  ASSUME NEW terms, ValidTiers(terms), NEW hours \in Nat
  PROVE  selectTier(terms, hours).room \in 0..100 /\ selectTier(terms, hours).equipment \in 0..100
<1> DEFINE S == {i \in DOMAIN terms : hours >= terms[i].minHours}
<1>1. /\ terms \in Seq([minHours : Nat, room : 0..100, equipment : 0..100])
      /\ Len(terms) \in DOMAIN terms /\ terms[Len(terms)].minHours = 0
      /\ DOMAIN terms \subseteq Nat
  BY DEF ValidTiers
<1>2. Len(terms) \in S /\ S \subseteq Nat
  BY <1>1
<1>3. First(S) \in DOMAIN terms
  <2>1. First(S) \in S
    <3> HIDE DEF S
    <3> QED BY <1>2, FirstIsIn
  <2> QED BY <2>1
<1>4. terms[First(S)] \in [minHours : Nat, room : 0..100, equipment : 0..100]
  <2> DEFINE Tier == [minHours : Nat, room : 0..100, equipment : 0..100]
             i == First(S)
  <2>1. terms \in Seq(Tier) /\ i \in 1..Len(terms)
    BY <1>1, <1>3
  <2> HIDE DEF Tier, i
  <2>2. terms[i] \in Tier
    BY <2>1
  <2> QED BY <2>2 DEF Tier, i
<1> QED BY <1>4 DEF selectTier

(* A share of an amount, rounded down, is part of it. *)
LEMMA ShareIsPart ==
  ASSUME NEW n \in Nat, NEW pct \in 0..100
  PROVE  (n * pct) \div 100 \in 0..n
<1>1. n * pct \in Nat /\ n * pct <= n * 100
  OBVIOUS
<1> DEFINE x == n * pct
<1>2. \A y \in Nat : y <= n * 100 => y \div 100 \in 0..n
  OBVIOUS
<1> HIDE DEF x
<1>3. x \in Nat /\ x <= n * 100
  BY <1>1 DEF x
<1>4. x \div 100 \in 0..n
  BY <1>2, <1>3
<1> QED BY <1>4 DEF x

(* The line items are part of the price, never more than it. *)
LinesWithinTotal == EquipmentTotal(HalfHours, order.items) <= order.total

LEMMA OwedIsPart ==
  ASSUME NEW o, o.items \in Lines, o.total \in Nat,
         EquipmentTotal(HalfHours, o.items) <= o.total,
         NEW terms, ValidTiers(terms), NEW at \in Nat
  PROVE  Owed(terms, o, at) \in 0..o.total
<1> DEFINE b == [halfHours |-> HalfHours, items |-> o.items, total |-> o.total, terms |-> terms]
           equipment == EquipmentTotal(HalfHours, o.items)
           room == o.total - equipment
           hours == HoursBefore(StartsAt, at)
           tier == selectTier(terms, hours)
<1>1. equipment \in Nat /\ room \in Nat /\ room + equipment = o.total
  <2>1. equipment \in Nat
    BY LinesAdd
  <2> QED BY <2>1
<1>2. splitTotals(b) = [room |-> room, equipment |-> equipment]
  <2>1. splitTotals(b) = [room |-> IF room < 0 THEN 0 ELSE room, equipment |-> equipment]
    BY DEF splitTotals
  <2>2. (IF room < 0 THEN 0 ELSE room) = room
    BY <1>1
  <2> HIDE DEF room, equipment
  <2> QED BY <2>1, <2>2
<1>3. tier.room \in 0..100 /\ tier.equipment \in 0..100
  <2>1. hours \in Nat
    BY ConsoleAssumption DEF ConsoleAssumption, HoursBefore
  <2> HIDE DEF hours
  <2> QED BY <2>1, TierIsThere
<1>4. Owed(terms, o, at) = (room * tier.room) \div 100 + (equipment * tier.equipment) \div 100
  <2>1. computeRefund(b, StartsAt, at)
          = (splitTotals(b).room * tier.room) \div 100
              + (splitTotals(b).equipment * tier.equipment) \div 100
    BY DEF computeRefund
  <2> HIDE DEF room, equipment, tier
  <2> QED BY <1>2, <2>1 DEF Owed
<1> HIDE DEF room, equipment, tier
<1>5. (room * tier.room) \div 100 \in 0..room
  BY <1>1, <1>3, ShareIsPart
<1>6. (equipment * tier.equipment) \div 100 \in 0..equipment
  BY <1>1, <1>3, ShareIsPart
<1> QED BY <1>1, <1>4, <1>5, <1>6

(* Only the hold writes the order, and its total is the room's price on top *)
(* of the lines.                                                            *)
LEMMA OrderIsWritten ==
  ASSUME CInv, ConsoleNext, order' # order
  PROVE  ServeHold
<1>1. /\ ~Customer /\ ~Tick /\ ~LatePay
      /\ ~PollRefused /\ ~(\E copy \in polls : PollAnswered(copy) \/ PollFailed(copy))
  BY DEF Customer, PressPay, PressExtend, PressCancel, PressHold, Ask, Refresh, SignIn,
         RemoveItem, AddItem, Open, Back, Tick, LatePay,
         PayRecorded, PollRefused, PollAnswered, PollFailed, server
<1>2. ~Settle /\ ~Render /\ ~Deliver
  BY DEF Settle, Render, Deliver, server
<1>3. ~Elsewhere
  BY DEF Elsewhere, PaidElsewhere, PayRecorded, RearmedElsewhere, Rearmed,
                CancelledElsewhere, RefundedElsewhere, Swept, OutcomeApplied, RefundSettled,
         Reprice, SessionEnds, server, ElsewhereUnchanged
<1>4. Serve
  BY <1>1, <1>2, <1>3 DEF ConsoleNext, Action
<1>5. ~ServePay /\ ~ServeExtend /\ ~ServeCancel
  BY DEF ServePay, ServeExtend, ServeCancel, Untouched
<1>6. call.kind \in {"pay", "extend", "hold", "cancel"}
  BY <1>4 DEF CInv, Types, Calls, Kinds, Places, Serve
<1> QED BY <1>4, <1>5, <1>6 DEF Serve

(* What a cancellation reports is at least nothing and at most the price,   *)
(* for every ladder TiersSchema accepts and every basket (computeRefund,    *)
(* splitTotals and selectTier together with the price of the hold).         *)
THEOREM RefundWithinPrice == ConsoleSpec => [](tab.result.refund \subseteq 0..order.total)
<1>1. ConsoleInit => LinesWithinTotal
  <2> SUFFICES ASSUME ConsoleInit
               PROVE  LinesWithinTotal
    OBVIOUS
  <2>1. order.items = <<>> /\ order.total = 0 /\ DOMAIN order.items = {}
    BY DEF ConsoleInit
  <2>2. EquipmentTotal(HalfHours, order.items) = 0
    BY <2>1, SumOfNone DEF EquipmentTotal
  <2> QED BY <2>1, <2>2 DEF LinesWithinTotal
<1>2. CInv /\ LinesWithinTotal /\ [ConsoleNext]_vars => LinesWithinTotal'
  <2> SUFFICES ASSUME CInv, LinesWithinTotal, ConsoleNext, order' # order
               PROVE  LinesWithinTotal'
    BY DEF LinesWithinTotal, vars, server
  <2> DEFINE items == Chosen(tab, rates)
  <2>1. order'.items = items /\ order'.total = totalMinor(HalfHours, rates.room, items)
    BY OrderIsWritten DEF ServeHold, Untouched
  <2>2. items \in Lines /\ rates.room \in Nat
    BY ChosenAdds DEF CInv, Types, Prices
  <2> HIDE DEF items
  <2>3. EquipmentTotal(HalfHours, items) \in Nat
    BY <2>2, LinesAdd
  <2>4. (rates.room * HalfHours) \div 2 \in Nat
    <3>1. rates.room * HalfHours \in Nat
      BY <2>2, ConsoleAssumption DEF ConsoleAssumption
    <3> QED BY <3>1
  <2>5. EquipmentTotal(HalfHours, items) <= totalMinor(HalfHours, rates.room, items)
    BY <2>3, <2>4 DEF totalMinor
  <2>6. LinesWithinTotal' <=> EquipmentTotal(HalfHours, order'.items) <= order'.total
    BY DEF LinesWithinTotal
  <2> QED BY <2>1, <2>5, <2>6
<1>3. CInv /\ LinesWithinTotal => tab.result.refund \subseteq 0..order.total
  <2> SUFFICES ASSUME CInv, LinesWithinTotal, tab.result.refund # {}
               PROVE  tab.result.refund \subseteq 0..order.total
    OBVIOUS
  <2>1. row.terms # <<>> /\ tab.result.refund = {Owed(row.terms, order, tab.result.at)}
    BY DEF CInv, Quoted, Computed
  <2>2. order.items \in Lines /\ order.total \in Nat /\ tab.result.at \in Nat /\ row.terms \in Ladders
    BY <2>1 DEF CInv, Types, Orders, Tab, Result, Time, Copy, Terms
  <2>3. ValidTiers(row.terms)
    BY <2>1, <2>2, ConsoleAssumption DEF ConsoleAssumption
  <2>4. Owed(row.terms, order, tab.result.at) \in 0..order.total
    BY <2>2, <2>3, OwedIsPart DEF LinesWithinTotal
  <2> QED BY <2>1, <2>4
<1> QED BY <1>1, <1>2, <1>3, ConsoleInvariant, PTL DEF ConsoleSpec
=============================================================================
