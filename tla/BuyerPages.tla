----------------------------- MODULE BuyerPages -----------------------------
(* One buyer in front of Booking: the event, checkout, payment and orders    *)
(* pages of frontend/src/app/(client) in one browser tab, and the payment    *)
(* simulator pay/[id] on a phone.  The calls of Booking are made when the    *)
(* pages make them.  What a page shows was read some time ago: replies and   *)
(* broadcasts arrive late, out of order or (a fault) never, and a handler of *)
(* a page that was left runs on, its router.push included.                   *)
(* Other buyers are SeatServiceHold and the broadcasts of their lock calls.  *)
EXTENDS Booking, FiniteSets

CONSTANT MaxPick        \* seats one may select: 6

(* NULL is no status. *)
ASSUME BuyerAssumption ==
    MaxPick \in Nat \ {0} /\ None \notin OrderStatus \union PaymentStatus

(* Keys are the payment methods: the checkout page pays with `order:method`, *)
(* and here a method has one order.                                          *)
Methods == Keys

VARIABLES tab,          \* the page in the tab, with what it holds
          clicks,       \* runs of handleCheckout, by the checkout they make
          paying,       \* calls of pay whose reply some checkout page awaits
          polls,        \* replies of GET session on their way to a payment page
          redirects,    \* orders with a timer (900 ms, never cleared) to /orders?success=
          phone,        \* the payment, the status shown, the confirm call
          chosen        \* history: the method chosen, by call of pay

buyerVars == <<vars, tab, clicks, paying, polls, redirects, phone, chosen>>

Opt(S) == S \union {None}

Page ==
    [page : {"event"}, map : SUBSET Seats, selected : SUBSET Seats, loading : Opt(Checkouts),
     load : {"ask", "reply", "done"}, list : SUBSET Seats, update : Opt(SUBSET Seats)]
    \union [page : {"checkout"}, order : Checkouts, status : Opt(OrderStatus), saving : Opt(Pays)]
    \union [page : {"payment"}, payment : Pays, status : Opt(PaymentStatus)]
    \union [page : {"orders"}, success : Opt(Checkouts), paid : SUBSET Checkouts,
            unpaid : SUBSET Checkouts]

BuyerTypeOK ==
    /\ TypeOK
    /\ tab \in Page
    /\ clicks \in [Checkouts -> [pc : {"idle", "lock", "checkout", "done"},
                                  asked : SUBSET Seats, todo : SUBSET Seats]]
    /\ paying \in SUBSET Pays
    /\ polls \in SUBSET (Pays \X PaymentStatus)
    /\ redirects \in SUBSET Checkouts
    /\ phone \in [payment : Opt(Pays), status : Opt(PaymentStatus), confirm : Opt(Confirms)]
    /\ chosen \in [Pays -> Opt(Methods)]

OrderOf(p) == payments[p].order_id
Available == {s \in Seats : seats[s] = "AVAILABLE"}

-----------------------------------------------------------------------------
(* The pages as they open, with the reads they make once.  Slip: a status    *)
(* that is none, instead of no status.                                       *)

EventPage == [page |-> "event", map |-> {}, selected |-> {}, loading |-> None,
              load |-> "ask", list |-> {}, update |-> None]
CheckoutPage_Loading(o) == [page |-> "checkout", order |-> o, status |-> "LOADING", saving |-> None]
CheckoutPage(o) == [page |-> "checkout", order |-> o, status |-> None, saving |-> None]
PaymentPage(p) == [page |-> "payment", payment |-> p, status |-> None]
OrdersPage(success) == [page |-> "orders", success |-> success,
    paid |-> {o \in Checkouts : OrderExists(o) /\ orders[o].status = "PAID"},
    unpaid |-> {o \in Checkouts : OrderExists(o) /\ orders[o].status # "PAID"}]

Shows(page) == tab.page = page

(* The interval of a page that was left is cleared.  Of the replies still on *)
(* their way to it only SUCCESS has an effect.                               *)
Open(page) ==
    /\ tab' = page
    /\ polls' = {r \in polls : r[2] = "SUCCESS"}

BuyerInit ==
    /\ Init
    /\ tab = EventPage
    /\ clicks = [c \in Checkouts |-> [pc |-> "idle", asked |-> {}, todo |-> {}]]
    /\ paying = {} /\ polls = {} /\ redirects = {}
    /\ phone = [payment |-> None, status |-> None, confirm |-> None]
    /\ chosen = [p \in Pays |-> None]

-----------------------------------------------------------------------------
(* What the pages offer *)

SeatOffered(s) == Shows("event") /\ s \in tab.map
CheckoutOffered == Shows("event") /\ tab.selected # {} /\ tab.loading = None
PayOffered == Shows("checkout") /\ tab.status \notin {None, "PAID"} /\ tab.saving = None
SimulatorOffered == Shows("payment") /\ tab.status # None
TicketsOffered == SimulatorOffered /\ tab.status = "SUCCESS"
ConfirmOffered == phone.payment # None /\ phone.confirm = None /\ phone.status # "SUCCESS"

(* TicketCard: an order that was PAID when the list was loaded shows its     *)
(* tickets, any other `Lanjut bayar`.                                        *)
PayLaterOffered(o) == Shows("orders") /\ o \in tab.unpaid

-----------------------------------------------------------------------------
(* Event page *)

(* loadSeats, on mount: GET seats?refresh=1 *)
LoadSeats ==
    /\ Shows("event") /\ tab.load = "ask"
    /\ tab' = [tab EXCEPT !.load = "reply", !.list = Available]
    /\ UNCHANGED <<vars, clicks, paying, polls, redirects, phone, chosen>>

(* setSeats only: what was selected meanwhile stays selected                 *)
ListReply ==
    /\ Shows("event") /\ tab.load = "reply"
    /\ tab' = [tab EXCEPT !.load = "done", !.map = tab.list, !.list = {}]
    /\ UNCHANGED <<vars, clicks, paying, polls, redirects, phone, chosen>>

(* The list a lock call, this buyer's or another's, reads for its broadcast  *)
LockQuery ==
    /\ Shows("event") /\ tab.update = None
    /\ tab' = [tab EXCEPT !.update = Available]
    /\ UNCHANGED <<vars, clicks, paying, polls, redirects, phone, chosen>>

(* seats:update: what is gone also leaves the selection, in a click or not   *)
SeatsUpdate ==
    /\ Shows("event") /\ tab.update # None
    /\ tab' = [tab EXCEPT !.map = tab.update, !.update = None, !.selected = @ \intersect tab.update]
    /\ UNCHANGED <<vars, clicks, paying, polls, redirects, phone, chosen>>

(* Also while handleCheckout runs: the seat map does not look at `loading`.  *)
ToggleSeat(s) ==
    /\ SeatOffered(s)
    /\ LET next == IF s \in tab.selected THEN tab.selected \ {s} ELSE tab.selected \union {s}
       IN  Cardinality(next) <= MaxPick /\ tab' = [tab EXCEPT !.selected = next]
    /\ UNCHANGED <<vars, clicks, paying, polls, redirects, phone, chosen>>

ClickCheckout(c) ==
    /\ CheckoutOffered /\ clicks[c].pc = "idle"
    /\ clicks' = [clicks EXCEPT ![c] = [pc |-> "lock", asked |-> tab.selected, todo |-> tab.selected]]
    /\ tab' = [tab EXCEPT !.loading = c]
    /\ UNCHANGED <<vars, paying, polls, redirects, phone, chosen>>

(* POST /seats/lock takes a seat, or puts it into `failed` if it is not AVAILABLE. *)
LockOne(c, s) ==
    /\ clicks[c].pc = "lock" /\ s \in clicks[c].todo
    /\ LockSeat(s)
    /\ clicks' = [clicks EXCEPT ![c].todo = @ \ {s}]
    /\ UNCHANGED <<tables, queues, failures, orderVars, gen, payVars,
                   tab, paying, polls, redirects, phone, chosen>>

(* Slip: what is selected by now, as a ref instead of the closure would have it. *)
Chosen_Now(c) == IF Shows("event") THEN tab.selected ELSE {}
Chosen(c) == clicks[c].asked

(* The lock's reply is 200 whatever `failed` holds, and it is not looked at. *)
PostCheckout(c) ==
    /\ clicks[c].pc = "lock" /\ clicks[c].todo = {}
    /\ CheckoutLookup(c, c, Chosen(c))
    /\ clicks' = [clicks EXCEPT ![c].pc = "checkout"]
    /\ UNCHANGED <<gen, payVars, tab, paying, polls, redirects, phone, chosen>>

CheckoutReply(c) ==
    /\ clicks[c].pc = "checkout"
    /\ \/ AtCheckout(c, "done") /\ Open(CheckoutPage(c))
       \/ AtCheckout(c, "failed") /\ UNCHANGED polls /\
          tab' = IF Shows("event") /\ tab.loading = c THEN [tab EXCEPT !.loading = None] ELSE tab
    /\ clicks' = [clicks EXCEPT ![c].pc = "done"]
    /\ UNCHANGED <<vars, paying, redirects, phone, chosen>>

-----------------------------------------------------------------------------
(* Checkout page *)

LoadOrder ==
    /\ Shows("checkout") /\ tab.status = None
    /\ tab' = [tab EXCEPT !.status = orders[tab.order].status]
    /\ UNCHANGED <<vars, clicks, paying, polls, redirects, phone, chosen>>

(* Slip: a new key for every attempt. *)
PayKey_Fresh(p, method) == p
PayKey(p, method) == method

(* Calls of pay are named in the order they are made. *)
ContinuePayment(p, method) ==
    /\ PayOffered /\ AtPay(p, "idle") /\ p = CHOOSE q \in Pays : AtPay(q, "idle")
    /\ PayLookup(p, tab.order, PayKey(p, method), orders[tab.order].total_amount)
    /\ tab' = [tab EXCEPT !.saving = p]
    /\ paying' = paying \union {p}
    /\ chosen' = [chosen EXCEPT ![p] = method]
    /\ UNCHANGED <<orderVars, clicks, polls, redirects, phone>>

(* The reply names the session of that key, this call's or an earlier one's; *)
(* it is followed from wherever the buyer is by now.                         *)
PayReply(p) ==
    /\ p \in paying /\ paying' = paying \ {p}
    /\ \/ /\ AtPay(p, "done")
          /\ \E q \in Pays : /\ PaymentExists(q) /\ payments[q].idempotency_key = payReq[p].key
                             /\ Open(PaymentPage(q))
       \/ /\ AtPay(p, "failed") /\ UNCHANGED polls
          /\ tab' = IF Shows("checkout") /\ tab.saving = p THEN [tab EXCEPT !.saving = None] ELSE tab
    /\ UNCHANGED <<vars, clicks, redirects, phone, chosen>>

-----------------------------------------------------------------------------
(* Payment page *)

(* Slip: only until there is a status to show. *)
Polling_Once == Shows("payment") /\ tab.status = None
(* Every 3 s, whether or not the last reply has come: replies may overtake.  *)
Polling == Shows("payment")

Poll ==
    /\ Polling
    /\ polls' = polls \union {<<tab.payment, payments[tab.payment].status>>}
    /\ UNCHANGED <<vars, tab, clicks, paying, redirects, phone, chosen>>

(* The last reply to arrive is shown; SUCCESS starts the timer, also from a  *)
(* page that was left.                                                       *)
PollReply(r) ==
    /\ r \in polls /\ polls' = polls \ {r}
    /\ tab' = IF Shows("payment") /\ tab.payment = r[1] THEN [tab EXCEPT !.status = r[2]] ELSE tab
    /\ redirects' = IF r[2] = "SUCCESS" THEN redirects \union {OrderOf(r[1])} ELSE redirects
    /\ UNCHANGED <<vars, clicks, paying, phone, chosen>>

Redirect(o) ==
    /\ o \in redirects /\ redirects' = redirects \ {o}
    /\ Open(OrdersPage(o))
    /\ UNCHANGED <<vars, clicks, paying, phone, chosen>>

-----------------------------------------------------------------------------
(* Phone *)

(* Its status is loaded once. *)
OpenSimulator ==
    /\ SimulatorOffered /\ phone.confirm = None
    /\ phone' = [phone EXCEPT !.payment = tab.payment, !.status = payments[tab.payment].status]
    /\ UNCHANGED <<vars, tab, clicks, paying, polls, redirects, chosen>>

ConfirmPayment(k) ==
    /\ ConfirmOffered
    /\ ConfirmSession(k, phone.payment)
    /\ phone' = [phone EXCEPT !.confirm = k]
    /\ UNCHANGED <<orderVars, tab, clicks, paying, polls, redirects, chosen>>

(* Slip: whatever the call came to, it is shown as paid. *)
AfterError_Paid == "SUCCESS"
AfterError == phone.status

ConfirmReply ==
    /\ phone.confirm # None
    /\ \/ /\ AtConfirm(phone.confirm, "done")
          /\ phone' = [phone EXCEPT !.confirm = None, !.status = payments[phone.payment].status]
       \/ /\ AtConfirm(phone.confirm, "failed")
          /\ phone' = [phone EXCEPT !.confirm = None, !.status = AfterError]
    /\ UNCHANGED <<vars, tab, clicks, paying, polls, redirects, chosen>>

-----------------------------------------------------------------------------
(* Links of the pages, and of the navigation bar that is on all of them.     *)
(* Bound: back to the event page only while there is a click left to make.   *)

Navigate ==
    /\ \/ (\E c \in Checkouts : clicks[c].pc = "idle") /\ Open(EventPage)
       \/ Open(OrdersPage(None))
       \/ TicketsOffered /\ Open(OrdersPage(OrderOf(tab.payment)))
       \/ SimulatorOffered /\ Open(CheckoutPage(OrderOf(tab.payment)))
       \/ \E o \in Checkouts : PayLaterOffered(o) /\ Open(CheckoutPage(o))
    /\ UNCHANGED <<vars, clicks, paying, redirects, phone, chosen>>

(* A reply gets lost, or says that the call failed, though it was carried    *)
(* out: an error is shown.  Whatever the lock call still takes then, it      *)
(* takes like another buyer's.                                               *)
ReplyLost ==
    /\ failures < MaxFailures /\ failures' = failures + 1
    /\ \/ /\ \E r \in polls : polls' = polls \ {r}
          /\ UNCHANGED <<tab, clicks, paying, phone>>
       \/ /\ \E c \in Checkouts :
                /\ clicks[c].pc \in {"lock", "checkout"} /\ clicks' = [clicks EXCEPT ![c].pc = "done"]
                /\ tab' = IF Shows("event") /\ tab.loading = c THEN [tab EXCEPT !.loading = None] ELSE tab
          /\ UNCHANGED <<polls, paying, phone>>
       \/ /\ \E p \in paying :
                /\ paying' = paying \ {p}
                /\ tab' = IF Shows("checkout") /\ tab.saving = p THEN [tab EXCEPT !.saving = None] ELSE tab
          /\ UNCHANGED <<polls, clicks, phone>>
       \/ /\ phone.confirm # None /\ phone' = [phone EXCEPT !.confirm = None]
          /\ UNCHANGED <<tab, clicks, paying, polls>>
    /\ UNCHANGED <<seats, tables, queues, orderVars, gen, payVars, redirects, chosen>>

(* Everything of Booking but the calls of checkout, pay and confirm, which   *)
(* the pages make: orders are also cancelled, refunded and patched, by the   *)
(* admin panel and by who else has a token.                                  *)
ServiceStep ==
    \/ SeatServiceHold
    \/ OrderRest /\ UNCHANGED <<gen, payVars>>
    \/ PaymentRest /\ UNCHANGED orderVars
    \/ QueueWorkerNext
    \/ Fault

BuyerStep ==
    \/ LoadSeats \/ ListReply \/ LockQuery \/ SeatsUpdate
    \/ \E s \in Seats : ToggleSeat(s)
    \/ \E c \in Checkouts :
        ClickCheckout(c) \/ PostCheckout(c) \/ CheckoutReply(c) \/ \E s \in Seats : LockOne(c, s)
    \/ LoadOrder
    \/ \E p \in Pays : PayReply(p) \/ \E method \in Methods : ContinuePayment(p, method)
    \/ Poll \/ \E r \in polls : PollReply(r)
    \/ \E o \in redirects : Redirect(o)
    \/ OpenSimulator \/ ConfirmReply \/ \E k \in Confirms : ConfirmPayment(k)
    \/ Navigate
    \/ ReplyLost

BuyerNext ==
    \/ BuyerStep
    \/ ServiceStep /\ UNCHANGED <<tab, clicks, paying, polls, redirects, phone, chosen>>

BuyerSpec == BuyerInit /\ [][BuyerNext]_buyerVars

(* The interval fires, replies that are not lost arrive, and so do timers.   *)
(* Nobody has to click.                                                      *)
BuyerFairness ==
    /\ WF_buyerVars(Poll)
    /\ \A p \in Pays : WF_buyerVars(PollReply(<<p, "SUCCESS">>))
    /\ \A o \in Checkouts : WF_buyerVars(Redirect(o))

FairBuyerSpec == BuyerSpec /\ BuyerFairness

-----------------------------------------------------------------------------
(* Properties *)

(* The map changes under an open selection and the selection under a running *)
(* handleCheckout: the order is still for the seats that were selected at    *)
(* the click, and priced as such.                                            *)
OrderIsSelection == \A c \in Checkouts : OrderExists(c) =>
    ItemsOf(c) \subseteq clicks[c].asked /\ orders[c].total_amount = clicks[c].asked

(* However replies overtake each other and timers outlive their pages, what  *)
(* tells the buyer that an order is paid is true of it: it was charged, or   *)
(* an administrator has set it PAID.                                         *)
PaidScreensTrue ==
    /\ \A o \in redirects : Charged(o)
    /\ Shows("orders") => /\ \A o \in tab.paid : Charged(o) \/ "PAID" \in PatchStatuses
                          /\ tab.success # None => Charged(tab.success)
    /\ TicketsOffered => Charged(OrderOf(tab.payment))
    /\ phone.status = "SUCCESS" => Charged(OrderOf(phone.payment))

(* A buyer who chooses a method again, after an error, a lost reply or from  *)
(* `Lanjut bayar`, gets the session that the order and method already have.  *)
RetryFindsSession == \A p, q \in Pays :
    /\ PaymentExists(p) /\ PaymentExists(q)
    /\ OrderOf(p) = OrderOf(q) /\ chosen[p] = chosen[q]
    => p = q

(* A buyer who waits on the payment page does not wait there for ever once   *)
(* the payment is confirmed, unless it is refunded first.                    *)
PaymentShownIs(status) == Shows("payment") /\ payments[tab.payment].status = status
ConfirmedIsShown == PaymentShownIs("SUCCESS") ~> ~ Shows("payment") \/ PaymentShownIs("REFUNDED")
=============================================================================
