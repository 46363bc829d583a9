-------------------------- MODULE BuyerPagesProofs --------------------------
(* The pages of one buyer, for any seats, orders, payments, methods and      *)
(* bounds: what they say of an order is true of it, the order is what was    *)
(* selected, and a method has one session.                                   *)
EXTENDS BuyerPages, BookingProofs

(* A run of handleCheckout makes its own order, for the seats of its click,  *)
(* and only a confirm or an administrator marks it as paid.                  *)
ClickOK(c) ==
    /\ clicks[c].pc \in {"idle", "lock"} => checkoutReq[c].pc = "idle"
    /\ clicks[c].pc = "lock" => clicks[c].asked # {}
    /\ checkoutReq[c].pc # "idle" => checkoutReq[c].key = c /\ checkoutReq[c].asked = clicks[c].asked
    /\ checkoutReq[c].pc = "done" => OrderExists(c)
    /\ OrderExists(c) => /\ orders[c].idempotency_key = c
                         /\ orders[c].total_amount = clicks[c].asked
                         /\ orders[c].status = "PAID" => Charged(c) \/ "PAID" \in PatchStatuses

(* A call of pay carries its method, and its payment succeeds by a charge.   *)
MethodOK(p) ==
    /\ payReq[p].pc # "idle" => payReq[p].key = chosen[p]
    /\ PaymentExists(p) => /\ payments[p].idempotency_key = chosen[p]
                           /\ payments[p].status = "SUCCESS" => Succeeded(p)

(* UNIQUE(idempotency_key), as the INSERT keeps it.                          *)
OneSession == \A p, q \in Pays :
    /\ PaymentExists(p) /\ PaymentExists(q)
    /\ payments[p].idempotency_key = payments[q].idempotency_key
    => p = q

(* What the tab, the phone and the replies on their way to them say          *)
ShownTrue(t) ==
    /\ t.page = "checkout" => OrderExists(t.order)
    /\ t.page = "payment" => /\ PaymentExists(t.payment)
                             /\ t.status = "SUCCESS" => Succeeded(t.payment)
    /\ t.page = "orders" => /\ \A o \in t.unpaid : OrderExists(o)
                            /\ \A o \in t.paid : Charged(o) \/ "PAID" \in PatchStatuses
                            /\ t.success # None => Charged(t.success)
ReplyTrue(r) == PaymentExists(r[1]) /\ (r[2] = "SUCCESS" => Succeeded(r[1]))
PhoneTrue(ph) ==
    /\ ph.payment # None => PaymentExists(ph.payment)
    /\ ph.status = "SUCCESS" => ph.payment # None /\ Succeeded(ph.payment)
    /\ ph.confirm # None => ph.payment # None

ClicksInv == \A c \in Checkouts : ClickOK(c)
MethodsInv == (\A p \in Pays : MethodOK(p)) /\ OneSession
ScreensInv ==
    /\ ShownTrue(tab) /\ PhoneTrue(phone)
    /\ \A r \in polls : ReplyTrue(r)
    /\ \A o \in redirects : Charged(o)

BuyerInv == Inv /\ BuyerTypeOK /\ ClicksInv /\ MethodsInv /\ ScreensInv

USE DatabaseAssumption, BookingAssumption, BuyerAssumption

-----------------------------------------------------------------------------
(* The pages in front of Booking: each of their steps is one of Booking's,   *)
(* or leaves it alone, or is a call of pay, which a page also makes for an   *)
(* order whose checkout has not answered.                                    *)

LEMMA PayEarlier ==
    ASSUME Inv, NEW p \in Pays, NEW o \in Checkouts, NEW key \in Keys, NEW amount \in SUBSET Seats,
           OrderExists(o), PayLookup(p, o, key, amount), UNCHANGED orderVars
    PROVE  Inv' /\ Kept
<1>0. /\ UNCHANGED <<seats, tables, queues, failures, gen, confirmReq, refundReq, orderVars>>
      /\ key # None
  BY DEF PayLookup, DatabaseAssumption
<1> DEFINE row == [order |-> o, key |-> key, amount |-> amount,
                   pc |-> IF PaymentKeyTaken(key) THEN "done" ELSE "order"]
<1>1. /\ payReq' = [payReq EXCEPT ![p] = row] /\ payReq[p].pc = "idle"
      /\ row.order = o /\ row.key = key /\ row.pc \in {"done", "order"}
      /\ row \in [pc : {"idle", "order", "insert", "done", "failed"},
                  order : Checkouts \union {None}, key : Keys \union Pays \union {None},
                  amount : SUBSET Seats]
  BY DEF PayLookup, AtPay
<1>. HIDE DEF row
<1>2. /\ PaymentTypeOK' /\ payReq'[p] = row
      /\ \A q \in Pays : q # p => payReq'[q] = payReq[q]
  BY <1>0, <1>1 DEF Inv, TypeOK, PaymentTypeOK
<1>3. TypeOK'
  BY <1>0, <1>2 DEF Inv, TypeOK, DatabaseTypeOK, OrderTypeOK, GenTypeOK, tables, queues, orderVars
<1>4. PayInv'
  BY <1>0, <1>1, <1>2 DEF Inv, CallsInv, PayInv, PayOK, PaymentExists, OrderExists, tables
<1>5. CallsInv'
  BY <1>0, <1>4 DEF Inv, CallsInv, CheckoutInv, CheckoutOK, CancelInv, CancelOK, ConfirmInv, ConfirmOK,
         ChargeInv, ChargeOK, RefundInv, RefundOK, OrderExists, PaymentExists, Succeeded, ItemsOf,
         tables, queues, orderVars
<1>6. PrintInv' /\ TicketsArePaid' /\ SeatStatusBacked' /\ OneTicketEach'
  BY <1>0 DEF Inv, PrintInv, GenInv, GenOK, TurnInv, TurnOK, TicketsArePaid, SeatStatusBacked, OneTicketEach,
         Charged, Succeeded, PaymentExists, HasTicket, tables, queues
<1>7. HeldStaysHeld' /\ PaidUnlessUndone'
  BY <1>0 DEF Inv, HeldStaysHeld, Held, Reserved, Reopenable, PaidUnlessUndone, Succeeded, PaymentExists,
         AtConfirm, tables, queues, orderVars
<1>8. Kept
  BY <1>0 DEF Kept, OrderExists, PaymentExists, Succeeded, tables
<1>. QED BY <1>3, <1>5, <1>6, <1>7, <1>8 DEF Inv

LEMMA StillKept == ASSUME UNCHANGED tables PROVE Kept
  BY DEF Kept, OrderExists, PaymentExists, Succeeded, tables

LEMMA ServiceNext == ASSUME ServiceStep PROVE Next
BY DEF ServiceStep, Next, OrderServiceNext, OrderNext, PaymentServiceNext, PaymentNext

LEMMA NextKeeps == ASSUME Inv, Next PROVE Inv' /\ Kept
<1>1. TypeOK /\ CallsInv
  BY DEF Inv
<1>. QED BY <1>1, InvStep, Keeping

LEMMA LockKeeps == ASSUME Inv, NEW c \in Checkouts, NEW s \in Seats, LockOne(c, s) PROVE Inv' /\ Kept
<1>1. UNCHANGED <<tables, queues, failures, orderVars, gen, payVars>> /\ LockSeat(s)
  BY DEF LockOne
<1>2. CASE SeatHold
  <2>1. Next
    BY <1>1, <1>2 DEF Next, SeatServiceHold
  <2>. QED BY <2>1, NextKeeps
<1>3. CASE UNCHANGED seats
  <2>1. failures' \in Nat
    BY <1>1 DEF Inv, TypeOK, DatabaseTypeOK
  <2>. QED BY <1>1, <1>3, <2>1, InvIdle, StillKept
<1>. QED BY <1>1, <1>2, <1>3 DEF LockSeat, SeatHold

LEMMA PostKeeps == ASSUME Inv, ClicksInv, NEW c \in Checkouts, clicks[c].asked \in SUBSET Seats, PostCheckout(c)
                   PROVE  Inv' /\ Kept
<1>1. /\ CheckoutLookup(c, c, clicks[c].asked) /\ UNCHANGED <<gen, payVars>>
      /\ clicks[c].asked \in (SUBSET Seats) \ {{}}
  BY DEF PostCheckout, Chosen, ClicksInv, ClickOK
<1>2. Next
  BY <1>1 DEF Next, OrderServiceNext, OrderNext, CheckoutCall
<1>. QED BY <1>2, NextKeeps

LEMMA ContinueKeeps ==
    ASSUME BuyerInv, NEW p \in Pays, NEW method \in Methods, ContinuePayment(p, method)
    PROVE  Inv' /\ Kept
<1>1. tab.order \in Checkouts /\ OrderExists(tab.order)
  BY DEF ContinuePayment, PayOffered, Shows, BuyerInv, BuyerTypeOK, Page, ScreensInv, ShownTrue
<1>2. orders[tab.order].total_amount \in SUBSET Seats
  BY <1>1 DEF BuyerInv, Inv, TypeOK, DatabaseTypeOK, Order, OrderExists
<1>3. PayLookup(p, tab.order, method, orders[tab.order].total_amount) /\ UNCHANGED orderVars /\ method \in Keys
  BY DEF ContinuePayment, PayKey, Methods
<1>. QED BY <1>1, <1>2, <1>3, PayEarlier DEF BuyerInv

LEMMA ConfirmKeeps == ASSUME BuyerInv, NEW k \in Confirms, ConfirmPayment(k) PROVE Inv' /\ Kept
<1>1. phone.payment \in Pays /\ ConfirmSession(k, phone.payment) /\ UNCHANGED orderVars
  BY DEF ConfirmPayment, ConfirmOffered, BuyerInv, BuyerTypeOK, Opt
<1>2. Next
  BY <1>1 DEF Next, PaymentServiceNext, PaymentNext, PaymentCall
<1>. QED BY <1>2, NextKeeps DEF BuyerInv

(* Every other step of the pages leaves Booking alone, or counts a failure.  *)
LEMMA IdleKeeps == ASSUME Inv, UNCHANGED vars \/ ReplyLost PROVE Inv' /\ Kept
<1>1. /\ UNCHANGED <<seats, tables, queues, orderVars, gen, payVars>>
      /\ failures' \in Nat
  BY DEF vars, ReplyLost, Inv, TypeOK, DatabaseTypeOK
<1>. QED BY <1>1, InvIdle, StillKept

-----------------------------------------------------------------------------
(* Who writes what, of the services behind the pages: calls of checkout and  *)
(* of pay come from the pages alone.                                         *)

LEMMA ServiceCheckouts ==
    ASSUME ServiceStep
    PROVE  \/ UNCHANGED checkoutReq
           \/ \E c \in Checkouts : CheckoutSeats(c) \/ CheckoutInsert(c) \/ CheckoutReserve(c) \/ CheckoutPublish(c)
           \/ \E c \in Checkouts, s \in Seats : CheckoutItem(c, s)
           \/ OrderHandlerDies
<1>1. ASSUME OrderRest  PROVE UNCHANGED checkoutReq \/ \E c \in Checkouts : CheckoutStep(c)
  BY <1>1, Zenon DEF OrderRest, CancelStep, CancelLookup, CancelMark, CancelItems, CancelReopen, PatchStatus, orderVars
<1>2. ASSUME UNCHANGED orderVars  PROVE UNCHANGED checkoutReq
  BY <1>2 DEF orderVars
<1>3. SeatServiceHold => UNCHANGED orderVars
  BY DEF SeatServiceHold
<1>4. QueueWorkerNext => UNCHANGED orderVars
  BY DEF QueueWorkerNext
<1>5. Fault => OrderHandlerDies \/ UNCHANGED orderVars
  BY DEF Fault
<1>. QED BY <1>1, <1>2, <1>3, <1>4, <1>5, Zenon DEF ServiceStep, CheckoutStep

LEMMA ServicePays ==
    ASSUME ServiceStep
    PROVE  \/ UNCHANGED payReq
           \/ \E p \in Pays : PayOrder(p) \/ PayInserts(p)
           \/ PaymentHandlerDies
<1>1. ASSUME PaymentRest  PROVE UNCHANGED payReq \/ \E p \in Pays : PayStep(p)
  BY <1>1, Zenon DEF PaymentRest, ConfirmStep, ConfirmCharge, ConfirmPaid, ConfirmTickets, ConfirmPublish,
                     RefundPayment, RefundStep, RefundOrder, payVars
<1>2. ASSUME UNCHANGED payVars  PROVE UNCHANGED payReq
  BY <1>2 DEF payVars
<1>3. SeatServiceHold => UNCHANGED payVars
  BY DEF SeatServiceHold
<1>4. QueueWorkerNext => UNCHANGED payVars
  BY DEF QueueWorkerNext
<1>5. Fault => PaymentHandlerDies \/ UNCHANGED payVars \/ \E p \in Pays : PayInserts(p)
  BY DEF Fault, PayPublishFails, PayInserts
<1>. QED BY <1>1, <1>2, <1>3, <1>4, <1>5, Zenon DEF ServiceStep, PayStep, PayInsert, PayInserts

-----------------------------------------------------------------------------
(* The runs of handleCheckout and their orders *)

LEMMA OrderRow ==
    ASSUME TypeOK, NEW o \in Checkouts, OrderExists(o), NEW status \in OrderStatus, SetOrderStatus(o, status)
    PROVE  /\ orders'[o].idempotency_key = orders[o].idempotency_key
           /\ orders'[o].total_amount = orders[o].total_amount /\ orders'[o].status = status
           /\ \A c \in Checkouts : c # o => orders'[c] = orders[c]
           /\ \A c \in Checkouts : OrderExists(c)' <=> OrderExists(c)
<1>1. orders[o] \in Order /\ orders' = [orders EXCEPT ![o] = [orders[o] EXCEPT !.status = status]]
      /\ orders \in [Checkouts -> Order \union {None}]
  BY DEF TypeOK, DatabaseTypeOK, OrderExists, SetOrderStatus
<1>2. [orders[o] EXCEPT !.status = status] \in Order
      /\ [orders[o] EXCEPT !.status = status].status = status
      /\ [orders[o] EXCEPT !.status = status].idempotency_key = orders[o].idempotency_key
      /\ [orders[o] EXCEPT !.status = status].total_amount = orders[o].total_amount
  BY <1>1 DEF Order
<1>. QED BY <1>1, <1>2, StatusWritten

(* The order of each call after a step of the services.                      *)
LEMMA OrdersKept ==
    ASSUME BuyerInv, ServiceStep, UNCHANGED clicks, Kept, NEW c \in Checkouts, OrderExists(c)'
    PROVE  /\ orders'[c].idempotency_key = c /\ orders'[c].total_amount = clicks[c].asked
           /\ orders'[c].status = "PAID" => Charged(c)' \/ "PAID" \in PatchStatuses
<1>0. TypeOK /\ CallsInv /\ ClickOK(c) /\ (Charged(c) => Charged(c)')
  BY KeptDerived DEF BuyerInv, Inv, ClicksInv
<1>1. CASE UNCHANGED orders
  BY <1>0, <1>1 DEF ClickOK, OrderExists
<1>2. ASSUME NEW d \in Checkouts, CheckoutInsert(d)
      PROVE  /\ orders'[c].idempotency_key = c /\ orders'[c].total_amount = clicks[c].asked
             /\ orders'[c].status = "PAID" => Charged(c)' \/ "PAID" \in PatchStatuses
  <2>1. CASE c # d
    <3>1. orders'[c] = orders[c]
      BY <1>0, <1>2, <2>1, CheckoutInserted
    <3>. QED BY <1>0, <3>1 DEF ClickOK, OrderExists
  <2>2. CASE c = d
    <3> DEFINE row == [status |-> "PENDING", idempotency_key |-> checkoutReq[c].key,
                       total_amount |-> checkoutReq[c].asked]
    <3>1. ~ OrderExists(c) /\ checkoutReq[c].pc = "insert"
      BY <1>0, <1>2, <2>2, CheckoutInserted DEF CheckoutInsert, AtCheckout
    <3>2. orders' = [orders EXCEPT ![c] = row]
      BY <1>2, <2>2, <3>1 DEF CheckoutInsert, OnKeyTaken, OrderExists
    <3>3. row.idempotency_key = c /\ row.total_amount = clicks[c].asked /\ row.status # "PAID"
      BY <1>0, <3>1 DEF ClickOK
    <3>. HIDE DEF row
    <3>4. orders'[c] = row
      BY <1>0, <3>2 DEF TypeOK, DatabaseTypeOK
    <3>. QED BY <3>3, <3>4
  <2>. QED BY <2>1, <2>2
<1>3. ASSUME NEW o \in Checkouts, OrderExists(o), NEW status \in OrderStatus, SetOrderStatus(o, status),
             status = "PAID" => Charged(o) \/ "PAID" \in PatchStatuses
      PROVE  /\ orders'[c].idempotency_key = c /\ orders'[c].total_amount = clicks[c].asked
             /\ orders'[c].status = "PAID" => Charged(c)' \/ "PAID" \in PatchStatuses
  BY <1>0, <1>3, OrderRow DEF ClickOK
<1>4. ASSUME NEW k \in Confirms, ConfirmPaid(k)
      PROVE  PaidOrder(k) \in Checkouts /\ OrderExists(PaidOrder(k)) /\ Charged(PaidOrder(k))
             /\ SetOrderStatus(PaidOrder(k), "PAID")
  <2>1. PaidOrder(k) \in Checkouts /\ Charged(PaidOrder(k))
    BY <1>0, <1>4, PaidOrderCharged
  <2>2. OrderExists(PaidOrder(k))
    BY <1>0, <2>1 DEF Charged, Succeeded, CallsInv, PayInv, PayOK
  <2>. QED BY <1>4, <2>1, <2>2 DEF ConfirmPaid
<1>5. ASSUME NEW o \in Checkouts, OrderProcess(o)
      PROVE  OrderExists(o) /\ SetOrderStatus(o, "PROCESSING")
  BY <1>0, <1>5 DEF OrderProcess, CallsInv, CheckoutInv, CheckoutOK
<1>6. ASSUME NEW x \in Cancels, CancelMark(x)
      PROVE  LET o == cancelReq[x].order
             IN  o \in Checkouts /\ OrderExists(o) /\ SetOrderStatus(o, "CANCELLED")
  BY <1>0, <1>6 DEF CallsInv, CancelInv, CancelOK, CancelMark, AtCancel
<1>7. ASSUME NEW f \in Refunds, RefundOrder(f)
      PROVE  LET o == payments[refundReq[f].payment].order_id
             IN  o \in Checkouts /\ OrderExists(o) /\ SetOrderStatus(o, "REFUNDED")
  BY <1>0, <1>7 DEF CallsInv, RefundInv, RefundOK, PayInv, PayOK, RefundOrder, PaymentExists,
                    TypeOK, DatabaseTypeOK, Payment
<1>8. ASSUME NEW o \in Checkouts, NEW status \in PatchStatuses, PatchStatus(o, status)
      PROVE  OrderExists(o) /\ SetOrderStatus(o, status) /\ status \in OrderStatus
  BY <1>8 DEF PatchStatus, BookingAssumption
<1>9. Next
  BY ServiceNext
<1>. QED BY <1>1, <1>2, <1>3, <1>4, <1>5, <1>6, <1>7, <1>8, <1>9, OrdersWriters DEF OrderStatus

LEMMA ClicksServed ==
    ASSUME BuyerInv, ServiceStep, UNCHANGED clicks, Kept
    PROVE  ClicksInv'
<1>. SUFFICES ASSUME NEW c \in Checkouts  PROVE ClickOK(c)'
  BY DEF ClicksInv
<1>0. ClickOK(c) /\ CheckoutOK(c) /\ checkoutReq \in [Checkouts ->
            [pc : {"idle", "seats", "insert", "item", "reserve", "publish", "done", "failed"},
             key : Keys \union Checkouts \union {None}, asked : SUBSET Seats,
             todo : SUBSET Seats, seat : Seats \union {None}]]
  BY DEF BuyerInv, Inv, ClicksInv, CallsInv, CheckoutInv, TypeOK, OrderTypeOK
<1>1. /\ checkoutReq'[c].key = checkoutReq[c].key /\ checkoutReq'[c].asked = checkoutReq[c].asked
      /\ checkoutReq'[c].pc = "idle" <=> checkoutReq[c].pc = "idle"
      /\ checkoutReq'[c].pc = "done" => checkoutReq[c].pc \in {"publish", "done"}
  <2>1. CASE UNCHANGED checkoutReq
    BY <2>1
  <2>2. ASSUME NEW d \in Checkouts, CheckoutSeats(d)  PROVE <1>1!:
    BY <1>0, <2>2 DEF CheckoutSeats, AtCheckout
  <2>3. ASSUME NEW d \in Checkouts, CheckoutInsert(d)  PROVE <1>1!:
    BY <1>0, <2>3 DEF CheckoutInsert, AtCheckout
  <2>4. ASSUME NEW d \in Checkouts, CheckoutReserve(d)  PROVE <1>1!:
    BY <1>0, <2>4 DEF CheckoutReserve, AtCheckout
  <2>5. ASSUME NEW d \in Checkouts, CheckoutPublish(d)  PROVE <1>1!:
    BY <1>0, <2>5 DEF CheckoutPublish, AtCheckout
  <2>6. ASSUME NEW d \in Checkouts, NEW s \in Seats, CheckoutItem(d, s)  PROVE <1>1!:
    BY <1>0, <2>6 DEF CheckoutItem, AtCheckout
  <2>7. CASE OrderHandlerDies
    BY <1>0, <2>7 DEF OrderHandlerDies
  <2>. QED BY <2>1, <2>2, <2>3, <2>4, <2>5, <2>6, <2>7, ServiceCheckouts
<1>2. checkoutReq'[c].pc = "done" => OrderExists(c)'
  BY <1>0, <1>1 DEF ClickOK, CheckoutOK, Kept
<1>. QED BY <1>0, <1>1, <1>2, OrdersKept DEF ClickOK

-----------------------------------------------------------------------------
(* The calls of pay and their payments *)

LEMMA PayCallServed ==
    ASSUME TypeOK, ServiceStep, NEW p \in Pays
    PROVE  /\ payReq'[p].pc = "idle" <=> payReq[p].pc = "idle"
           /\ payReq'[p].key = payReq[p].key
<1>0. payReq \in [Pays -> [pc : {"idle", "order", "insert", "done", "failed"},
                          order : Checkouts \union {None}, key : Keys \union Pays \union {None},
                          amount : SUBSET Seats]]
  BY DEF TypeOK, PaymentTypeOK
<1>1. ASSUME NEW d \in Pays, PayOrder(d)
      PROVE  /\ payReq'[p].pc = "idle" <=> payReq[p].pc = "idle"
             /\ payReq'[p].key = payReq[p].key
  BY <1>0, <1>1 DEF PayOrder, AtPay
<1>2. ASSUME NEW d \in Pays, PayInserts(d)
      PROVE  /\ payReq'[p].pc = "idle" <=> payReq[p].pc = "idle"
             /\ payReq'[p].key = payReq[p].key
  BY <1>0, <1>2 DEF PayInserts, InsertPayment, AtPay
<1>3. CASE PaymentHandlerDies
  BY <1>0, <1>3 DEF PaymentHandlerDies
<1>. QED BY <1>1, <1>2, <1>3, ServicePays

(* A new payment has the key of its call, which no other has.                *)
LEMMA PayRow ==
    ASSUME BuyerInv, NEW d \in Pays, PayInserts(d)
    PROVE  \/ UNCHANGED payments
           \/ /\ ~ PaymentKeyTaken(chosen[d])
              /\ payments'[d].idempotency_key = chosen[d] /\ payments'[d].status # "SUCCESS"
              /\ \A q \in Pays : q # d => payments'[q] = payments[q]
<1>1. payReq[d].pc = "insert" /\ payReq[d].key = chosen[d]
  BY DEF BuyerInv, MethodsInv, MethodOK, PayInserts, InsertPayment, AtPay
<1>. DEFINE row == [order_id |-> payReq[d].order, status |-> "PENDING",
                     idempotency_key |-> payReq[d].key, transaction_id |-> None]
<1>2. UNCHANGED payments \/ (payments' = [payments EXCEPT ![d] = row] /\ ~ PaymentKeyTaken(chosen[d]))
  BY <1>1 DEF PayInserts, InsertPayment
<1>3. row.idempotency_key = chosen[d] /\ row.status # "SUCCESS"
  BY <1>1
<1>. HIDE DEF row
<1>. QED BY <1>2, <1>3 DEF BuyerInv, Inv, TypeOK, DatabaseTypeOK

(* A payment that is settled keeps its key.                                  *)
LEMMA SettleRow ==
    ASSUME TypeOK, CallsInv, NEW k \in Confirms, ConfirmCharge(k)
    PROVE  \E d \in Pays :
           /\ PaymentExists(d) /\ Succeeded(d)'
           /\ payments'[d].idempotency_key = payments[d].idempotency_key
           /\ \A q \in Pays : q # d => payments'[q] = payments[q]
<1>. DEFINE row == [payments[confirmReq[k].payment] EXCEPT !.status = "SUCCESS", !.transaction_id = k]
<1>1. PICK d \in Pays : d = confirmReq[k].payment /\ PaymentExists(d) /\ Settle(k)
  BY DEF ConfirmCharge, AtConfirm, CallsInv, ConfirmInv, ConfirmOK
<1>2. payments[d] \in Payment /\ payments' = [payments EXCEPT ![d] = row]
  BY <1>1 DEF TypeOK, DatabaseTypeOK, PaymentExists, Settle
<1>3. row \in Payment /\ row.idempotency_key = payments[d].idempotency_key /\ row.transaction_id = k
  BY <1>1, <1>2 DEF Payment, PaymentStatus
<1>. HIDE DEF row
<1>4. payments'[d] = row /\ \A q \in Pays : q # d => payments'[q] = payments[q]
  BY <1>1, <1>2 DEF TypeOK, DatabaseTypeOK
<1>5. Succeeded(d)'
  BY <1>3, <1>4 DEF Succeeded, PaymentExists, DatabaseAssumption
<1>. QED BY <1>1, <1>3, <1>4, <1>5

(* So does one that is refunded.                                             *)
LEMMA RefundRow ==
    ASSUME TypeOK, NEW f \in Refunds, NEW d \in Pays, RefundPayment(f, d)
    PROVE  /\ PaymentExists(d) /\ PaymentExists(d)' /\ payments'[d].status # "SUCCESS"
           /\ payments'[d].idempotency_key = payments[d].idempotency_key
           /\ \A q \in Pays : q # d => payments'[q] = payments[q]
<1>. DEFINE row == [payments[d] EXCEPT !.status = "REFUNDED"]
<1>1. PaymentExists(d) /\ payments[d] \in Payment /\ payments' = [payments EXCEPT ![d] = row]
  BY DEF RefundPayment, TypeOK, DatabaseTypeOK, PaymentExists
<1>2. row \in Payment /\ row.idempotency_key = payments[d].idempotency_key /\ row.status = "REFUNDED"
  BY <1>1 DEF Payment, PaymentStatus
<1>. HIDE DEF row
<1>3. payments'[d] = row /\ \A q \in Pays : q # d => payments'[q] = payments[q]
  BY <1>1 DEF TypeOK, DatabaseTypeOK
<1>. QED BY <1>1, <1>2, <1>3 DEF PaymentExists, DatabaseAssumption

LEMMA MethodsServed ==
    ASSUME BuyerInv, ServiceStep, UNCHANGED chosen
    PROVE  MethodsInv'
<1>0. TypeOK /\ CallsInv /\ (\A p \in Pays : MethodOK(p)) /\ OneSession
  BY DEF BuyerInv, Inv, MethodsInv
<1>. DEFINE Row(p) == PaymentExists(p)' =>
              payments'[p].idempotency_key = chosen[p] /\ (payments'[p].status = "SUCCESS" => Succeeded(p)')
<1>1. CASE UNCHANGED payments
  <2>1. \A p \in Pays : Row(p)
    BY <1>0, <1>1 DEF MethodOK, PaymentExists, Succeeded
  <2>2. OneSession'
    BY <1>0, <1>1 DEF OneSession, PaymentExists
  <2>. QED BY <1>0, <2>1, <2>2, PayCallServed DEF MethodsInv, MethodOK
<1>2. ASSUME NEW d \in Pays, PayInserts(d), payments' # payments  PROVE MethodsInv'
  <2>0. /\ ~ PaymentKeyTaken(chosen[d])
        /\ payments'[d].idempotency_key = chosen[d] /\ payments'[d].status # "SUCCESS"
        /\ \A q \in Pays : q # d => payments'[q] = payments[q]
    BY <1>2, PayRow
  <2>1. \A p \in Pays : Row(p)
    BY <1>0, <2>0 DEF MethodOK, PaymentExists, Succeeded
  <2>2. OneSession'
    BY <1>0, <2>0 DEF OneSession, PaymentExists, PaymentKeyTaken
  <2>. QED BY <1>0, <2>1, <2>2, PayCallServed DEF MethodsInv, MethodOK
<1>3. ASSUME NEW k \in Confirms, ConfirmCharge(k)  PROVE MethodsInv'
  <2>0. PICK d \in Pays :
           /\ PaymentExists(d) /\ Succeeded(d)'
           /\ payments'[d].idempotency_key = payments[d].idempotency_key
           /\ \A q \in Pays : q # d => payments'[q] = payments[q]
    BY <1>0, <1>3, SettleRow
  <2>1. \A p \in Pays : Row(p)
    BY <1>0, <2>0 DEF MethodOK, PaymentExists, Succeeded
  <2>2. OneSession'
    BY <1>0, <2>0 DEF OneSession, PaymentExists
  <2>. QED BY <1>0, <2>1, <2>2, PayCallServed DEF MethodsInv, MethodOK
<1>4. ASSUME NEW f \in Refunds, NEW d \in Pays, RefundPayment(f, d)  PROVE MethodsInv'
  <2>0. /\ PaymentExists(d) /\ payments'[d].status # "SUCCESS"
        /\ payments'[d].idempotency_key = payments[d].idempotency_key
        /\ \A q \in Pays : q # d => payments'[q] = payments[q]
    BY <1>0, <1>4, RefundRow
  <2>1. \A p \in Pays : Row(p)
    BY <1>0, <2>0 DEF MethodOK, PaymentExists, Succeeded
  <2>2. OneSession'
    BY <1>0, <2>0 DEF OneSession, PaymentExists
  <2>. QED BY <1>0, <2>1, <2>2, PayCallServed DEF MethodsInv, MethodOK
<1>5. Next
  BY ServiceNext
<1>. QED BY <1>1, <1>2, <1>3, <1>4, <1>5, PaymentsWriters

(* A page that chooses a method starts a call of pay, which has no payment   *)
(* yet.                                                                      *)
LEMMA MethodsPaged ==
    ASSUME BuyerInv, UNCHANGED payments,
           \/ UNCHANGED <<payReq, chosen>>
           \/ \E p \in Pays, method \in Methods : ContinuePayment(p, method)
    PROVE  MethodsInv'
<1>0. TypeOK /\ PayInv /\ (\A p \in Pays : MethodOK(p)) /\ OneSession
  BY DEF BuyerInv, Inv, CallsInv, MethodsInv
<1>1. OneSession'
  BY <1>0 DEF OneSession, PaymentExists
<1>2. CASE UNCHANGED <<payReq, chosen>>
  BY <1>0, <1>1, <1>2 DEF MethodsInv, MethodOK, PaymentExists, Succeeded
<1>3. ASSUME NEW p \in Pays, NEW method \in Methods, ContinuePayment(p, method)
      PROVE  MethodsInv'
  <2> DEFINE row == [order |-> tab.order, key |-> method, amount |-> orders[tab.order].total_amount,
                     pc |-> IF PaymentKeyTaken(method) THEN "done" ELSE "order"]
  <2>1. /\ payReq' = [payReq EXCEPT ![p] = row] /\ payReq[p].pc = "idle"
        /\ chosen' = [chosen EXCEPT ![p] = method]
    BY <1>3 DEF ContinuePayment, PayKey, PayLookup, AtPay
  <2>2. row.key = method
    OBVIOUS
  <2>. HIDE DEF row
  <2>3. /\ payReq'[p] = row /\ chosen'[p] = method /\ ~ PaymentExists(p)
        /\ \A q \in Pays : q # p => payReq'[q] = payReq[q] /\ chosen'[q] = chosen[q]
    BY <1>0, <2>1 DEF TypeOK, PaymentTypeOK, BuyerInv, BuyerTypeOK, PayInv, PayOK
  <2>4. ASSUME NEW q \in Pays  PROVE MethodOK(q)'
    BY <1>0, <2>2, <2>3 DEF MethodOK, PaymentExists, Succeeded
  <2>. QED BY <1>1, <2>4 DEF MethodsInv
<1>. QED BY <1>2, <1>3

-----------------------------------------------------------------------------
(* What is true stays true: a status that was read may be late, but SUCCESS  *)
(* and PAID of an order that was charged do not become wrong.                *)

EventPages == [page : {"event"}, map : SUBSET Seats, selected : SUBSET Seats, loading : Opt(Checkouts),
               load : {"ask", "reply", "done"}, list : SUBSET Seats, update : Opt(SUBSET Seats)]
CheckoutPages == [page : {"checkout"}, order : Checkouts, status : Opt(OrderStatus), saving : Opt(Pays)]
PaymentPages == [page : {"payment"}, payment : Pays, status : Opt(PaymentStatus)]
OrdersPages == [page : {"orders"}, success : Opt(Checkouts), paid : SUBSET Checkouts, unpaid : SUBSET Checkouts]
Clicks == [Checkouts -> [pc : {"idle", "lock", "checkout", "done"}, asked : SUBSET Seats, todo : SUBSET Seats]]
Phones == [payment : Opt(Pays), status : Opt(PaymentStatus), confirm : Opt(Confirms)]

LEMMA PageKinds ==
    ASSUME NEW t
    PROVE  /\ t \in Page <=> t \in EventPages \union CheckoutPages \union PaymentPages \union OrdersPages
           /\ t \in EventPages => t.page = "event"
           /\ t \in CheckoutPages => t.page = "checkout"
           /\ t \in PaymentPages => t.page = "payment"
           /\ t \in OrdersPages => t.page = "orders"
BY DEF Page, EventPages, CheckoutPages, PaymentPages, OrdersPages

(* What the pages hold after a step, and that it is true before it           *)
TabSees == tab' \in Page /\ ShownTrue(tab')
RepliesSee ==
    /\ polls' \in SUBSET (Pays \X PaymentStatus) /\ \A r \in polls' : ReplyTrue(r)
    /\ redirects' \in SUBSET Checkouts /\ \A o \in redirects' : Charged(o)
PhoneSees == phone' \in Phones /\ PhoneTrue(phone')
CallsTyped == clicks' \in Clicks /\ paying' \in SUBSET Pays /\ chosen' \in [Pays -> Opt(Methods)]
Sees == TabSees /\ RepliesSee /\ PhoneSees /\ CallsTyped

LEMMA ScreensKept ==
    ASSUME TypeOK, Kept, TabSees, RepliesSee, PhoneSees
    PROVE  ScreensInv'
<1>0. \A o \in Checkouts : Charged(o) => Charged(o)'
  BY KeptDerived
<1>1. ShownTrue(tab)'
  <2>1. CASE tab' \in EventPages
    BY <2>1, PageKinds DEF ShownTrue
  <2>2. CASE tab' \in CheckoutPages
    <3>1. tab'.page = "checkout" /\ tab'.order \in Checkouts
      BY <2>2 DEF CheckoutPages
    <3>. QED BY <3>1 DEF ShownTrue, TabSees, Kept
  <2>3. CASE tab' \in PaymentPages
    <3>1. tab'.page = "payment" /\ tab'.payment \in Pays
      BY <2>3 DEF PaymentPages
    <3>. QED BY <3>1 DEF ShownTrue, TabSees, Kept
  <2>4. CASE tab' \in OrdersPages
    <3>1. /\ tab'.page = "orders" /\ tab'.unpaid \subseteq Checkouts /\ tab'.paid \subseteq Checkouts
          /\ tab'.success # None => tab'.success \in Checkouts
      BY <2>4 DEF OrdersPages, Opt
    <3>2. /\ \A o \in tab'.unpaid : OrderExists(o)
          /\ \A o \in tab'.paid : Charged(o) \/ "PAID" \in PatchStatuses
          /\ tab'.success # None => Charged(tab'.success)
      BY <3>1 DEF ShownTrue, TabSees
    <3>. QED BY <1>0, <3>1, <3>2 DEF ShownTrue, Kept
  <2>. QED BY <2>1, <2>2, <2>3, <2>4, PageKinds DEF TabSees
<1>2. PhoneTrue(phone)'
  <2>1. phone'.payment # None => phone'.payment \in Pays
    BY DEF PhoneSees, Phones, Opt
  <2>. QED BY <2>1 DEF PhoneTrue, PhoneSees, Kept
<1>3. \A r \in polls' : ReplyTrue(r)'
  BY DEF RepliesSee, ReplyTrue, Kept
<1>. QED BY <1>0, <1>1, <1>2, <1>3 DEF ScreensInv, RepliesSee

LEMMA StillSees ==
    ASSUME BuyerInv
    PROVE  /\ UNCHANGED tab => TabSees
           /\ UNCHANGED <<polls, redirects>> => RepliesSee
           /\ UNCHANGED phone => PhoneSees
           /\ UNCHANGED <<clicks, paying, chosen>> => CallsTyped
BY DEF BuyerInv, BuyerTypeOK, ScreensInv, TabSees, RepliesSee, PhoneSees, CallsTyped, Clicks, Phones

-----------------------------------------------------------------------------
(* What each step of the pages puts on the screens *)

LEMMA OrderOfPayment ==
    ASSUME BuyerInv, NEW p \in Pays, PaymentExists(p)
    PROVE  /\ OrderOf(p) \in Checkouts /\ OrderExists(OrderOf(p))
           /\ Succeeded(p) => Charged(OrderOf(p))
           /\ payments[p].status \in PaymentStatus
           /\ payments[p].status = "SUCCESS" => Succeeded(p)
<1>1. payments[p] \in Payment
  BY DEF BuyerInv, Inv, TypeOK, DatabaseTypeOK, PaymentExists
<1>. QED BY <1>1 DEF Payment, OrderOf, Charged, BuyerInv, Inv, CallsInv, PayInv, PayOK, MethodsInv, MethodOK

(* A page that opens keeps only the replies that still matter.               *)
LEMMA Opens ==
    ASSUME BuyerInv, NEW t \in Page, ShownTrue(t), Open(t)
    PROVE  /\ TabSees
           /\ redirects' \subseteq redirects => RepliesSee
BY DEF Open, TabSees, RepliesSee, BuyerInv, BuyerTypeOK, ScreensInv

LEMMA OrdersPageTrue ==
    ASSUME BuyerInv, NEW success \in Opt(Checkouts), success # None => Charged(success)
    PROVE  OrdersPage(success) \in Page /\ ShownTrue(OrdersPage(success))
<1>1. OrdersPage(success) \in OrdersPages
  BY DEF OrdersPage, OrdersPages
<1>2. \A o \in Checkouts : OrderExists(o) /\ orders[o].status = "PAID" => Charged(o) \/ "PAID" \in PatchStatuses
  BY DEF BuyerInv, ClicksInv, ClickOK
<1>3. ShownTrue(OrdersPage(success))
  BY <1>2 DEF ShownTrue, OrdersPage
<1>. QED BY <1>1, <1>3, PageKinds

LEMMA EventSees ==
    ASSUME BuyerInv,
           \/ LoadSeats \/ ListReply \/ LockQuery \/ SeatsUpdate
           \/ \E s \in Seats : ToggleSeat(s)
           \/ \E c \in Checkouts : ClickCheckout(c)
    PROVE  Sees
<1>1. tab \in EventPages /\ clicks \in Clicks
  <2>1. Shows("event")
    BY DEF LoadSeats, ListReply, LockQuery, SeatsUpdate, ToggleSeat, SeatOffered, ClickCheckout, CheckoutOffered
  <2>. QED BY <2>1, PageKinds DEF BuyerInv, BuyerTypeOK, Shows, Clicks
<1>2. tab' \in EventPages
  <2>1. CASE LoadSeats
    BY <1>1, <2>1 DEF LoadSeats, EventPages, Available
  <2>2. CASE ListReply
    BY <1>1, <2>2 DEF ListReply, EventPages
  <2>3. CASE LockQuery
    BY <1>1, <2>3 DEF LockQuery, EventPages, Available, Opt
  <2>4. CASE SeatsUpdate
    BY <1>1, <2>4 DEF SeatsUpdate, EventPages, Opt
  <2>5. ASSUME NEW s \in Seats, ToggleSeat(s)  PROVE tab' \in EventPages
    BY <1>1, <2>5 DEF ToggleSeat, EventPages
  <2>6. ASSUME NEW c \in Checkouts, ClickCheckout(c)  PROVE tab' \in EventPages
    BY <1>1, <2>6 DEF ClickCheckout, EventPages, Opt
  <2>. QED BY <2>1, <2>2, <2>3, <2>4, <2>5, <2>6
<1>3. TabSees
  BY <1>2, PageKinds DEF TabSees, ShownTrue
<1>4. clicks' \in Clicks
  <2>1. ASSUME NEW c \in Checkouts, ClickCheckout(c)  PROVE clicks' \in Clicks
    BY <1>1, <2>1 DEF ClickCheckout, EventPages, Clicks
  <2>. QED BY <1>1, <2>1 DEF LoadSeats, ListReply, LockQuery, SeatsUpdate, ToggleSeat
<1>5. UNCHANGED <<polls, redirects, phone, paying, chosen>>
  BY DEF LoadSeats, ListReply, LockQuery, SeatsUpdate, ToggleSeat, ClickCheckout
<1>. QED BY <1>3, <1>4, <1>5, StillSees DEF Sees, CallsTyped, BuyerInv, BuyerTypeOK

LEMMA ClickSees ==
    ASSUME BuyerInv, NEW c \in Checkouts, PostCheckout(c) \/ \E s \in Seats : LockOne(c, s)
    PROVE  Sees
<1>1. UNCHANGED <<tab, polls, redirects, phone, paying, chosen>>
  BY DEF PostCheckout, LockOne
<1>2. clicks' \in Clicks
  BY DEF PostCheckout, LockOne, Clicks, BuyerInv, BuyerTypeOK
<1>. QED BY <1>1, <1>2, StillSees DEF Sees, CallsTyped, BuyerInv, BuyerTypeOK

(* What an error does to the page that waits                                 *)
LEMMA WaitOver ==
    ASSUME BuyerInv, \/ \E c \in Checkouts : tab' = IF Shows("event") /\ tab.loading = c THEN [tab EXCEPT !.loading = None] ELSE tab
                     \/ \E p \in Pays : tab' = IF Shows("checkout") /\ tab.saving = p THEN [tab EXCEPT !.saving = None] ELSE tab
    PROVE  TabSees
<1>0. tab \in Page /\ ShownTrue(tab)
  BY DEF BuyerInv, BuyerTypeOK, ScreensInv
<1>1. CASE Shows("event") /\ tab' = [tab EXCEPT !.loading = None]
  <2>1. tab \in EventPages
    BY <1>0, <1>1, PageKinds DEF Shows
  <2>2. tab' \in EventPages
    BY <1>1, <2>1 DEF EventPages, Opt
  <2>. QED BY <2>2, PageKinds DEF TabSees, ShownTrue
<1>2. CASE Shows("checkout") /\ tab' = [tab EXCEPT !.saving = None]
  <2>1. tab \in CheckoutPages
    BY <1>0, <1>2, PageKinds DEF Shows
  <2>2. tab' \in CheckoutPages /\ tab'.order = tab.order
    BY <1>2, <2>1 DEF CheckoutPages, Opt
  <2>. QED BY <1>0, <1>2, <2>2, PageKinds DEF TabSees, ShownTrue, Shows
<1>. QED BY <1>0, <1>1, <1>2 DEF TabSees

LEMMA CheckoutReplySees ==
    ASSUME BuyerInv, NEW c \in Checkouts, CheckoutReply(c)
    PROVE  Sees
<1>1. UNCHANGED <<redirects, phone, paying, chosen>> /\ clicks' \in Clicks
  BY DEF CheckoutReply, Clicks, BuyerInv, BuyerTypeOK
<1>2. CASE AtCheckout(c, "done") /\ Open(CheckoutPage(c))
  <2>1. CheckoutPage(c) \in CheckoutPages /\ CheckoutPage(c).order = c
    BY DEF CheckoutPage, CheckoutPages, Opt
  <2>2. OrderExists(c)
    BY <1>2 DEF AtCheckout, BuyerInv, ClicksInv, ClickOK
  <2>3. CheckoutPage(c) \in Page /\ ShownTrue(CheckoutPage(c))
    BY <2>1, <2>2, PageKinds DEF ShownTrue
  <2>. QED BY <1>1, <1>2, <2>3, Opens, StillSees DEF Sees, CallsTyped, BuyerInv, BuyerTypeOK
<1>3. CASE UNCHANGED polls /\ tab' = IF Shows("event") /\ tab.loading = c THEN [tab EXCEPT !.loading = None] ELSE tab
  BY <1>1, <1>3, WaitOver, StillSees DEF Sees, CallsTyped, BuyerInv, BuyerTypeOK
<1>. QED BY <1>2, <1>3 DEF CheckoutReply

LEMMA CheckoutPageSees ==
    ASSUME BuyerInv, LoadOrder \/ \E p \in Pays, method \in Methods : ContinuePayment(p, method)
    PROVE  Sees
<1>1. tab \in CheckoutPages /\ ShownTrue(tab) /\ tab.page = "checkout"
  BY PageKinds DEF LoadOrder, ContinuePayment, PayOffered, Shows, BuyerInv, BuyerTypeOK, ScreensInv
<1>2. UNCHANGED <<polls, redirects, phone, clicks>> /\ paying' \in SUBSET Pays /\ chosen' \in [Pays -> Opt(Methods)]
  BY DEF LoadOrder, ContinuePayment, BuyerInv, BuyerTypeOK, Opt
<1>3. tab' \in CheckoutPages /\ tab'.order = tab.order
  <2>1. CASE LoadOrder
    <3>1. orders[tab.order].status \in OrderStatus
      BY <1>1 DEF CheckoutPages, ShownTrue, OrderExists, Order, BuyerInv, Inv, TypeOK, DatabaseTypeOK
    <3>. QED BY <1>1, <2>1, <3>1 DEF LoadOrder, CheckoutPages, Opt
  <2>2. ASSUME NEW p \in Pays, NEW method \in Methods, ContinuePayment(p, method)
        PROVE  tab' \in CheckoutPages /\ tab'.order = tab.order
    BY <1>1, <2>2 DEF ContinuePayment, CheckoutPages, Opt
  <2>. QED BY <2>1, <2>2
<1>4. TabSees
  BY <1>1, <1>3, PageKinds DEF TabSees, ShownTrue
<1>. QED BY <1>2, <1>4, StillSees DEF Sees, CallsTyped, Clicks, BuyerInv, BuyerTypeOK

LEMMA PayReplySees ==
    ASSUME BuyerInv, NEW p \in Pays, PayReply(p)
    PROVE  Sees
<1>1. UNCHANGED <<redirects, phone, clicks, chosen>> /\ paying' \in SUBSET Pays
  BY DEF PayReply, BuyerInv, BuyerTypeOK
<1>2. ASSUME NEW q \in Pays, PaymentExists(q), Open(PaymentPage(q))  PROVE Sees
  <2>1. /\ PaymentPage(q) \in PaymentPages /\ PaymentPage(q).payment = q
        /\ PaymentPage(q).status = None
    BY DEF PaymentPage, PaymentPages, Opt
  <2>2. None # "SUCCESS"
    BY DEF BuyerAssumption, PaymentStatus
  <2>3. PaymentPage(q) \in Page /\ ShownTrue(PaymentPage(q))
    BY <1>2, <2>1, <2>2, PageKinds DEF ShownTrue
  <2>. QED BY <1>1, <1>2, <2>3, Opens, StillSees DEF Sees, CallsTyped, Clicks, BuyerInv, BuyerTypeOK
<1>3. CASE UNCHANGED polls /\ tab' = IF Shows("checkout") /\ tab.saving = p THEN [tab EXCEPT !.saving = None] ELSE tab
  BY <1>1, <1>3, WaitOver, StillSees DEF Sees, CallsTyped, Clicks, BuyerInv, BuyerTypeOK
<1>. QED BY <1>2, <1>3 DEF PayReply

LEMMA PollSees ==
    ASSUME BuyerInv, Poll
    PROVE  Sees
<1>1. tab.payment \in Pays /\ PaymentExists(tab.payment)
  BY PageKinds DEF Poll, Polling, Shows, PaymentPages, ShownTrue, BuyerInv, BuyerTypeOK, ScreensInv
<1>2. /\ payments[tab.payment].status \in PaymentStatus
      /\ payments[tab.payment].status = "SUCCESS" => Succeeded(tab.payment)
  BY <1>1, OrderOfPayment
<1>3. UNCHANGED <<tab, clicks, paying, redirects, phone, chosen>> /\ RepliesSee
  BY <1>1, <1>2 DEF Poll, RepliesSee, ReplyTrue, BuyerInv, BuyerTypeOK, ScreensInv
<1>. QED BY <1>3, StillSees DEF Sees

LEMMA PollReplySees ==
    ASSUME BuyerInv, NEW r \in polls, PollReply(r)
    PROVE  Sees
<1>1. /\ r[1] \in Pays /\ r[2] \in PaymentStatus /\ ReplyTrue(r) /\ PaymentExists(r[1])
      /\ tab \in Page /\ ShownTrue(tab)
  BY DEF BuyerInv, BuyerTypeOK, ScreensInv, ReplyTrue
<1>2. UNCHANGED <<clicks, paying, phone, chosen>>
  BY DEF PollReply
<1>3. RepliesSee
  BY <1>1, OrderOfPayment DEF PollReply, RepliesSee, ReplyTrue, BuyerInv, BuyerTypeOK, ScreensInv
<1>4. CASE Shows("payment") /\ tab.payment = r[1]
  <2>1. tab \in PaymentPages /\ tab' = [tab EXCEPT !.status = r[2]]
    BY <1>1, <1>4, PageKinds DEF Shows, PollReply
  <2>2. tab' \in PaymentPages /\ tab'.payment = r[1] /\ tab'.status = r[2]
    BY <1>1, <1>4, <2>1 DEF PaymentPages, Opt
  <2>3. TabSees
    BY <1>1, <2>2, PageKinds DEF TabSees, ShownTrue, ReplyTrue
  <2>. QED BY <1>2, <1>3, <2>3, StillSees DEF Sees
<1>5. CASE UNCHANGED tab
  BY <1>2, <1>3, <1>5, StillSees DEF Sees
<1>. QED BY <1>4, <1>5 DEF PollReply

LEMMA RedirectSees ==
    ASSUME BuyerInv, NEW o \in redirects, Redirect(o)
    PROVE  Sees
<1>1. o \in Checkouts /\ Charged(o)
  BY DEF BuyerInv, BuyerTypeOK, ScreensInv
<1>2. Open(OrdersPage(o)) /\ redirects' \subseteq redirects /\ UNCHANGED <<clicks, paying, phone, chosen>>
  BY DEF Redirect
<1>. QED BY <1>1, <1>2, OrdersPageTrue, Opens, StillSees DEF Sees, Opt

LEMMA PhoneStepSees ==
    ASSUME BuyerInv, OpenSimulator \/ ConfirmReply \/ \E k \in Confirms : ConfirmPayment(k)
    PROVE  Sees
<1>0. phone \in Phones /\ PhoneTrue(phone)
  BY DEF BuyerInv, BuyerTypeOK, ScreensInv, Phones
<1>1. UNCHANGED <<tab, clicks, paying, polls, redirects, chosen>>
  BY DEF OpenSimulator, ConfirmReply, ConfirmPayment
<1>2. CASE OpenSimulator
  <2>1. tab.payment \in Pays /\ PaymentExists(tab.payment)
    BY <1>2, PageKinds DEF OpenSimulator, SimulatorOffered, Shows, PaymentPages, ShownTrue, BuyerInv, BuyerTypeOK, ScreensInv
  <2>2. /\ payments[tab.payment].status \in PaymentStatus
        /\ payments[tab.payment].status = "SUCCESS" => Succeeded(tab.payment)
    BY <2>1, OrderOfPayment
  <2>3. /\ phone' \in Phones /\ phone'.payment = tab.payment /\ phone'.status = payments[tab.payment].status
        /\ phone'.confirm = None
    BY <1>0, <1>2, <2>1, <2>2 DEF OpenSimulator, Phones, Opt
  <2>4. PhoneSees
    BY <2>1, <2>2, <2>3 DEF PhoneSees, PhoneTrue, DatabaseAssumption
  <2>. QED BY <1>1, <2>4, StillSees DEF Sees
<1>3. CASE ConfirmReply
  <2>1. phone.confirm # None /\ phone.payment # None /\ phone.payment \in Pays /\ PaymentExists(phone.payment)
    BY <1>0, <1>3 DEF ConfirmReply, PhoneTrue, Phones, Opt
  <2>2. /\ payments[phone.payment].status \in PaymentStatus
        /\ payments[phone.payment].status = "SUCCESS" => Succeeded(phone.payment)
    BY <2>1, OrderOfPayment
  <2>3. /\ phone' \in Phones /\ phone'.payment = phone.payment /\ phone'.confirm = None
        /\ phone'.status \in {phone.status, payments[phone.payment].status}
    BY <1>0, <1>3, <2>1, <2>2 DEF ConfirmReply, AfterError, Phones, Opt
  <2>4. PhoneSees
    BY <1>0, <2>1, <2>2, <2>3 DEF PhoneSees, PhoneTrue
  <2>. QED BY <1>1, <2>4, StillSees DEF Sees
<1>4. ASSUME NEW k \in Confirms, ConfirmPayment(k)  PROVE Sees
  <2>1. /\ phone' \in Phones /\ phone'.payment = phone.payment /\ phone'.status = phone.status
        /\ phone.payment # None
    BY <1>0, <1>4 DEF ConfirmPayment, ConfirmOffered, Phones, Opt
  <2>2. PhoneSees
    BY <1>0, <2>1 DEF PhoneSees, PhoneTrue
  <2>. QED BY <1>1, <2>2, StillSees DEF Sees
<1>. QED BY <1>2, <1>3, <1>4

LEMMA NavigateSees ==
    ASSUME BuyerInv, Navigate
    PROVE  Sees
<1>0. UNCHANGED <<clicks, paying, redirects, phone, chosen>>
  BY DEF Navigate
<1>1. ASSUME NEW t \in Page, ShownTrue(t), Open(t)  PROVE Sees
  BY <1>0, <1>1, Opens, StillSees DEF Sees
<1>2. EventPage \in Page /\ ShownTrue(EventPage)
  <2>1. EventPage \in EventPages
    BY DEF EventPage, EventPages, Opt
  <2>. QED BY <2>1, PageKinds DEF ShownTrue
<1>3. OrdersPage(None) \in Page /\ ShownTrue(OrdersPage(None))
  BY OrdersPageTrue DEF Opt
<1>4. ASSUME NEW o \in Checkouts, OrderExists(o)
      PROVE  CheckoutPage(o) \in Page /\ ShownTrue(CheckoutPage(o))
  <2>1. CheckoutPage(o) \in CheckoutPages /\ CheckoutPage(o).order = o
    BY DEF CheckoutPage, CheckoutPages, Opt
  <2>. QED BY <1>4, <2>1, PageKinds DEF ShownTrue
<1>5. ASSUME Shows("payment")
      PROVE  /\ OrderOf(tab.payment) \in Checkouts /\ OrderExists(OrderOf(tab.payment))
             /\ tab.status = "SUCCESS" => Charged(OrderOf(tab.payment))
  <2>1. /\ tab.payment \in Pays /\ PaymentExists(tab.payment)
        /\ tab.status = "SUCCESS" => Succeeded(tab.payment)
    BY <1>5, PageKinds DEF Shows, PaymentPages, ShownTrue, BuyerInv, BuyerTypeOK, ScreensInv
  <2>. QED BY <2>1, OrderOfPayment
<1>6. CASE TicketsOffered /\ Open(OrdersPage(OrderOf(tab.payment)))
  <2>1. OrderOf(tab.payment) \in Opt(Checkouts) /\ Charged(OrderOf(tab.payment))
    BY <1>5, <1>6 DEF TicketsOffered, SimulatorOffered, Opt
  <2>. QED BY <1>1, <1>6, <2>1, OrdersPageTrue
<1>7. CASE SimulatorOffered /\ Open(CheckoutPage(OrderOf(tab.payment)))
  BY <1>1, <1>4, <1>5, <1>7 DEF SimulatorOffered
<1>8. ASSUME NEW o \in Checkouts, PayLaterOffered(o), Open(CheckoutPage(o))  PROVE Sees
  <2>1. OrderExists(o)
    BY <1>8 DEF PayLaterOffered, Shows, BuyerInv, ScreensInv, ShownTrue
  <2>. QED BY <1>1, <1>4, <1>8, <2>1
<1>. QED BY <1>1, <1>2, <1>3, <1>6, <1>7, <1>8 DEF Navigate

LEMMA ReplyLostSees ==
    ASSUME BuyerInv, ReplyLost
    PROVE  Sees
<1>0. UNCHANGED <<redirects, chosen>>
  BY DEF ReplyLost
<1>1. ASSUME NEW r \in polls, polls' = polls \ {r}, UNCHANGED <<tab, clicks, paying, phone>>  PROVE Sees
  <2>1. RepliesSee
    BY <1>0, <1>1 DEF RepliesSee, BuyerInv, BuyerTypeOK, ScreensInv
  <2>. QED BY <1>0, <1>1, <2>1, StillSees DEF Sees
<1>2. ASSUME NEW c \in Checkouts, clicks' = [clicks EXCEPT ![c].pc = "done"],
             tab' = IF Shows("event") /\ tab.loading = c THEN [tab EXCEPT !.loading = None] ELSE tab,
             UNCHANGED <<polls, paying, phone>>
      PROVE  Sees
  <2>1. TabSees /\ clicks' \in Clicks
    BY <1>2, WaitOver DEF Clicks, BuyerInv, BuyerTypeOK
  <2>. QED BY <1>0, <1>2, <2>1, StillSees DEF Sees, CallsTyped, BuyerInv, BuyerTypeOK
<1>3. ASSUME NEW p \in Pays, paying' = paying \ {p},
             tab' = IF Shows("checkout") /\ tab.saving = p THEN [tab EXCEPT !.saving = None] ELSE tab,
             UNCHANGED <<polls, clicks, phone>>
      PROVE  Sees
  <2>1. TabSees /\ paying' \in SUBSET Pays
    BY <1>3, WaitOver DEF BuyerInv, BuyerTypeOK
  <2>. QED BY <1>0, <1>3, <2>1, StillSees DEF Sees, CallsTyped, Clicks, BuyerInv, BuyerTypeOK
<1>4. ASSUME phone' = [phone EXCEPT !.confirm = None], UNCHANGED <<tab, clicks, paying, polls>>  PROVE Sees
  <2>1. phone \in Phones /\ PhoneTrue(phone)
    BY DEF BuyerInv, BuyerTypeOK, ScreensInv, Phones
  <2>2. phone' \in Phones /\ phone'.payment = phone.payment /\ phone'.status = phone.status /\ phone'.confirm = None
    BY <1>4, <2>1 DEF Phones, Opt
  <2>3. PhoneSees
    BY <2>1, <2>2 DEF PhoneSees, PhoneTrue
  <2>. QED BY <1>0, <1>4, <2>3, StillSees DEF Sees
<1>5. paying \subseteq Pays
  BY DEF BuyerInv, BuyerTypeOK
<1>. QED BY <1>1, <1>2, <1>3, <1>4, <1>5 DEF ReplyLost

LEMMA BuyerSees == ASSUME BuyerInv, BuyerStep PROVE Sees
BY EventSees, ClickSees, CheckoutReplySees, CheckoutPageSees, PayReplySees, PollSees, PollReplySees,
   RedirectSees, PhoneStepSees, NavigateSees, ReplyLostSees, Zenon DEF BuyerStep

-----------------------------------------------------------------------------
(* Each step of the pages *)

(* Of the pages' steps only four call a service.                             *)
LEMMA PagesWrite ==
    ASSUME BuyerStep
    PROVE  \/ \E c \in Checkouts : PostCheckout(c)
           \/ \E p \in Pays, method \in Methods : ContinuePayment(p, method)
           \/ (\E k \in Confirms : ConfirmPayment(k)) /\ UNCHANGED <<tables, orderVars, payReq, clicks, chosen>>
           \/ (\E c \in Checkouts, s \in Seats : LockOne(c, s)) /\ UNCHANGED <<tables, orderVars, payReq, chosen>>
           \/ (UNCHANGED vars \/ ReplyLost) /\ UNCHANGED <<tables, orderVars, payReq, chosen>>
<1>1. ASSUME NEW k \in Confirms, ConfirmPayment(k)  PROVE UNCHANGED <<tables, orderVars, payReq, clicks, chosen>>
  BY <1>1 DEF ConfirmPayment, ConfirmSession
<1>2. ASSUME NEW c \in Checkouts, NEW s \in Seats, LockOne(c, s)  PROVE UNCHANGED <<tables, orderVars, payReq, chosen>>
  BY <1>2 DEF LockOne, payVars
<1>3. \/ \E c \in Checkouts : PostCheckout(c)
      \/ \E p \in Pays, method \in Methods : ContinuePayment(p, method)
      \/ \E k \in Confirms : ConfirmPayment(k)
      \/ \E c \in Checkouts, s \in Seats : LockOne(c, s)
      \/ UNCHANGED <<vars, chosen>> \/ ReplyLost
  BY Zenon DEF BuyerStep, LoadSeats, ListReply, LockQuery, SeatsUpdate, ToggleSeat, ClickCheckout, CheckoutReply,
     LoadOrder, PayReply, Poll, PollReply, Redirect, OpenSimulator, ConfirmReply, Navigate
<1>4. UNCHANGED <<vars, chosen>> \/ ReplyLost => UNCHANGED <<tables, orderVars, payReq, chosen>>
  BY DEF vars, payVars, ReplyLost
<1>. QED BY <1>1, <1>2, <1>3, <1>4

LEMMA BuyerKeeps == ASSUME BuyerInv, BuyerStep PROVE Inv' /\ Kept
<1>1. ASSUME NEW c \in Checkouts, PostCheckout(c)  PROVE Inv' /\ Kept
  <2>1. clicks[c].asked \in SUBSET Seats
    BY DEF BuyerInv, BuyerTypeOK
  <2>. QED BY <1>1, <2>1, PostKeeps DEF BuyerInv
<1>. QED BY <1>1, ContinueKeeps, ConfirmKeeps, LockKeeps, IdleKeeps, PagesWrite DEF BuyerInv

(* A click that is changed without a word to the order service               *)
LEMMA ClicksApart ==
    ASSUME BuyerInv, UNCHANGED <<tables, checkoutReq>>,
           \A c \in Checkouts :
                /\ clicks'[c].pc \in {"idle", "lock"} => clicks[c].pc \in {"idle", "lock"}
                /\ clicks'[c].pc = "lock" => clicks'[c].asked # {}
                /\ clicks'[c].asked = clicks[c].asked \/ clicks[c].pc = "idle"
    PROVE  ClicksInv'
<1>. SUFFICES ASSUME NEW c \in Checkouts  PROVE ClickOK(c)'
  BY DEF ClicksInv
<1>1. ClickOK(c) /\ CheckoutOK(c)
  BY DEF BuyerInv, Inv, CallsInv, CheckoutInv, ClicksInv
<1>2. UNCHANGED orders /\ (Charged(c)' <=> Charged(c)) /\ (OrderExists(c)' <=> OrderExists(c))
  BY DEF tables, Charged, Succeeded, PaymentExists, OrderExists
<1>3. clicks[c].pc = "idle" => checkoutReq[c].pc = "idle" /\ ~ OrderExists(c)
  BY <1>1 DEF ClickOK, CheckoutOK
<1>. QED BY <1>1, <1>2, <1>3 DEF ClickOK

LEMMA ClicksPaged == ASSUME BuyerInv, BuyerStep PROVE ClicksInv'
<1>0. /\ clicks \in Clicks /\ \A c \in Checkouts : ClickOK(c)
      /\ Shows("event") => tab \in EventPages
      /\ checkoutReq \in [Checkouts ->
            [pc : {"idle", "seats", "insert", "item", "reserve", "publish", "done", "failed"},
             key : Keys \union Checkouts \union {None}, asked : SUBSET Seats,
             todo : SUBSET Seats, seat : Seats \union {None}]]
  BY PageKinds DEF BuyerInv, BuyerTypeOK, Clicks, ClicksInv, Shows, Inv, TypeOK, OrderTypeOK
<1>1. ASSUME NEW c \in Checkouts, PostCheckout(c)  PROVE ClicksInv'
  <2>. SUFFICES ASSUME NEW d \in Checkouts  PROVE ClickOK(d)'
    BY DEF ClicksInv
  <2>1. /\ clicks[c].pc = "lock" /\ AtCheckout(c, "idle") /\ UNCHANGED <<tables, payVars>>
        /\ clicks' = [clicks EXCEPT ![c].pc = "checkout"]
        /\ checkoutReq' = [checkoutReq EXCEPT ![c].key = c, ![c].asked = clicks[c].asked,
                            ![c].pc = IF OrderKeyTaken(c) THEN "done" ELSE "seats"]
    BY <1>1 DEF PostCheckout, CheckoutLookup, Chosen
  <2>2. ~ OrderKeyTaken(c) /\ ~ OrderExists(c)
    <3>1. ~ OrderExists(c)
      BY <2>1 DEF AtCheckout, CheckoutOK, BuyerInv, Inv, CallsInv, CheckoutInv
    <3>. QED BY <1>0, <3>1 DEF OrderKeyTaken, ClickOK
  <2>3. UNCHANGED orders /\ (Charged(d)' <=> Charged(d)) /\ (OrderExists(d)' <=> OrderExists(d))
    BY <2>1 DEF tables, Charged, Succeeded, PaymentExists, OrderExists
  <2>4. CASE d = c
    <3>1. clicks'[d].pc = "checkout" /\ clicks'[d].asked = clicks[d].asked
      BY <1>0, <2>1, <2>4 DEF Clicks
    <3>2. checkoutReq'[d].key = d /\ checkoutReq'[d].asked = clicks[d].asked /\ checkoutReq'[d].pc = "seats"
      BY <1>0, <2>1, <2>2, <2>4
    <3>. QED BY <1>0, <2>2, <2>3, <2>4, <3>1, <3>2 DEF ClickOK
  <2>5. CASE d # c
    <3>1. clicks'[d] = clicks[d] /\ checkoutReq'[d] = checkoutReq[d]
      BY <1>0, <2>1, <2>5 DEF Clicks
    <3>. QED BY <1>0, <2>3, <3>1 DEF ClickOK
  <2>. QED BY <2>4, <2>5
<1>. DEFINE Apart == \A c \in Checkouts :
                /\ clicks'[c].pc \in {"idle", "lock"} => clicks[c].pc \in {"idle", "lock"}
                /\ clicks'[c].pc = "lock" => clicks'[c].asked # {}
                /\ clicks'[c].asked = clicks[c].asked \/ clicks[c].pc = "idle"
<1>2. ASSUME UNCHANGED clicks  PROVE Apart
  BY <1>0, <1>2 DEF ClickOK
<1>3. ASSUME NEW c \in Checkouts, NEW s \in Seats, LockOne(c, s)  PROVE Apart
  BY <1>0, <1>3 DEF LockOne, Clicks, ClickOK
<1>4. ASSUME NEW c \in Checkouts, ClickCheckout(c)  PROVE Apart
  <2> DEFINE row == [pc |-> "lock", asked |-> tab.selected, todo |-> tab.selected]
  <2>1. clicks' = [clicks EXCEPT ![c] = row] /\ clicks[c].pc = "idle" /\ tab.selected # {}
    BY <1>4 DEF ClickCheckout, CheckoutOffered
  <2>2. row.pc = "lock" /\ row.asked # {}
    BY <2>1
  <2>. HIDE DEF row
  <2>. QED BY <1>0, <2>1, <2>2 DEF Clicks, ClickOK
<1>5. ASSUME NEW c \in Checkouts, clicks' = [clicks EXCEPT ![c].pc = "done"]
      PROVE  Apart
  BY <1>0, <1>5 DEF Clicks, ClickOK
<1>6. \/ \E c \in Checkouts : PostCheckout(c)
      \/ UNCHANGED clicks
      \/ \E c \in Checkouts, s \in Seats : LockOne(c, s)
      \/ \E c \in Checkouts : ClickCheckout(c)
      \/ \E c \in Checkouts : clicks' = [clicks EXCEPT ![c].pc = "done"]
  BY Zenon DEF BuyerStep, LoadSeats, ListReply, LockQuery, SeatsUpdate, ToggleSeat, CheckoutReply, ContinuePayment,
     LoadOrder, PayReply, Poll, PollReply, Redirect, OpenSimulator, ConfirmReply, ConfirmPayment, Navigate, ReplyLost
<1>7. ASSUME NEW p \in Pays, NEW method \in Methods, ContinuePayment(p, method)
      PROVE  UNCHANGED <<tables, checkoutReq>>
  BY <1>7 DEF ContinuePayment, PayLookup, orderVars
<1>8. \/ \E c \in Checkouts : PostCheckout(c)
      \/ UNCHANGED <<tables, checkoutReq>>
  BY <1>7, PagesWrite DEF orderVars
<1>. HIDE DEF Apart
<1>9. ASSUME Apart, UNCHANGED <<tables, checkoutReq>>  PROVE ClicksInv'
  BY <1>9, ClicksApart DEF Apart
<1>. QED BY <1>1, <1>2, <1>3, <1>4, <1>5, <1>6, <1>8, <1>9

-----------------------------------------------------------------------------
(* The invariant *)

LEMMA BuyerInitInv == BuyerInit => BuyerInv
<1>. SUFFICES ASSUME BuyerInit  PROVE BuyerInv
  OBVIOUS
<1>1. Inv
  BY InitInv DEF BuyerInit
<1>2. tab \in EventPages
  BY DEF BuyerInit, EventPage, EventPages, Opt
<1>3. BuyerTypeOK
  <2>1. TypeOK /\ tab \in Page
    BY <1>1, <1>2, PageKinds DEF Inv
  <2>. QED BY <2>1 DEF BuyerTypeOK, BuyerInit, Opt
<1>4. /\ orders = [o \in Checkouts |-> None] /\ payments = [p \in Pays |-> None]
      /\ \A c \in Checkouts : checkoutReq[c].pc = "idle"
      /\ \A p \in Pays : payReq[p].pc = "idle"
  BY DEF BuyerInit, Init, DatabaseInit, OrderInit, PaymentInit
<1>5. ClicksInv /\ MethodsInv
  BY <1>4 DEF ClicksInv, ClickOK, MethodsInv, MethodOK, OneSession, OrderExists, PaymentExists, BuyerInit
<1>6. ScreensInv
  <2>1. None # "SUCCESS"
    BY DEF BuyerAssumption, PaymentStatus
  <2>. QED BY <1>2, <2>1, PageKinds DEF ScreensInv, ShownTrue, PhoneTrue, BuyerInit
<1>. QED BY <1>1, <1>3, <1>5, <1>6 DEF BuyerInv

LEMMA BuyerInvStep == BuyerInv /\ [BuyerNext]_buyerVars => BuyerInv'
<1>0. ASSUME BuyerInv, Inv', Sees  PROVE BuyerTypeOK'
  BY <1>0 DEF Inv, BuyerTypeOK, Sees, TabSees, RepliesSee, PhoneSees, CallsTyped, Clicks, Phones, Page, Opt
<1>1. ASSUME BuyerInv, BuyerStep  PROVE BuyerInv'
  <2>1. Inv' /\ Kept /\ Sees /\ ClicksInv'
    BY <1>1, BuyerKeeps, BuyerSees, ClicksPaged
  <2>2. MethodsInv'
    <3>1. UNCHANGED payments
      BY <1>1, PagesWrite DEF PostCheckout, CheckoutLookup, ContinuePayment, PayLookup, tables
    <3>2. \/ UNCHANGED <<payReq, chosen>>
          \/ \E p \in Pays, method \in Methods : ContinuePayment(p, method)
      BY <1>1, PagesWrite DEF PostCheckout, payVars
    <3>. QED BY <1>1, <3>1, <3>2, MethodsPaged
  <2>3. ScreensInv' /\ BuyerTypeOK'
    BY <1>0, <1>1, <2>1, ScreensKept DEF Sees, BuyerInv, Inv
  <2>. QED BY <2>1, <2>2, <2>3 DEF BuyerInv
<1>2. ASSUME BuyerInv, ServiceStep, UNCHANGED <<tab, clicks, paying, polls, redirects, phone, chosen>>
      PROVE  BuyerInv'
  <2>1. Inv' /\ Kept
    BY <1>2, ServiceNext, NextKeeps DEF BuyerInv
  <2>2. Sees
    BY <1>2, StillSees DEF Sees
  <2>3. ClicksInv' /\ MethodsInv'
    BY <1>2, <2>1, ClicksServed, MethodsServed
  <2>4. ScreensInv' /\ BuyerTypeOK'
    BY <1>0, <1>2, <2>1, <2>2, ScreensKept DEF Sees, BuyerInv, Inv
  <2>. QED BY <2>1, <2>3, <2>4 DEF BuyerInv
<1>3. ASSUME BuyerInv, UNCHANGED buyerVars  PROVE BuyerInv'
  <2>1. UNCHANGED <<vars, tab, clicks, paying, polls, redirects, phone, chosen>>
    BY <1>3 DEF buyerVars
  <2>2. Inv' /\ Kept /\ Sees
    BY <1>3, <2>1, IdleKeeps, StillSees DEF Sees, BuyerInv
  <2>3. UNCHANGED <<tables, checkoutReq, payments, payReq>>
    BY <2>1 DEF vars, tables, orderVars, payVars
  <2>4. ClicksInv'
    <3>1. \A c \in Checkouts : clicks[c].pc = "lock" => clicks[c].asked # {}
      BY <1>3 DEF BuyerInv, ClicksInv, ClickOK
    <3>. QED BY <1>3, <2>1, <2>3, <3>1, ClicksApart
  <2>5. MethodsInv'
    BY <1>3, <2>1, <2>3, MethodsPaged
  <2>6. ScreensInv' /\ BuyerTypeOK'
    BY <1>0, <1>3, <2>2, ScreensKept DEF Sees, BuyerInv, Inv
  <2>. QED BY <2>2, <2>4, <2>5, <2>6 DEF BuyerInv
<1>. QED BY <1>1, <1>2, <1>3 DEF BuyerNext

LEMMA BuyerInvAlways == BuyerSpec => []BuyerInv
BY BuyerInitInv, BuyerInvStep, PTL DEF BuyerSpec

(* The pages, the calls they wait for and the tables are what they may be.   *)
THEOREM PagesTyped == BuyerSpec => []BuyerTypeOK
<1>1. BuyerInv => BuyerTypeOK
  BY DEF BuyerInv
<1>. QED BY <1>1, BuyerInvAlways, PTL

(* The order is for the seats that were selected at the click.               *)
THEOREM SelectionOrdered == BuyerSpec => []OrderIsSelection
<1>1. BuyerInv => OrderIsSelection
  <2>. SUFFICES ASSUME BuyerInv, NEW c \in Checkouts, OrderExists(c)
                PROVE  ItemsOf(c) \subseteq clicks[c].asked /\ orders[c].total_amount = clicks[c].asked
    BY DEF OrderIsSelection
  <2>1. ClickOK(c) /\ CheckoutOK(c)
    BY DEF BuyerInv, Inv, CallsInv, CheckoutInv, ClicksInv
  <2>. QED BY <2>1 DEF ClickOK, CheckoutOK
<1>. QED BY <1>1, BuyerInvAlways, PTL

(* What tells the buyer that an order is paid is true of it.                 *)
THEOREM PaidShown == BuyerSpec => []PaidScreensTrue
<1>1. ASSUME BuyerInv  PROVE PaidScreensTrue
  <2>1. ScreensInv /\ tab \in Page /\ phone \in Phones
    BY <1>1 DEF BuyerInv, BuyerTypeOK, Phones
  <2>2. Shows("orders") => /\ \A o \in tab.paid : Charged(o) \/ "PAID" \in PatchStatuses
                           /\ tab.success # None => Charged(tab.success)
    BY <2>1 DEF ScreensInv, ShownTrue, Shows
  <2>3. TicketsOffered => Charged(OrderOf(tab.payment))
    <3>. SUFFICES ASSUME TicketsOffered  PROVE Charged(OrderOf(tab.payment))
      OBVIOUS
    <3>1. tab.payment \in Pays /\ PaymentExists(tab.payment) /\ Succeeded(tab.payment)
      BY <2>1, PageKinds DEF TicketsOffered, SimulatorOffered, Shows, ScreensInv, ShownTrue, PaymentPages
    <3>. QED BY <1>1, <3>1, OrderOfPayment
  <2>4. phone.status = "SUCCESS" => Charged(OrderOf(phone.payment))
    <3>. SUFFICES ASSUME phone.status = "SUCCESS"  PROVE Charged(OrderOf(phone.payment))
      OBVIOUS
    <3>1. phone.payment \in Pays /\ PaymentExists(phone.payment) /\ Succeeded(phone.payment)
      BY <2>1 DEF ScreensInv, PhoneTrue, Phones, Opt
    <3>. QED BY <1>1, <3>1, OrderOfPayment
  <2>. QED BY <2>1, <2>2, <2>3, <2>4 DEF PaidScreensTrue, ScreensInv
<1>2. BuyerInv => PaidScreensTrue
  BY <1>1
<1>. QED BY <1>2, BuyerInvAlways, PTL

(* An order has one payment session for each method.                         *)
THEOREM SessionFound == BuyerSpec => []RetryFindsSession
<1>1. BuyerInv => RetryFindsSession
  BY DEF BuyerInv, MethodsInv, MethodOK, OneSession, RetryFindsSession
<1>. QED BY <1>1, BuyerInvAlways, PTL

-----------------------------------------------------------------------------
(* The pages and Booking *)

(* Behind the pages Booking keeps what it keeps for any clients: the worker, *)
(* cancellations, refunds and PATCH go on as before, and the pages also pay  *)
(* for an order whose checkout has not answered.                             *)
THEOREM BookingKept ==
    BuyerSpec => [](TicketsArePaid /\ SeatStatusBacked /\ OneTicketEach /\ HeldStaysHeld /\ PaidUnlessUndone)
<1>1. BuyerInv => TicketsArePaid /\ SeatStatusBacked /\ OneTicketEach /\ HeldStaysHeld /\ PaidUnlessUndone
  BY DEF BuyerInv, Inv
<1>. QED BY <1>1, BuyerInvAlways, PTL

(* With its pages in front the program still implements Fulfilment: what a   *)
(* page does claims nothing, charges nothing and issues nothing by itself.   *)
THEOREM PagesFulfil == BuyerSpec => ImplementsFulfilment
<1>1. BuyerInit => F!Init
  BY InitRefines DEF BuyerInit
<1>2. BuyerInv /\ [BuyerNext]_buyerVars
      => [F!Next]_<<order_items, {o \in Checkouts : Charged(o)},
                    {os \in Checkouts \X Seats : HasTicket(os[1], os[2])}>>
  <2>1. ASSUME UNCHANGED tables
        PROVE  UNCHANGED <<order_items, {o \in Checkouts : Charged(o)},
                           {os \in Checkouts \X Seats : HasTicket(os[1], os[2])}>>
    BY <2>1 DEF tables, Charged, Succeeded, PaymentExists, HasTicket
  <2>2. ASSUME BuyerInv, ServiceStep
        PROVE  [F!Next]_<<order_items, {o \in Checkouts : Charged(o)},
                          {os \in Checkouts \X Seats : HasTicket(os[1], os[2])}>>
    BY <2>2, ServiceNext, StepRefines DEF BuyerInv
  <2>3. ASSUME BuyerStep  PROVE UNCHANGED tables
    <3>1. ASSUME NEW c \in Checkouts, PostCheckout(c)  PROVE UNCHANGED tables
      BY <3>1 DEF PostCheckout, CheckoutLookup
    <3>2. ASSUME NEW p \in Pays, NEW method \in Methods, ContinuePayment(p, method)  PROVE UNCHANGED tables
      BY <3>2 DEF ContinuePayment, PayLookup
    <3>. QED BY <2>3, <3>1, <3>2, PagesWrite
  <2>4. ASSUME UNCHANGED buyerVars  PROVE UNCHANGED tables
    BY <2>4 DEF buyerVars, vars
  <2>. QED BY <2>1, <2>2, <2>3, <2>4 DEF BuyerNext
<1>. QED BY <1>1, <1>2, BuyerInvAlways, PTL DEF BuyerSpec, ImplementsFulfilment, F!Spec
=============================================================================
