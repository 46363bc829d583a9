--------------------------- MODULE BookingProofs ---------------------------
(* Checkout, payment and ticketing for every set of calls, seats and keys,   *)
(* whoever pays when, and any number of deaths and dead letters.             *)
EXTENDS Booking, TLAPS

(* What a call of checkout has done so far: its order is there or not, its   *)
(* items are seats it was asked for, and the seat in hand is an item.        *)
CheckoutOK(c) ==
    /\ checkoutReq[c].pc = "idle" => checkoutReq[c].asked = {}
    /\ checkoutReq[c].pc # "idle" => checkoutReq[c].key # None
    /\ checkoutReq[c].pc \in {"idle", "seats", "insert"} => ~ OrderExists(c)
    /\ checkoutReq[c].pc \in {"item", "reserve", "publish"} => OrderExists(c)
    /\ checkoutReq[c].pc = "reserve" => <<c, checkoutReq[c].seat>> \in order_items
    /\ checkoutReq[c].seat # None => checkoutReq[c].pc \in {"reserve", "failed"}
    /\ checkoutReq[c].todo \subseteq checkoutReq[c].asked
    /\ ItemsOf(c) \subseteq checkoutReq[c].asked
    /\ orderMsg[c] # "none" => OrderExists(c)

(* A cancellation under way has an order, and reopens items of it.           *)
CancelOK(x) ==
    /\ cancelReq[x].pc = "idle" => cancelReq[x].order = None /\ cancelReq[x].todo = {}
    /\ cancelReq[x].pc # "idle" => cancelReq[x].order \in Checkouts /\ OrderExists(cancelReq[x].order)
    /\ \A s \in cancelReq[x].todo : <<cancelReq[x].order, s>> \in order_items

(* A payment is made by its call for an order that exists.                   *)
PayOK(p) ==
    /\ payReq[p].pc \in {"idle", "order", "insert"} => ~ PaymentExists(p)
    /\ payReq[p].pc \in {"order", "insert"} =>
            /\ payReq[p].order \in Checkouts /\ OrderExists(payReq[p].order)
            /\ payReq[p].key # None
    /\ PaymentExists(p) => OrderExists(payments[p].order_id)

(* A confirm past its charge has a payment that succeeded, and so has one    *)
(* whose message is out; that one has answered.                              *)
ConfirmOK(k) ==
    /\ confirmReq[k].pc # "idle" => confirmReq[k].payment \in Pays /\ PaymentExists(confirmReq[k].payment)
    /\ confirmReq[k].pc \in {"paid", "tickets"} => Succeeded(confirmReq[k].payment)
    /\ ticketMsg[k] # "none" => confirmReq[k].pc = "done" /\ Succeeded(confirmReq[k].payment)

(* The confirm that a transaction id names is past its charge.               *)
ChargeOK(p) == Succeeded(p) =>
    LET k == payments[p].transaction_id
    IN  confirmReq[k].payment = p /\ confirmReq[k].pc \notin {"idle", "charge"}

(* A refund under way has a payment.                                         *)
RefundOK(f) ==
    /\ refundReq[f].pc = "idle" => refundReq[f].payment = None
    /\ refundReq[f].pc # "idle" => refundReq[f].payment \in Pays /\ PaymentExists(refundReq[f].payment)

(* A run works on a charged order and on its items; what it has yet to       *)
(* insert is not there from the other program of the same confirm.           *)
GenOK(i) ==
    /\ gen[i].pc # "idle" => gen[i].order \in Checkouts /\ Charged(gen[i].order)
    /\ \A s \in gen[i].todo : <<gen[i].order, s>> \in order_items
    /\ gen[i].pc \in {"insert", "sell"} => <<gen[i].order, gen[i].seat>> \in order_items
    /\ gen[i].pc = "sell" => HasTicket(gen[i].order, gen[i].seat)
    /\ gen[i].pc = "insert" => \A t \in tickets :
            t.order_id = gen[i].order /\ t.seat_id = gen[i].seat => t.code[1] # i[1]

(* The two programs of one confirm take turns: the worker's is at work only  *)
(* on a delivered message, and that is published when the other is done.     *)
TurnOK(k) ==
    /\ ticketMsg[k] # "none" => gen[<<k, "payment">>].pc = "done"
    /\ gen[<<k, "worker">>].pc \in {"items", "check", "insert", "sell"} => ticketMsg[k] = "delivered"

CheckoutInv == \A c \in Checkouts : CheckoutOK(c)
CancelInv == \A x \in Cancels : CancelOK(x)
PayInv == \A p \in Pays : PayOK(p)
ConfirmInv == \A k \in Confirms : ConfirmOK(k)
ChargeInv == \A p \in Pays : ChargeOK(p)
RefundInv == \A f \in Refunds : RefundOK(f)
GenInv == \A i \in Issuers : GenOK(i)
TurnInv == \A k \in Confirms : TurnOK(k)

(* What the handlers know of the rows they go on to write                    *)
CallsInv == CheckoutInv /\ CancelInv /\ PayInv /\ ConfirmInv /\ ChargeInv /\ RefundInv
(* What the two copies of the printing loop know                             *)
PrintInv == GenInv /\ TurnInv

Inv ==
    /\ TypeOK /\ CallsInv /\ PrintInv
    /\ TicketsArePaid /\ SeatStatusBacked /\ OneTicketEach /\ HeldStaysHeld /\ PaidUnlessUndone

USE DatabaseAssumption, BookingAssumption

-----------------------------------------------------------------------------
(* Who writes what *)

(* A program prints while its confirm is at the tickets, or while its        *)
(* message is delivered.                                                     *)
MayPrint(i) == IF i[2] = "payment" THEN AtConfirm(i[1], "tickets") ELSE ticketMsg[i[1]] = "delivered"
PrintStep == \E i \in Issuers : MayPrint(i) /\ GenStep(i) /\ UNCHANGED <<orderVars, payVars>>

LEMMA PrintSteps ==
    /\ \A k \in Confirms : ConfirmTickets(k) /\ UNCHANGED orderVars => PrintStep
    /\ \A k \in Confirms : TicketWork(k) /\ UNCHANGED <<orderVars, payVars>> => PrintStep
<1>1. ASSUME NEW k \in Confirms, ConfirmTickets(k), UNCHANGED orderVars  PROVE PrintStep
  <2>1. <<k, "payment">> \in Issuers /\ MayPrint(<<k, "payment">>)
    BY <1>1 DEF Issuers, MayPrint, ConfirmTickets
  <2>. QED BY <1>1, <2>1 DEF PrintStep, ConfirmTickets
<1>2. ASSUME NEW k \in Confirms, TicketWork(k), UNCHANGED <<orderVars, payVars>>  PROVE PrintStep
  <2>1. Delivery(k) \in Issuers /\ MayPrint(Delivery(k))
    BY <1>2 DEF Issuers, MayPrint, TicketWork, Delivery
  <2>. QED BY <1>2, <2>1 DEF PrintStep, TicketWork
<1>. QED BY <1>1, <1>2

(* The row of a payment is made, whether or not its call goes on to answer.  *)
PayInserts(p) == \E pc \in {"done", "failed"} : InsertPayment(p, pc)

(* The actions of the order service, and of the steps of its calls.          *)
LEMMA OrderSteps ==
    ASSUME OrderNext
    PROVE  \/ \E c \in Checkouts : \E key \in Keys \union {c}, asked \in SUBSET Seats : CheckoutLookup(c, key, asked)
           \/ \E c \in Checkouts : CheckoutSeats(c)
           \/ \E c \in Checkouts : CheckoutInsert(c)
           \/ \E c \in Checkouts, s \in Seats : CheckoutItem(c, s)
           \/ \E c \in Checkouts : CheckoutReserve(c)
           \/ \E c \in Checkouts : CheckoutPublish(c)
           \/ \E x \in Cancels, o \in Checkouts : CancelLookup(x, o)
           \/ \E x \in Cancels : CancelMark(x)
           \/ \E x \in Cancels : CancelItems(x)
           \/ \E x \in Cancels, s \in Seats : CancelReopen(x, s)
           \/ \E o \in Checkouts, status \in PatchStatuses : PatchStatus(o, status)
BY DEF OrderNext, CheckoutCall, OrderRest, CheckoutStep, CancelStep
LEMMA PaymentSteps ==
    ASSUME PaymentNext, UNCHANGED orderVars
    PROVE  \/ \E p \in Pays, o \in Checkouts : \E key \in Keys \union {p}, amount \in SUBSET Seats :
                OrderExists(o) /\ PayLookup(p, o, key, amount)
           \/ \E p \in Pays : PayOrder(p)
           \/ \E p \in Pays : PayInserts(p) /\ UNCHANGED failures
           \/ \E k \in Confirms, p \in Pays : ConfirmSession(k, p)
           \/ \E k \in Confirms : ConfirmCharge(k)
           \/ \E k \in Confirms : ConfirmPaid(k)
           \/ PrintStep
           \/ \E k \in Confirms : ConfirmPublish(k)
           \/ \E f \in Refunds, p \in Pays : RefundPayment(f, p)
           \/ \E f \in Refunds : RefundOrder(f)
BY PrintSteps DEF PaymentNext, PaymentCall, PaymentRest, PayStep, PayInsert, PayInserts, ConfirmStep, RefundStep, Payable

LEMMA WorkerSteps ==
    ASSUME WorkerNext, UNCHANGED <<orderVars, payVars>>
    PROVE  \/ \E o \in Checkouts : OrderProcess(o)
           \/ \E o \in Checkouts : OrderAck(o)
           \/ \E k \in Confirms : TicketDeliver(k, PaidOrder(k))
           \/ PrintStep
           \/ \E k \in Confirms : TicketAck(k)
BY PrintSteps DEF WorkerNext, OrderWorkerStep

(* Every action by itself, with what the other services keep.                *)
USE DEF Next, SeatServiceHold, OrderServiceNext, PaymentServiceNext, QueueWorkerNext, Fault,
        tables, queues, orderVars, payVars,
        CheckoutLookup, CheckoutSeats, CheckoutInsert, CheckoutItem, CheckoutReserve, CheckoutPublish,
        CancelLookup, CancelMark, CancelItems, CancelReopen, PatchStatus, OrderHandlerDies,
        PayLookup, PayOrder, PayInsert, PayInserts, InsertPayment, PayPublishFails,
        ConfirmSession, ConfirmCharge, ConfirmPaid, ConfirmPublish,
        RefundPayment, RefundOrder, PaymentHandlerDies,
        PrintStep, GenStep, GenItems, GenCheck, GenInsert, GenSell,
        OrderProcess, OrderAck, TicketDeliver, TicketAck, DeadLetter, WorkerCrash

(* For each column, the actions that may write it.                           *)
LEMMA SeatsWriters ==
    ASSUME Next
    PROVE  \/ UNCHANGED seats
           \/ SeatServiceHold
           \/ \E c \in Checkouts : CheckoutReserve(c)
           \/ \E x \in Cancels, s \in Seats : CancelReopen(x, s)
           \/ \E i \in Issuers : MayPrint(i) /\ GenSell(i) /\ UNCHANGED <<orderVars, payVars>>
BY OrderSteps, PaymentSteps, WorkerSteps, ZenonT(60)

LEMMA OrdersWriters ==
    ASSUME Next
    PROVE  \/ UNCHANGED orders
           \/ \E c \in Checkouts : CheckoutInsert(c)
           \/ \E x \in Cancels : CancelMark(x)
           \/ \E o \in Checkouts, status \in PatchStatuses : PatchStatus(o, status)
           \/ \E k \in Confirms : ConfirmPaid(k)
           \/ \E f \in Refunds : RefundOrder(f)
           \/ \E o \in Checkouts : OrderProcess(o)
BY OrderSteps, PaymentSteps, WorkerSteps, ZenonT(60)

LEMMA PaymentsWriters ==
    ASSUME Next
    PROVE  \/ UNCHANGED payments
           \/ \E p \in Pays : PayInserts(p)
           \/ \E k \in Confirms : ConfirmCharge(k)
           \/ \E f \in Refunds, p \in Pays : RefundPayment(f, p)
BY OrderSteps, PaymentSteps, WorkerSteps, ZenonT(60)

LEMMA ItemsWriters ==
    ASSUME Next
    PROVE  \/ UNCHANGED order_items
           \/ \E c \in Checkouts, s \in Seats : CheckoutItem(c, s)
BY OrderSteps, PaymentSteps, WorkerSteps, ZenonT(60)

LEMMA TicketsWriters ==
    ASSUME Next
    PROVE  \/ UNCHANGED tickets
           \/ \E i \in Issuers : MayPrint(i) /\ GenInsert(i)
BY OrderSteps, PaymentSteps, WorkerSteps, ZenonT(60)

LEMMA OrderMsgWriters ==
    ASSUME Next
    PROVE  \/ UNCHANGED orderMsg
           \/ \E c \in Checkouts : CheckoutPublish(c)
           \/ \E o \in Checkouts : OrderProcess(o)
           \/ \E o \in Checkouts : OrderAck(o)
           \/ DeadLetter
           \/ WorkerCrash
BY OrderSteps, PaymentSteps, WorkerSteps, ZenonT(60)

LEMMA TicketMsgWriters ==
    ASSUME Next
    PROVE  \/ UNCHANGED ticketMsg
           \/ \E k \in Confirms : ConfirmPublish(k)
           \/ \E k \in Confirms : TicketDeliver(k, PaidOrder(k)) /\ UNCHANGED confirmReq
           \/ \E k \in Confirms : TicketAck(k) /\ UNCHANGED confirmReq
           \/ DeadLetter /\ UNCHANGED confirmReq
           \/ WorkerCrash /\ UNCHANGED confirmReq
BY OrderSteps, PaymentSteps, WorkerSteps, ZenonT(60)

LEMMA GenWriters ==
    ASSUME Next
    PROVE  \/ UNCHANGED gen
           \/ \E k \in Confirms : ConfirmPaid(k) /\ UNCHANGED ticketMsg
           \/ PrintStep
           \/ \E k \in Confirms : TicketDeliver(k, PaidOrder(k))
           \/ DeadLetter
           \/ WorkerCrash
BY OrderSteps, PaymentSteps, WorkerSteps, ZenonT(60)

LEMMA CheckoutWriters ==
    ASSUME Next
    PROVE  \/ UNCHANGED checkoutReq
           \/ \E c \in Checkouts : \E key \in Keys \union {c}, asked \in SUBSET Seats : CheckoutLookup(c, key, asked)
           \/ \E c \in Checkouts : CheckoutSeats(c)
           \/ \E c \in Checkouts : CheckoutInsert(c)
           \/ \E c \in Checkouts, s \in Seats : CheckoutItem(c, s)
           \/ \E c \in Checkouts : CheckoutReserve(c)
           \/ \E c \in Checkouts : CheckoutPublish(c)
           \/ OrderHandlerDies
BY OrderSteps, ZenonT(60)

LEMMA CancelWriters ==
    ASSUME Next
    PROVE  \/ UNCHANGED cancelReq
           \/ \E x \in Cancels, o \in Checkouts : CancelLookup(x, o)
           \/ \E x \in Cancels : CancelMark(x)
           \/ \E x \in Cancels : CancelItems(x)
           \/ \E x \in Cancels, s \in Seats : CancelReopen(x, s)
           \/ OrderHandlerDies
BY OrderSteps, ZenonT(60)

LEMMA PayWriters ==
    ASSUME Next
    PROVE  \/ UNCHANGED payReq
           \/ \E p \in Pays, o \in Checkouts : \E key \in Keys \union {p}, amount \in SUBSET Seats :
                OrderExists(o) /\ PayLookup(p, o, key, amount)
           \/ \E p \in Pays : PayOrder(p)
           \/ \E p \in Pays : PayInserts(p)
           \/ PaymentHandlerDies
BY PaymentSteps, ZenonT(60)

LEMMA ConfirmWriters ==
    ASSUME Next
    PROVE  \/ UNCHANGED confirmReq
           \/ \E k \in Confirms, p \in Pays : ConfirmSession(k, p)
           \/ \E k \in Confirms : ConfirmCharge(k)
           \/ \E k \in Confirms : ConfirmPaid(k)
           \/ \E k \in Confirms : ConfirmPublish(k)
           \/ PaymentHandlerDies
BY PaymentSteps, ZenonT(60)

LEMMA RefundWriters ==
    ASSUME Next
    PROVE  \/ UNCHANGED refundReq
           \/ \E f \in Refunds, p \in Pays : RefundPayment(f, p)
           \/ \E f \in Refunds : RefundOrder(f)
           \/ PaymentHandlerDies
BY PaymentSteps, ZenonT(60)

LEMMA FailuresCount ==
    ASSUME Next
    PROVE  failures' \in {failures, failures + 1}
BY OrderSteps, PaymentSteps, WorkerSteps, ZenonT(60)

HIDE DEF Next, SeatServiceHold, OrderServiceNext, PaymentServiceNext, QueueWorkerNext, Fault,
         CheckoutLookup, CheckoutSeats, CheckoutInsert, CheckoutItem, CheckoutReserve, CheckoutPublish,
         CancelLookup, CancelMark, CancelItems, CancelReopen, PatchStatus, OrderHandlerDies,
         PayLookup, PayOrder, PayInsert, PayInserts, InsertPayment, PayPublishFails,
         ConfirmSession, ConfirmCharge, ConfirmPaid, ConfirmPublish,
         RefundPayment, RefundOrder, PaymentHandlerDies,
         PrintStep, GenStep, GenItems, GenCheck, GenInsert, GenSell,
         OrderProcess, OrderAck, TicketDeliver, TicketAck, DeadLetter, WorkerCrash
-----------------------------------------------------------------------------
(* Rows and messages *)

(* A status written to an order that exists leaves the rest of the table.    *)
LEMMA StatusWritten ==
    ASSUME TypeOK, NEW o \in Checkouts, OrderExists(o), NEW status \in OrderStatus,
           SetOrderStatus(o, status)
    PROVE  /\ orders' \in [Checkouts -> Order \union {None}]
           /\ \A c \in Checkouts : OrderExists(c)' <=> OrderExists(c)
           /\ orders'[o].status = status
           /\ \A c \in Checkouts : c # o => orders'[c] = orders[c]
<1>1. orders[o] \in Order /\ orders' = [orders EXCEPT ![o] = [orders[o] EXCEPT !.status = status]]
  BY DEF TypeOK, DatabaseTypeOK, OrderExists, SetOrderStatus
<1>2. [orders[o] EXCEPT !.status = status] \in Order /\ [orders[o] EXCEPT !.status = status].status = status
  BY <1>1 DEF Order
<1>. QED BY <1>1, <1>2 DEF TypeOK, DatabaseTypeOK, OrderExists, DatabaseAssumption

(* What confirm and refund write to a payment that exists.                   *)
LEMMA SettleWritten ==
    ASSUME TypeOK, NEW k \in Confirms, confirmReq[k].payment \in Pays, PaymentExists(confirmReq[k].payment),
           Settle(k)
    PROVE  /\ payments' \in [Pays -> Payment \union {None}]
           /\ payments'[confirmReq[k].payment] # None
           /\ payments'[confirmReq[k].payment].order_id = payments[confirmReq[k].payment].order_id
           /\ payments'[confirmReq[k].payment].transaction_id = k
           /\ \A p \in Pays : p # confirmReq[k].payment => payments'[p] = payments[p]
<1>. DEFINE q == confirmReq[k].payment
            row == [payments[q] EXCEPT !.status = "SUCCESS", !.transaction_id = k]
<1>1. payments[q] \in Payment /\ payments' = [payments EXCEPT ![q] = row]
  BY DEF TypeOK, DatabaseTypeOK, PaymentExists, Settle
<1>2. row \in Payment /\ row.order_id = payments[q].order_id /\ row.transaction_id = k
  BY <1>1 DEF Payment, PaymentStatus
<1>. HIDE DEF row
<1>3. /\ payments' \in [Pays -> Payment \union {None}] /\ payments'[q] = row
      /\ \A p \in Pays : p # q => payments'[p] = payments[p]
  BY <1>1, <1>2 DEF TypeOK, DatabaseTypeOK
<1>. QED BY <1>2, <1>3 DEF PaymentExists, DatabaseAssumption

LEMMA RefundWritten ==
    ASSUME TypeOK, NEW q \in Pays, PaymentExists(q),
           payments' = [payments EXCEPT ![q].status = "REFUNDED"]
    PROVE  /\ payments' \in [Pays -> Payment \union {None}]
           /\ PaymentExists(q)'
           /\ payments'[q].order_id = payments[q].order_id
           /\ payments'[q].transaction_id = payments[q].transaction_id
           /\ \A p \in Pays : p # q => payments'[p] = payments[p]
<1>. DEFINE row == [payments[q] EXCEPT !.status = "REFUNDED"]
<1>1. payments[q] \in Payment /\ payments' = [payments EXCEPT ![q] = row]
  BY DEF TypeOK, DatabaseTypeOK, PaymentExists
<1>2. row \in Payment /\ row.order_id = payments[q].order_id /\ row.transaction_id = payments[q].transaction_id
  BY <1>1 DEF Payment, PaymentStatus
<1>. HIDE DEF row
<1>3. /\ payments' \in [Pays -> Payment \union {None}] /\ payments'[q] = row
      /\ \A p \in Pays : p # q => payments'[p] = payments[p]
  BY <1>1, <1>2 DEF TypeOK, DatabaseTypeOK
<1>. QED BY <1>2, <1>3 DEF PaymentExists, DatabaseAssumption

(* Only checkout makes an order, and every other write is to one that exists. *)
LEMMA OrdersWritten ==
    ASSUME TypeOK, CallsInv, Next
    PROVE  \/ UNCHANGED orders
           \/ \E c \in Checkouts : CheckoutInsert(c)
           \/ \E o \in Checkouts, status \in OrderStatus : OrderExists(o) /\ SetOrderStatus(o, status)
<1>1. ASSUME NEW x \in Cancels, CancelMark(x)  PROVE OrderExists(cancelReq[x].order) /\ cancelReq[x].order \in Checkouts
  BY <1>1 DEF CallsInv, CancelInv, CancelOK, CancelMark, AtCancel
<1>2. ASSUME NEW k \in Confirms, ConfirmPaid(k)  PROVE OrderExists(PaidOrder(k)) /\ PaidOrder(k) \in Checkouts
  BY <1>2 DEF CallsInv, ConfirmInv, ConfirmOK, PayInv, PayOK, ConfirmPaid, AtConfirm, PaidOrder, PaymentExists,
              TypeOK, DatabaseTypeOK, Payment
<1>3. ASSUME NEW f \in Refunds, RefundOrder(f)
      PROVE  LET o == payments[refundReq[f].payment].order_id IN OrderExists(o) /\ o \in Checkouts
  BY <1>3 DEF CallsInv, RefundInv, RefundOK, PayInv, PayOK, RefundOrder, PaymentExists, TypeOK, DatabaseTypeOK, Payment
<1>4. ASSUME NEW o \in Checkouts, OrderProcess(o)  PROVE OrderExists(o)
  BY <1>4 DEF CallsInv, CheckoutInv, CheckoutOK, OrderProcess
<1>. QED BY OrdersWriters, <1>1, <1>2, <1>3, <1>4
         DEF CancelMark, PatchStatus, ConfirmPaid, RefundOrder, OrderProcess, OrderStatus, BookingAssumption
(* A new order is one that was not there, and leaves the others.             *)
LEMMA CheckoutInserted ==
    ASSUME TypeOK, CallsInv, NEW c \in Checkouts, CheckoutInsert(c)
    PROVE  /\ orders' \in [Checkouts -> Order \union {None}]
           /\ ~ OrderExists(c)
           /\ UNCHANGED orders \/ OrderExists(c)'
           /\ ~ OrderKeyTaken(checkoutReq[c].key) => OrderExists(c)'
           /\ \A o \in Checkouts : o # c => orders'[o] = orders[o]
<1>. DEFINE row == [status |-> "PENDING", idempotency_key |-> checkoutReq[c].key,
                    total_amount |-> checkoutReq[c].asked]
<1>1. row \in Order /\ ~ OrderExists(c)
  BY DEF CheckoutInsert, AtCheckout, CallsInv, CheckoutInv, CheckoutOK, TypeOK, OrderTypeOK, Order, OrderStatus
<1>2. IF OrderKeyTaken(checkoutReq[c].key) THEN UNCHANGED orders ELSE orders' = [orders EXCEPT ![c] = row]
  BY DEF CheckoutInsert, OnKeyTaken
<1>. HIDE DEF row
<1>. QED BY <1>1, <1>2 DEF OrderExists, TypeOK, DatabaseTypeOK, DatabaseAssumption

(* A new payment is one that was not there, and leaves the others.           *)
LEMMA PayInserted ==
    ASSUME TypeOK, CallsInv, NEW p \in Pays, PayInserts(p)
    PROVE  /\ payments' \in [Pays -> Payment \union {None}]
           /\ ~ PaymentExists(p)
           /\ \/ UNCHANGED payments
              \/ /\ PaymentExists(p)'
                 /\ payments'[p].order_id = payReq[p].order
                 /\ payments'[p].transaction_id = None
           /\ \A q \in Pays : q # p => payments'[q] = payments[q]
<1>. DEFINE row == [order_id |-> payReq[p].order, status |-> "PENDING",
                     idempotency_key |-> payReq[p].key, transaction_id |-> None]
<1>1. payReq[p].order \in Checkouts /\ payReq[p].key \in Keys \union Pays /\ ~ PaymentExists(p)
  BY DEF CallsInv, PayInv, PayOK, PayInserts, InsertPayment, AtPay, TypeOK, PaymentTypeOK
<1>2. row \in Payment /\ row.order_id = payReq[p].order /\ row.transaction_id = None
  BY <1>1 DEF Payment, PaymentStatus
<1>3. UNCHANGED payments \/ payments' = [payments EXCEPT ![p] = row]
  BY DEF PayInserts, InsertPayment
<1>. HIDE DEF row
<1>4. /\ payments' \in [Pays -> Payment \union {None}]
      /\ UNCHANGED payments \/ payments'[p] = row
      /\ \A q \in Pays : q # p => payments'[q] = payments[q]
  BY <1>2, <1>3 DEF TypeOK, DatabaseTypeOK
<1>. QED BY <1>1, <1>2, <1>4 DEF PaymentExists, DatabaseAssumption

(* Nothing is deleted: orders, items, payments, charges and tickets stay.    *)
Kept == /\ \A o \in Checkouts : OrderExists(o) => OrderExists(o)'
        /\ order_items \subseteq order_items'
        /\ tickets \subseteq tickets'
        /\ \A p \in Pays : PaymentExists(p) =>
                PaymentExists(p)' /\ payments'[p].order_id = payments[p].order_id
        /\ \A p \in Pays : Succeeded(p) => Succeeded(p)'

LEMMA Keeping ==
    ASSUME TypeOK, CallsInv, Next
    PROVE  Kept
<1>1. \A o \in Checkouts : OrderExists(o) => OrderExists(o)'
  <2>. QED BY OrdersWritten, StatusWritten, CheckoutInserted DEF OrderExists
<1>2. order_items \subseteq order_items'
  BY ItemsWriters DEF CheckoutItem
<1>3. tickets \subseteq tickets'
  BY TicketsWriters DEF GenInsert
<1>4. ASSUME NEW p \in Pays, PaymentExists(p)
      PROVE  /\ PaymentExists(p)' /\ payments'[p].order_id = payments[p].order_id
             /\ Succeeded(p) => Succeeded(p)'
  <2>1. CASE UNCHANGED payments
    BY <1>4, <2>1 DEF PaymentExists, Succeeded
  <2>2. ASSUME NEW q \in Pays, PayInserts(q)  PROVE p # q /\ payments'[p] = payments[p]
    BY <1>4, <2>2, PayInserted
  <2>3. ASSUME NEW k \in Confirms, ConfirmCharge(k)
        PROVE  \/ payments'[p] = payments[p]
               \/ payments'[p] # None /\ payments'[p].order_id = payments[p].order_id /\ payments'[p].transaction_id = k
    <3>1. confirmReq[k].payment \in Pays /\ PaymentExists(confirmReq[k].payment) /\ Settle(k)
      BY <2>3 DEF CallsInv, ConfirmInv, ConfirmOK, ConfirmCharge, AtConfirm
    <3>. QED BY <3>1, SettleWritten
  <2>4. ASSUME NEW f \in Refunds, NEW q \in Pays, RefundPayment(f, q)
        PROVE  \/ payments'[p] = payments[p]
               \/ /\ payments'[p] # None /\ payments'[p].order_id = payments[p].order_id
                  /\ payments'[p].transaction_id = payments[p].transaction_id
    BY <2>4, RefundWritten DEF RefundPayment, PaymentExists
  <2>. QED BY <1>4, <2>1, <2>2, <2>3, <2>4, PaymentsWriters DEF PaymentExists, Succeeded, DatabaseAssumption
<1>. QED BY <1>1, <1>2, <1>3, <1>4 DEF Kept, Succeeded

(* What only mentions such rows is kept with them.                           *)
LEMMA KeptDerived ==
    ASSUME TypeOK, Kept
    PROVE  /\ \A o \in Checkouts : Charged(o) => Charged(o)'
           /\ \A o \in Checkouts, s \in Seats : HasTicket(o, s) => HasTicket(o, s)'
BY DEF Kept, Charged, HasTicket, Succeeded
-----------------------------------------------------------------------------
(* Types *)

LEMMA DatabaseTypes ==
    ASSUME TypeOK, CallsInv, GenInv, Next
    PROVE  DatabaseTypeOK'
<1>1. seats' \in [Seats -> SeatStatus]
  BY SeatsWriters DEF SeatServiceHold, SeatHold, CheckoutReserve, Reserve, CancelReopen, GenSell, Set,
                      TypeOK, DatabaseTypeOK, SeatStatus
<1>2. orders' \in [Checkouts -> Order \union {None}]
  BY OrdersWritten, StatusWritten, CheckoutInserted DEF TypeOK, DatabaseTypeOK
<1>3. order_items' \in SUBSET (Checkouts \X Seats)
  <2>1. ASSUME NEW c \in Checkouts, NEW s \in Seats, CheckoutItem(c, s)
        PROVE  order_items' = order_items \union {<<c, s>>} /\ <<c, s>> \in Checkouts \X Seats
    BY <2>1 DEF CheckoutItem
  <2>2. order_items \in SUBSET (Checkouts \X Seats)
    BY DEF TypeOK, DatabaseTypeOK
  <2>. QED BY <2>1, <2>2, ItemsWriters
<1>4. payments' \in [Pays -> Payment \union {None}]
  <2>1. ASSUME NEW k \in Confirms, ConfirmCharge(k)
        PROVE  confirmReq[k].payment \in Pays /\ PaymentExists(confirmReq[k].payment) /\ Settle(k)
    BY <2>1 DEF CallsInv, ConfirmInv, ConfirmOK, ConfirmCharge, AtConfirm
  <2>. QED BY <2>1, PaymentsWriters, PayInserted, SettleWritten, RefundWritten
           DEF RefundPayment, TypeOK, DatabaseTypeOK
<1>5. tickets' \in SUBSET Ticket
  <2>1. ASSUME NEW i \in Issuers, GenInsert(i)  PROVE tickets' \in SUBSET Ticket
    <3>1. gen[i].order \in Checkouts /\ gen[i].seat \in Seats
      BY <2>1 DEF GenInsert, AtGen, GenInv, GenOK, TypeOK, DatabaseTypeOK
    <3>2. MadeBefore(i) \in BOOLEAN
      BY DEF MadeBefore
    <3>. QED BY <2>1, <3>1, <3>2 DEF GenInsert, Ticket, TypeOK, DatabaseTypeOK
  <2>. QED BY <2>1, TicketsWriters DEF TypeOK, DatabaseTypeOK
<1>6. orderMsg' \in [Checkouts -> MessageState]
  BY OrderMsgWriters DEF CheckoutPublish, OrderProcess, OrderAck, DeadLetter, WorkerCrash,
                         TypeOK, DatabaseTypeOK, MessageState
<1>7. ticketMsg' \in [Confirms -> MessageState]
  BY TicketMsgWriters DEF ConfirmPublish, TicketDeliver, TicketAck, DeadLetter, WorkerCrash,
                          TypeOK, DatabaseTypeOK, MessageState
<1>8. failures' \in Nat
  BY FailuresCount DEF TypeOK, DatabaseTypeOK
<1>. QED BY <1>1, <1>2, <1>3, <1>4, <1>5, <1>6, <1>7, <1>8 DEF DatabaseTypeOK

LEMMA OrderCallTypes ==
    ASSUME TypeOK, Next
    PROVE  OrderTypeOK'
<1>. DEFINE Calls == [pc : {"idle", "seats", "insert", "item", "reserve", "publish", "done", "failed"},
                      key : Keys \union Checkouts \union {None}, asked : SUBSET Seats,
                      todo : SUBSET Seats, seat : Seats \union {None}]
<1>1. checkoutReq' \in [Checkouts -> Calls]
  <2>. USE DEF TypeOK, OrderTypeOK
  <2>1. ASSUME NEW c \in Checkouts, NEW key \in Keys \union {c}, NEW asked \in SUBSET Seats,
               CheckoutLookup(c, key, asked)
        PROVE  checkoutReq' \in [Checkouts -> Calls]
    <3>. DEFINE pc == IF OrderKeyTaken(key) THEN "done" ELSE "seats"
                row == [checkoutReq[c] EXCEPT !.key = key, !.asked = asked, !.pc = pc]
    <3>1. row \in Calls
      <4>1. pc \in {"done", "seats"} /\ checkoutReq[c] \in Calls
        OBVIOUS
      <4>. HIDE DEF pc
      <4>. QED BY <4>1
    <3>2. checkoutReq' = [checkoutReq EXCEPT ![c] = row]
      BY <2>1 DEF CheckoutLookup
    <3>. HIDE DEF row, Calls
    <3>. QED BY <3>1, <3>2 DEF Calls
  <2>2. ASSUME NEW c \in Checkouts, CheckoutSeats(c) \/ CheckoutInsert(c) \/ CheckoutReserve(c) \/ CheckoutPublish(c)
        PROVE  checkoutReq' \in [Checkouts -> Calls]
    <3>1. CASE CheckoutSeats(c)
      BY <3>1 DEF CheckoutSeats
    <3>2. CASE CheckoutInsert(c)
      BY <3>2 DEF CheckoutInsert
    <3>3. CASE CheckoutReserve(c)
      <4>. DEFINE pc == IF checkoutReq[c].todo = {} THEN "publish" ELSE "item"
                  row == [checkoutReq[c] EXCEPT !.seat = None, !.pc = pc]
      <4>1. row \in Calls
        <5>1. pc \in {"publish", "item"} /\ checkoutReq[c] \in Calls
          OBVIOUS
        <5>. HIDE DEF pc
        <5>. QED BY <5>1
      <4>2. checkoutReq' = [checkoutReq EXCEPT ![c] = row]
        BY <3>3 DEF CheckoutReserve
      <4>. HIDE DEF row, Calls
      <4>. QED BY <4>1, <4>2 DEF Calls
    <3>4. CASE CheckoutPublish(c)
      BY <3>4 DEF CheckoutPublish
    <3>. QED BY <2>2, <3>1, <3>2, <3>3, <3>4
  <2>3. ASSUME NEW c \in Checkouts, NEW s \in Seats, CheckoutItem(c, s)
        PROVE  checkoutReq' \in [Checkouts -> Calls]
    BY <2>3 DEF CheckoutItem
  <2>4. ASSUME OrderHandlerDies  PROVE checkoutReq' \in [Checkouts -> Calls]
    BY <2>4 DEF OrderHandlerDies
  <2>. QED BY <2>1, <2>2, <2>3, <2>4, CheckoutWriters
<1>2. cancelReq' \in [Cancels -> [pc : {"idle", "mark", "items", "reopen", "done", "failed"},
                                  order : Checkouts \union {None}, todo : SUBSET Seats]]
  <2>. DEFINE Cancellations == [pc : {"idle", "mark", "items", "reopen", "done", "failed"},
                         order : Checkouts \union {None}, todo : SUBSET Seats]
  <2>. USE DEF TypeOK, OrderTypeOK
  <2>1. ASSUME NEW x \in Cancels, NEW o \in Checkouts, CancelLookup(x, o)  PROVE cancelReq' \in [Cancels -> Cancellations]
    BY <2>1 DEF CancelLookup
  <2>2. ASSUME NEW x \in Cancels, CancelMark(x)  PROVE cancelReq' \in [Cancels -> Cancellations]
    BY <2>2 DEF CancelMark
  <2>3. ASSUME NEW x \in Cancels, CancelItems(x)  PROVE cancelReq' \in [Cancels -> Cancellations]
    <3>. DEFINE items == ItemsOf(cancelReq[x].order)
                pc == IF items = {} THEN "done" ELSE "reopen"
                row == [cancelReq[x] EXCEPT !.todo = items, !.pc = pc]
    <3>1. row \in Cancellations
      <4>1. pc \in {"done", "reopen"} /\ items \in SUBSET Seats /\ cancelReq[x] \in Cancellations
        BY DEF ItemsOf
      <4>. HIDE DEF pc, items
      <4>. QED BY <4>1
    <3>2. cancelReq' = [cancelReq EXCEPT ![x] = row]
      BY <2>3 DEF CancelItems
    <3>. HIDE DEF row, Cancellations
    <3>. QED BY <3>1, <3>2 DEF Cancellations
  <2>4. ASSUME NEW x \in Cancels, NEW s \in Seats, CancelReopen(x, s)  PROVE cancelReq' \in [Cancels -> Cancellations]
    <3>. DEFINE pc == IF cancelReq[x].todo = {s} THEN "done" ELSE "reopen"
                row == [cancelReq[x] EXCEPT !.todo = @ \ {s}, !.pc = pc]
    <3>1. row \in Cancellations
      <4>1. pc \in {"done", "reopen"} /\ cancelReq[x] \in Cancellations
        OBVIOUS
      <4>. HIDE DEF pc
      <4>. QED BY <4>1
    <3>2. cancelReq' = [cancelReq EXCEPT ![x] = row]
      BY <2>4 DEF CancelReopen
    <3>. HIDE DEF row, Cancellations
    <3>. QED BY <3>1, <3>2 DEF Cancellations
  <2>5. ASSUME OrderHandlerDies  PROVE cancelReq' \in [Cancels -> Cancellations]
    BY <2>5 DEF OrderHandlerDies
  <2>. QED BY <2>1, <2>2, <2>3, <2>4, <2>5, CancelWriters
<1>. QED BY <1>1, <1>2 DEF OrderTypeOK

LEMMA PaymentCallTypes ==
    ASSUME TypeOK, Next
    PROVE  PaymentTypeOK'
<1>. USE DEF TypeOK, PaymentTypeOK
<1>1. payReq' \in [Pays -> [pc : {"idle", "order", "insert", "done", "failed"},
                            order : Checkouts \union {None}, key : Keys \union Pays \union {None},
                            amount : SUBSET Seats]]
  BY PayWriters DEF PayLookup, PayOrder, PayInserts, InsertPayment, PaymentHandlerDies
<1>2. confirmReq' \in [Confirms -> [pc : {"idle", "charge", "paid", "tickets", "done", "failed"},
                                    payment : Pays \union {None}]]
  <2>. DEFINE Calls == [pc : {"idle", "charge", "paid", "tickets", "done", "failed"}, payment : Pays \union {None}]
  <2>1. ASSUME NEW k \in Confirms, NEW p \in Pays, ConfirmSession(k, p)  PROVE confirmReq' \in [Confirms -> Calls]
    BY <2>1 DEF ConfirmSession
  <2>2. ASSUME NEW k \in Confirms, ConfirmCharge(k) \/ ConfirmPaid(k) \/ ConfirmPublish(k)
        PROVE  confirmReq' \in [Confirms -> Calls]
    BY <2>2 DEF ConfirmCharge, ConfirmPaid, ConfirmPublish
  <2>3. ASSUME PaymentHandlerDies  PROVE confirmReq' \in [Confirms -> Calls]
    BY <2>3 DEF PaymentHandlerDies
  <2>. QED BY <2>1, <2>2, <2>3, ConfirmWriters
<1>3. refundReq' \in [Refunds -> [pc : {"idle", "order", "done", "failed"}, payment : Pays \union {None}]]
  BY RefundWriters DEF RefundPayment, RefundOrder, PaymentHandlerDies
<1>. QED BY <1>1, <1>2, <1>3

(* A step of a run changes that run and no other.                            *)
LEMMA GenTypes ==
    ASSUME TypeOK, CallsInv, Next
    PROVE  GenTypeOK'
<1>. USE DEF TypeOK, GenTypeOK
<1>1. ASSUME NEW i \in Issuers, NEW o \in Checkouts, StartGen(i, o)  PROVE GenTypeOK'
  BY <1>1 DEF StartGen, NoRun
<1>2. ASSUME NEW i \in Issuers, GenStep(i)  PROVE GenTypeOK'
  <2>. DEFINE Runs == [pc : {"idle", "items", "check", "insert", "sell", "done"},
                       order : Checkouts \union {None}, todo : SUBSET Seats, seat : Seats \union {None}]
  <2>1. ASSUME GenItems(i)  PROVE gen' \in [Issuers -> Runs]
    <3>. DEFINE items == ItemsOf(gen[i].order)
                pc == IF items = {} THEN "done" ELSE "check"
                row == [gen[i] EXCEPT !.todo = items, !.pc = pc]
    <3>1. gen' = [gen EXCEPT ![i] = row]
      BY <2>1 DEF GenItems, SeatsOf
    <3>2. pc \in {"done", "check"} /\ items \in SUBSET Seats /\ gen[i] \in Runs
      BY DEF ItemsOf
    <3>. HIDE DEF pc, items
    <3>3. row \in Runs
      BY <3>2
    <3>. HIDE DEF row, Runs
    <3>. QED BY <3>1, <3>3 DEF Runs
  <2>2. ASSUME NEW s \in Seats, GenCheck(i, s)  PROVE gen' \in [Issuers -> Runs]
    <3>. DEFINE pc == IF Printed(i, s) THEN "sell" ELSE "insert"
                row == [gen[i] EXCEPT !.seat = s, !.todo = @ \ {s}, !.pc = pc]
    <3>1. gen' = [gen EXCEPT ![i] = row]
      BY <2>2 DEF GenCheck
    <3>2. pc \in {"sell", "insert"} /\ gen[i] \in Runs
      OBVIOUS
    <3>. HIDE DEF pc
    <3>3. row \in Runs
      BY <3>2
    <3>. HIDE DEF row, Runs
    <3>. QED BY <3>1, <3>3 DEF Runs
  <2>3. ASSUME GenInsert(i)  PROVE gen' \in [Issuers -> Runs]
    BY <2>3 DEF GenInsert
  <2>4. ASSUME GenSell(i)  PROVE gen' \in [Issuers -> Runs]
    <3>. DEFINE pc == IF gen[i].todo = {} THEN "done" ELSE "check"
                row == [gen[i] EXCEPT !.seat = None, !.pc = pc]
    <3>1. gen' = [gen EXCEPT ![i] = row]
      BY <2>4 DEF GenSell
    <3>2. pc \in {"done", "check"} /\ gen[i] \in Runs
      OBVIOUS
    <3>. HIDE DEF pc
    <3>3. row \in Runs
      BY <3>2
    <3>. HIDE DEF row, Runs
    <3>. QED BY <3>1, <3>3 DEF Runs
  <2>. QED BY <1>2, <2>1, <2>2, <2>3, <2>4 DEF GenStep
<1>3. ASSUME DeadLetter \/ WorkerCrash  PROVE GenTypeOK'
  BY <1>3 DEF DeadLetter, WorkerCrash, NoRun
<1>4. ASSUME NEW k \in Confirms, ConfirmPaid(k) \/ (TicketDeliver(k, PaidOrder(k)))
      PROVE  PaidOrder(k) \in Checkouts
  BY <1>4 DEF ConfirmPaid, TicketDeliver, AtConfirm, PaidOrder, CallsInv, ConfirmInv, ConfirmOK, Succeeded, PaymentExists,
              DatabaseTypeOK, Payment
<1>. QED BY <1>1, <1>2, <1>3, <1>4, GenWriters
         DEF ConfirmPaid, PrintTickets, TicketDeliver, PrintStep, Issuers, Delivery
LEMMA TypeStep ==
    ASSUME TypeOK, CallsInv, GenInv, Next
    PROVE  TypeOK'
BY DatabaseTypes, OrderCallTypes, PaymentCallTypes, GenTypes DEF TypeOK

-----------------------------------------------------------------------------
(* The calls *)

(* The orders that exist change by an INSERT alone.                          *)
LEMMA SameOrders ==
    ASSUME TypeOK, CallsInv, Next, ~ \E c \in Checkouts : CheckoutInsert(c)
    PROVE  \A c \in Checkouts : OrderExists(c)' <=> OrderExists(c)
BY OrdersWritten, StatusWritten DEF OrderExists

(* A call stays as good as it was when its record, order, items and message  *)
(* are what they were.                                                       *)
LEMMA CheckoutIdle ==
    ASSUME NEW c \in Checkouts, CheckoutOK(c), checkoutReq'[c] = checkoutReq[c],
           OrderExists(c)' <=> OrderExists(c),
           \A s : <<c, s>> \in order_items' <=> <<c, s>> \in order_items,
           orderMsg'[c] # "none" => orderMsg[c] # "none"
    PROVE  CheckoutOK(c)'
<1>1. ItemsOf(c)' = ItemsOf(c)
  BY DEF ItemsOf
<1>. QED BY <1>1 DEF CheckoutOK
LEMMA CheckoutKept ==
    ASSUME TypeOK, CallsInv, Next
    PROVE  CheckoutInv'
<1>. SUFFICES ASSUME NEW c \in Checkouts  PROVE CheckoutOK(c)'
  BY DEF CheckoutInv
<1>. USE DEF TypeOK, OrderTypeOK, DatabaseTypeOK
<1>0. CheckoutOK(c)
  BY DEF CallsInv, CheckoutInv
<1>1. ASSUME NEW d \in Checkouts, NEW key \in Keys \union {d}, NEW asked \in SUBSET Seats,
             CheckoutLookup(d, key, asked)
      PROVE  CheckoutOK(c)'
  <2>1. CASE c = d
    BY <1>0, <1>1, <2>1 DEF CheckoutOK, CheckoutLookup, AtCheckout, OrderExists, ItemsOf, DatabaseAssumption
  <2>. QED BY <1>0, <1>1, <2>1, CheckoutIdle DEF CheckoutLookup, OrderExists
<1>2. ASSUME NEW d \in Checkouts, CheckoutSeats(d)  PROVE CheckoutOK(c)'
  <2>1. CASE c = d
    BY <1>0, <1>2, <2>1 DEF CheckoutOK, CheckoutSeats, AtCheckout, OrderExists, ItemsOf
  <2>. QED BY <1>0, <1>2, <2>1, CheckoutIdle DEF CheckoutSeats, OrderExists
<1>3. ASSUME NEW d \in Checkouts, CheckoutInsert(d)  PROVE CheckoutOK(c)'
  <2>1. CASE c = d
    <3>1. ~ OrderKeyTaken(checkoutReq[c].key) => OrderExists(c)'
      BY <1>3, <2>1, CheckoutInserted
    <3>2. ItemsOf(c)' = ItemsOf(c)
      BY <1>3 DEF CheckoutInsert, ItemsOf
    <3>. QED BY <1>0, <1>3, <2>1, <3>1, <3>2 DEF CheckoutOK, CheckoutInsert, AtCheckout
  <2>. QED BY <1>0, <1>3, <2>1, CheckoutIdle DEF CheckoutInsert, OnKeyTaken, OrderExists
<1>4. ASSUME NEW d \in Checkouts, NEW s \in Seats, CheckoutItem(d, s)  PROVE CheckoutOK(c)'
  <2>1. CASE c = d
    BY <1>0, <1>4, <2>1 DEF CheckoutOK, CheckoutItem, AtCheckout, OrderExists, ItemsOf
  <2>. QED BY <1>0, <1>4, <2>1, CheckoutIdle DEF CheckoutItem, OrderExists
<1>5. ASSUME NEW d \in Checkouts, CheckoutReserve(d)  PROVE CheckoutOK(c)'
  <2>1. CASE c = d
    BY <1>0, <1>5, <2>1 DEF CheckoutOK, CheckoutReserve, AtCheckout, OrderExists, ItemsOf
  <2>. QED BY <1>0, <1>5, <2>1, CheckoutIdle DEF CheckoutReserve, OrderExists
<1>6. ASSUME NEW d \in Checkouts, CheckoutPublish(d)  PROVE CheckoutOK(c)'
  <2>1. CASE c = d
    BY <1>0, <1>6, <2>1 DEF CheckoutOK, CheckoutPublish, AtCheckout, OrderExists, ItemsOf
  <2>. QED BY <1>0, <1>6, <2>1, CheckoutIdle DEF CheckoutPublish, OrderExists
<1>7. ASSUME OrderHandlerDies  PROVE CheckoutOK(c)'
  BY <1>0, <1>7 DEF CheckoutOK, OrderHandlerDies, OrderExists, ItemsOf
<1>8. CASE UNCHANGED <<checkoutReq, order_items>> /\ ~ \E d \in Checkouts : CheckoutInsert(d) \/ CheckoutPublish(d)
  <2>1. orderMsg'[c] # "none" => orderMsg[c] # "none"
    BY <1>8, OrderMsgWriters DEF OrderProcess, OrderAck, DeadLetter, WorkerCrash
  <2>. QED BY <1>0, <1>8, <2>1, SameOrders, CheckoutIdle
<1>. QED BY <1>1, <1>2, <1>3, <1>4, <1>5, <1>6, <1>7, <1>8, CheckoutWriters, ItemsWriters
(* A step of another call leaves a call's record, and the rows it knows stay. *)
LEMMA CancelKept ==
    ASSUME TypeOK, CallsInv, Next
    PROVE  CancelInv'
<1>. SUFFICES ASSUME NEW x \in Cancels  PROVE CancelOK(x)'
  BY DEF CancelInv
<1>. USE DEF TypeOK, OrderTypeOK
<1>0. CancelOK(x) /\ Kept
  BY Keeping DEF CallsInv, CancelInv
<1>z. ASSUME cancelReq'[x] = cancelReq[x]  PROVE CancelOK(x)'
  BY <1>0, <1>z DEF CancelOK, Kept
<1>1. ASSUME NEW y \in Cancels, NEW o \in Checkouts, CancelLookup(y, o)  PROVE CancelOK(x)'
  <2>1. CASE x = y
    BY <1>0, <1>1, <2>1 DEF CancelOK, CancelLookup, AtCancel, Kept
  <2>. QED BY <1>1, <1>z, <2>1 DEF CancelLookup
<1>2. ASSUME NEW y \in Cancels, CancelMark(y)  PROVE CancelOK(x)'
  BY <1>0, <1>2, <1>z DEF CancelOK, CancelMark, AtCancel, Kept
<1>3. ASSUME NEW y \in Cancels, CancelItems(y)  PROVE CancelOK(x)'
  <2>1. CASE x = y
    <3>1. cancelReq'[x].order = cancelReq[x].order /\ cancelReq'[x].pc # "idle"
          /\ cancelReq'[x].todo = ItemsOf(cancelReq[x].order)
      BY <1>3, <2>1 DEF CancelItems
    <3>2. cancelReq[x].pc # "idle"
      BY <1>3, <2>1 DEF CancelItems, AtCancel
    <3>. QED BY <1>0, <3>1, <3>2 DEF CancelOK, Kept, ItemsOf
  <2>. QED BY <1>3, <1>z, <2>1 DEF CancelItems
<1>4. ASSUME NEW y \in Cancels, NEW s \in Seats, CancelReopen(y, s)  PROVE CancelOK(x)'
  <2>1. CASE x = y
    <3>1. /\ cancelReq'[x].order = cancelReq[x].order /\ cancelReq'[x].pc # "idle"
          /\ cancelReq'[x].todo \subseteq cancelReq[x].todo /\ cancelReq[x].pc # "idle"
      BY <1>4, <2>1 DEF CancelReopen, AtCancel
    <3>. QED BY <1>0, <3>1 DEF CancelOK, Kept
  <2>. QED BY <1>4, <1>z, <2>1 DEF CancelReopen
<1>5. ASSUME OrderHandlerDies  PROVE CancelOK(x)'
  BY <1>0, <1>5, <1>z DEF CancelOK, OrderHandlerDies, Kept
<1>. QED BY <1>1, <1>2, <1>3, <1>4, <1>5, <1>z, CancelWriters

(* The payments that exist change by an INSERT alone.                        *)
LEMMA SamePayments ==
    ASSUME TypeOK, CallsInv, Next, ~ \E p \in Pays : PayInserts(p)
    PROVE  \A p \in Pays : /\ PaymentExists(p)' <=> PaymentExists(p)
                           /\ PaymentExists(p)' => payments'[p].order_id = payments[p].order_id
<1>1. ASSUME NEW k \in Confirms, ConfirmCharge(k)
      PROVE  confirmReq[k].payment \in Pays /\ PaymentExists(confirmReq[k].payment) /\ Settle(k)
  BY <1>1 DEF CallsInv, ConfirmInv, ConfirmOK, ConfirmCharge, AtConfirm
<1>. QED BY <1>1, PaymentsWriters, SettleWritten, RefundWritten DEF RefundPayment, PaymentExists

LEMMA PayKept ==
    ASSUME TypeOK, CallsInv, Next
    PROVE  PayInv'
<1>. SUFFICES ASSUME NEW p \in Pays  PROVE PayOK(p)'
  BY DEF PayInv
<1>. USE DEF TypeOK, PaymentTypeOK
<1>0. PayOK(p) /\ Kept
  BY Keeping DEF CallsInv, PayInv
<1>a. PaymentExists(p) => payments[p].order_id \in Checkouts
  BY DEF PaymentExists, DatabaseTypeOK, Payment
<1>z. ASSUME payReq'[p] = payReq[p], ~ \E q \in Pays : PayInserts(q)  PROVE PayOK(p)'
  <2>1. /\ PaymentExists(p)' <=> PaymentExists(p)
        /\ PaymentExists(p)' => payments'[p].order_id = payments[p].order_id
    BY <1>z, SamePayments
  <2>. QED BY <1>0, <1>a, <1>z, <2>1 DEF PayOK, Kept
<1>1. ASSUME NEW q \in Pays, NEW o \in Checkouts, NEW key \in Keys \union {q}, NEW amount \in SUBSET Seats,
             OrderExists(o), PayLookup(q, o, key, amount)
      PROVE  PayOK(p)'
  <2>1. payments' = payments /\ \A r \in Pays : r # q => payReq'[r] = payReq[r]
    BY <1>1 DEF PayLookup
  <2>2. CASE p = q
    <3>1. payReq'[p].order = o /\ payReq'[p].key # None /\ payReq[p].pc = "idle"
      BY <1>1, <2>2 DEF PayLookup, AtPay, DatabaseAssumption
    <3>. QED BY <1>0, <1>1, <1>a, <2>1, <3>1 DEF PayOK, PaymentExists, Kept
  <2>. QED BY <1>0, <1>a, <2>1, <2>2 DEF PayOK, PaymentExists, Kept
<1>2. ASSUME NEW q \in Pays, PayOrder(q)  PROVE PayOK(p)'
  BY <1>0, <1>2, <1>a DEF PayOrder, AtPay, PayOK, PaymentExists, OrderExists
<1>3. ASSUME NEW q \in Pays, PayInserts(q)  PROVE PayOK(p)'
  <2>1. CASE p = q
    <3>1. /\ payReq'[p].pc \in {"failed", "done"}
          /\ payReq[p].order \in Checkouts /\ OrderExists(payReq[p].order)
      BY <1>0, <1>3, <2>1 DEF PayInserts, InsertPayment, AtPay, PayOK
    <3>2. PaymentExists(p)' => payments'[p].order_id = payReq[p].order
      BY <1>3, <2>1, PayInserted DEF PaymentExists
    <3>. QED BY <1>0, <3>1, <3>2 DEF PayOK, Kept
  <2>2. CASE p # q
    <3>1. payReq'[p] = payReq[p] /\ payments'[p] = payments[p]
      BY <1>3, <2>2, PayInserted DEF PayInserts, InsertPayment
    <3>. QED BY <1>0, <1>a, <3>1 DEF PayOK, PaymentExists, Kept
  <2>. QED BY <2>1, <2>2
<1>4. ASSUME PaymentHandlerDies  PROVE PayOK(p)'
  BY <1>0, <1>4, <1>a DEF PaymentHandlerDies, PayOK, PaymentExists, Kept
<1>. QED BY <1>1, <1>2, <1>3, <1>4, <1>z, PayWriters
LEMMA ConfirmKept ==
    ASSUME TypeOK, CallsInv, Next
    PROVE  ConfirmInv'
<1>. SUFFICES ASSUME NEW k \in Confirms  PROVE ConfirmOK(k)'
  BY DEF ConfirmInv
<1>. USE DEF TypeOK, PaymentTypeOK
<1>0. ConfirmOK(k) /\ Kept
  BY Keeping DEF CallsInv, ConfirmInv
<1>z. ASSUME confirmReq'[k] = confirmReq[k], ~ \E j \in Confirms : ConfirmPublish(j)  PROVE ConfirmOK(k)'
  <2>1. ticketMsg'[k] # "none" => ticketMsg[k] # "none"
    BY <1>z, TicketMsgWriters DEF TicketDeliver, TicketAck, DeadLetter, WorkerCrash, DatabaseTypeOK
  <2>. QED BY <1>0, <1>z, <2>1 DEF ConfirmOK, Kept
<1>1. ASSUME NEW j \in Confirms, NEW p \in Pays, ConfirmSession(j, p)  PROVE ConfirmOK(k)'
  <2>1. CASE k = j
    <3>1. /\ confirmReq'[k].payment = p /\ confirmReq'[k].pc \in {"charge", "done"} /\ PaymentExists(p)
          /\ confirmReq[k].pc = "idle" /\ ticketMsg'[k] = ticketMsg[k]
      BY <1>1, <2>1 DEF ConfirmSession, AtConfirm
    <3>. QED BY <1>0, <3>1 DEF ConfirmOK, Kept
  <2>2. CASE k # j
    <3>1. confirmReq'[k] = confirmReq[k] /\ ticketMsg'[k] = ticketMsg[k]
      BY <1>1, <2>2 DEF ConfirmSession
    <3>. QED BY <1>0, <3>1 DEF ConfirmOK, Kept
  <2>. QED BY <2>1, <2>2
<1>2. ASSUME NEW j \in Confirms, ConfirmCharge(j)  PROVE ConfirmOK(k)'
  <2>1. confirmReq[j].payment \in Pays /\ PaymentExists(confirmReq[j].payment) /\ Settle(j)
    BY <1>2 DEF CallsInv, ConfirmInv, ConfirmOK, ConfirmCharge, AtConfirm
  <2>2. payments'[confirmReq[j].payment] # None /\ payments'[confirmReq[j].payment].transaction_id = j
    BY <2>1, SettleWritten
  <2>3. /\ confirmReq'[k].payment = confirmReq[k].payment /\ ticketMsg'[k] = ticketMsg[k]
        /\ k # j => confirmReq'[k] = confirmReq[k]
        /\ k = j => confirmReq'[k].pc = "paid" /\ confirmReq[k].pc = "charge"
    BY <1>2 DEF ConfirmCharge, AtConfirm
  <2>. QED BY <1>0, <2>1, <2>2, <2>3 DEF ConfirmOK, Kept, Succeeded, PaymentExists, DatabaseAssumption
<1>3. ASSUME NEW j \in Confirms, ConfirmPaid(j) \/ ConfirmPublish(j)  PROVE ConfirmOK(k)'
  <2>1. /\ confirmReq'[k].payment = confirmReq[k].payment
        /\ k # j => confirmReq'[k] = confirmReq[k] /\ ticketMsg'[k] = ticketMsg[k]
        /\ k = j => \/ confirmReq[k].pc = "paid" /\ confirmReq'[k].pc = "tickets" /\ ticketMsg'[k] = ticketMsg[k]
                    \/ confirmReq[k].pc = "tickets" /\ confirmReq'[k].pc = "done"
    BY <1>3 DEF ConfirmPaid, ConfirmPublish, AtConfirm, DatabaseTypeOK
  <2>. QED BY <1>0, <2>1 DEF ConfirmOK, Kept
<1>4. ASSUME PaymentHandlerDies  PROVE ConfirmOK(k)'
  <2>1. /\ confirmReq'[k].payment = confirmReq[k].payment /\ ticketMsg'[k] = ticketMsg[k]
        /\ \/ confirmReq'[k] = confirmReq[k]
           \/ confirmReq[k].pc \in {"charge", "paid", "tickets"} /\ confirmReq'[k].pc = "failed"
    BY <1>4 DEF PaymentHandlerDies
  <2>. QED BY <1>0, <2>1 DEF ConfirmOK, Kept
<1>. QED BY <1>1, <1>2, <1>3, <1>4, <1>z, ConfirmWriters

LEMMA ChargeKept ==
    ASSUME TypeOK, CallsInv, Next
    PROVE  ChargeInv'
<1>. SUFFICES ASSUME NEW p \in Pays, Succeeded(p)'  PROVE ChargeOK(p)'
  BY DEF ChargeInv, ChargeOK
<1>. USE DEF TypeOK, PaymentTypeOK
<1>0. ChargeOK(p)
  BY DEF CallsInv, ChargeInv
<1>a. Succeeded(p) => payments[p].transaction_id \in Confirms
  BY DEF Succeeded, PaymentExists, DatabaseTypeOK, Payment, DatabaseAssumption
<1>b. ASSUME NEW j \in Confirms, confirmReq[j].pc \notin {"idle", "charge"}
      PROVE  confirmReq'[j].payment = confirmReq[j].payment /\ confirmReq'[j].pc \notin {"idle", "charge"}
  <2>1. ASSUME NEW k \in Confirms, NEW q \in Pays, ConfirmSession(k, q)  PROVE confirmReq'[j] = confirmReq[j]
    BY <1>b, <2>1 DEF ConfirmSession, AtConfirm
  <2>2. ASSUME NEW k \in Confirms, ConfirmCharge(k)  PROVE confirmReq'[j] = confirmReq[j]
    BY <1>b, <2>2 DEF ConfirmCharge, AtConfirm
  <2>3. ASSUME NEW k \in Confirms, ConfirmPaid(k) \/ ConfirmPublish(k)
        PROVE  confirmReq'[j].payment = confirmReq[j].payment /\ confirmReq'[j].pc \notin {"idle", "charge"}
    BY <1>b, <2>3 DEF ConfirmPaid, ConfirmPublish
  <2>4. ASSUME PaymentHandlerDies
        PROVE  confirmReq'[j].payment = confirmReq[j].payment /\ confirmReq'[j].pc \notin {"idle", "charge"}
    BY <1>b, <2>4 DEF PaymentHandlerDies
  <2>. QED BY <1>b, <2>1, <2>2, <2>3, <2>4, ConfirmWriters
<1>z. ASSUME Succeeded(p), payments'[p].transaction_id = payments[p].transaction_id  PROVE ChargeOK(p)'
  BY <1>0, <1>a, <1>b, <1>z DEF ChargeOK
<1>1. CASE UNCHANGED payments
  BY <1>1, <1>z DEF Succeeded, PaymentExists
<1>2. ASSUME NEW q \in Pays, PayInserts(q)  PROVE ChargeOK(p)'
  BY <1>2, <1>z, PayInserted DEF Succeeded, PaymentExists
<1>3. ASSUME NEW k \in Confirms, ConfirmCharge(k)  PROVE ChargeOK(p)'
  <2>1. confirmReq[k].payment \in Pays /\ PaymentExists(confirmReq[k].payment) /\ Settle(k)
    BY <1>3 DEF CallsInv, ConfirmInv, ConfirmOK, ConfirmCharge, AtConfirm
  <2>2. CASE p = confirmReq[k].payment
    <3>1. payments'[p].transaction_id = k
      BY <2>1, <2>2, SettleWritten
    <3>2. confirmReq'[k].payment = p /\ confirmReq'[k].pc = "paid"
      BY <1>3, <2>2 DEF ConfirmCharge
    <3>. QED BY <3>1, <3>2 DEF ChargeOK
  <2>3. CASE p # confirmReq[k].payment
    <3>1. payments'[p] = payments[p]
      BY <2>1, <2>3, SettleWritten
    <3>. QED BY <1>z, <3>1 DEF Succeeded, PaymentExists
  <2>. QED BY <2>2, <2>3
<1>4. ASSUME NEW f \in Refunds, NEW q \in Pays, RefundPayment(f, q)  PROVE ChargeOK(p)'
  <2>1. \/ payments'[p] = payments[p]
        \/ PaymentExists(p) /\ payments'[p].transaction_id = payments[p].transaction_id
    BY <1>4, RefundWritten DEF RefundPayment
  <2>. QED BY <1>z, <2>1 DEF Succeeded, PaymentExists
<1>. QED BY <1>1, <1>2, <1>3, <1>4, PaymentsWriters

LEMMA RefundKept ==
    ASSUME TypeOK, CallsInv, Next
    PROVE  RefundInv'
<1>. SUFFICES ASSUME NEW f \in Refunds  PROVE RefundOK(f)'
  BY DEF RefundInv
<1>. USE DEF TypeOK, PaymentTypeOK
<1>0. RefundOK(f) /\ Kept
  BY Keeping DEF CallsInv, RefundInv
<1>1. \/ refundReq'[f] = refundReq[f]
      \/ /\ refundReq[f].pc # "idle" /\ refundReq'[f].pc # "idle"
         /\ refundReq'[f].payment = refundReq[f].payment
      \/ refundReq'[f].pc # "idle" /\ refundReq'[f].payment \in Pays /\ PaymentExists(refundReq'[f].payment)
  BY RefundWriters DEF RefundPayment, RefundOrder, PaymentHandlerDies
<1>. QED BY <1>0, <1>1 DEF RefundOK, Kept

LEMMA CallsKept ==
    ASSUME TypeOK, CallsInv, Next
    PROVE  CallsInv'
BY CheckoutKept, CancelKept, PayKept, ConfirmKept, ChargeKept, RefundKept DEF CallsInv
-----------------------------------------------------------------------------
(* The printing *)

(* A run that may move goes on with its order and its seats.                 *)
LEMMA GenMoved ==
    ASSUME TypeOK, CallsInv, GenInv, NEW i \in Issuers, MayPrint(i), GenStep(i), Kept
    PROVE  /\ \A j \in Issuers : j # i => gen'[j] = gen[j]
           /\ gen[i].pc \in {"items", "check", "insert", "sell"}
           /\ gen'[i].pc # "idle" /\ gen'[i].order = gen[i].order
           /\ \A s \in gen'[i].todo : <<gen[i].order, s>> \in order_items
           /\ gen'[i].pc \in {"insert", "sell"} => <<gen[i].order, gen'[i].seat>> \in order_items
           /\ gen'[i].pc = "insert" => ~ HasTicket(gen[i].order, gen'[i].seat) /\ UNCHANGED tickets
           /\ gen'[i].pc = "sell" => \/ HasTicket(gen[i].order, gen'[i].seat)
                                     \/ GenInsert(i) /\ gen'[i].seat = gen[i].seat
<1>. USE DEF TypeOK, GenTypeOK
<1>0. GenOK(i)
  BY DEF GenInv
<1>1. CASE GenItems(i)
  <2>1. /\ \A j \in Issuers : j # i => gen'[j] = gen[j]
        /\ gen[i].pc = "items" /\ gen'[i].pc \in {"done", "check"} /\ gen'[i].order = gen[i].order
        /\ gen'[i].todo = ItemsOf(gen[i].order)
    BY <1>1 DEF GenItems, AtGen, SeatsOf
  <2>. QED BY <2>1 DEF ItemsOf
<1>2. ASSUME NEW s \in Seats, GenCheck(i, s)
      PROVE  /\ \A j \in Issuers : j # i => gen'[j] = gen[j]
             /\ gen[i].pc = "check" /\ s \in gen[i].todo
             /\ gen'[i].pc = IF HasTicket(gen[i].order, s) THEN "sell" ELSE "insert"
             /\ gen'[i].order = gen[i].order /\ gen'[i].seat = s /\ gen'[i].todo = gen[i].todo \ {s}
             /\ UNCHANGED tickets
  BY <1>2 DEF GenCheck, AtGen, Printed
<1>3. CASE GenInsert(i)
  <2>1. /\ \A j \in Issuers : j # i => gen'[j] = gen[j]
        /\ gen[i].pc = "insert" /\ gen'[i].pc = "sell" /\ gen'[i].order = gen[i].order
        /\ gen'[i].seat = gen[i].seat /\ gen'[i].todo = gen[i].todo
    BY <1>3 DEF GenInsert, AtGen
  <2>. QED BY <1>0, <1>3, <2>1 DEF GenOK
<1>4. CASE GenSell(i)
  <2>1. /\ \A j \in Issuers : j # i => gen'[j] = gen[j]
        /\ gen[i].pc = "sell" /\ gen'[i].pc \in {"done", "check"} /\ gen'[i].order = gen[i].order
        /\ gen'[i].todo = gen[i].todo
    BY <1>4 DEF GenSell, AtGen
  <2>. QED BY <1>0, <2>1 DEF GenOK
<1>5. ASSUME NEW s \in Seats, GenCheck(i, s)
      PROVE  /\ \A t \in gen'[i].todo : <<gen[i].order, t>> \in order_items
             /\ <<gen[i].order, gen'[i].seat>> \in order_items
  BY <1>0, <1>2, <1>5 DEF GenOK
<1>. QED BY <1>1, <1>2, <1>3, <1>4, <1>5 DEF GenStep
LEMMA GenIdle ==
    ASSUME TypeOK, NEW j \in Issuers, GenOK(j), Kept, gen'[j] = gen[j],
           gen[j].pc = "insert" => \A t \in tickets' \ tickets : t.code[1] # j[1]
    PROVE  GenOK(j)'
<1>1. gen[j].order \in Checkouts => Charged(gen[j].order)' \/ ~ Charged(gen[j].order)
  BY KeptDerived
<1>2. HasTicket(gen[j].order, gen[j].seat) => HasTicket(gen[j].order, gen[j].seat)'
  BY DEF Kept, HasTicket
<1>. QED BY <1>1, <1>2 DEF GenOK, Kept, HasTicket

(* The tickets of a confirm are for an order that a payment succeeded for.   *)
LEMMA PaidOrderCharged ==
    ASSUME TypeOK, CallsInv, NEW k \in Confirms, ConfirmPaid(k) \/ TicketDeliver(k, PaidOrder(k))
    PROVE  PaidOrder(k) \in Checkouts /\ Charged(PaidOrder(k))
<1>1. confirmReq[k].payment \in Pays /\ Succeeded(confirmReq[k].payment)
  BY DEF CallsInv, ConfirmInv, ConfirmOK, ConfirmPaid, TicketDeliver, AtConfirm
<1>. QED BY <1>1 DEF PaidOrder, Charged, Succeeded, PaymentExists, TypeOK, DatabaseTypeOK, Payment

(* The two programs of one confirm never both are about to insert.           *)
LEMMA InTurn ==
    ASSUME TurnInv, NEW i \in Issuers, NEW j \in Issuers, i # j, i[1] = j[1]
    PROVE  ~ (gen[i].pc = "insert" /\ gen[j].pc = "insert")
<1>1. ASSUME NEW k \in Confirms
      PROVE  ~ (gen[<<k, "payment">>].pc = "insert" /\ gen[<<k, "worker">>].pc = "insert")
  BY DEF TurnInv, TurnOK
<1>. QED BY <1>1 DEF Issuers

LEMMA GenKept ==
    ASSUME TypeOK, CallsInv, PrintInv, Next
    PROVE  GenInv'
<1>. SUFFICES ASSUME NEW j \in Issuers  PROVE GenOK(j)'
  BY DEF GenInv
<1>. USE DEF TypeOK, GenTypeOK
<1>0. GenOK(j) /\ Kept /\ GenInv /\ TurnInv
  BY Keeping DEF PrintInv, GenInv
<1>1. ASSUME NEW i \in Issuers, MayPrint(i), GenStep(i)  PROVE GenOK(j)'
  <2>1. CASE j = i
    <3>. DEFINE o == gen[i].order
                s == gen'[i].seat
    <3>1. o \in Checkouts /\ Charged(o) /\ gen'[i].order = o
      BY <1>0, <1>1, <2>1, GenMoved DEF GenOK
    <3>2. gen'[i].pc = "sell" => \E t \in tickets' : t.order_id = o /\ t.seat_id = s
      <4>1. GenInsert(i) => [order_id |-> gen[i].order, seat_id |-> gen[i].seat, code |-> i, again |-> MadeBefore(i)] \in tickets'
        BY DEF GenInsert
      <4>. QED BY <1>0, <1>1, <4>1, GenMoved DEF HasTicket, Kept
    <3>3. gen'[i].pc = "insert" => \A t \in tickets' : ~ (t.order_id = o /\ t.seat_id = s)
      BY <1>0, <1>1, GenMoved DEF HasTicket
    <3>4. Charged(gen[i].order)'
      <4>. HIDE DEF o
      <4>1. Charged(o) => \E p \in Pays : Succeeded(p)' /\ payments'[p].order_id = o
        BY <1>0 DEF Charged, Kept, Succeeded
      <4>. QED BY <3>1, <4>1 DEF Charged
    <3>5. /\ gen'[i].order \in Checkouts
          /\ \A r \in gen'[i].todo : <<gen'[i].order, r>> \in order_items'
          /\ gen'[i].pc \in {"insert", "sell"} => <<gen'[i].order, s>> \in order_items'
      BY <1>0, <1>1, <3>1, GenMoved DEF Kept
    <3>. QED BY <2>1, <3>1, <3>2, <3>3, <3>4, <3>5 DEF GenOK, HasTicket
  <2>2. CASE j # i
    <3>1. gen'[j] = gen[j]
      BY <1>0, <1>1, <2>2, GenMoved
    <3>2. gen[j].pc = "insert" => \A t \in tickets' \ tickets : t.code[1] # j[1]
      <4>1. UNCHANGED tickets \/ GenInsert(i)
        BY <1>1 DEF GenStep, GenItems, GenCheck, GenSell
      <4>2. GenInsert(i) => gen[i].pc = "insert" /\ \A t \in tickets' \ tickets : t.code = i
        BY DEF GenInsert, AtGen
      <4>. QED BY <1>0, <2>2, <4>1, <4>2, InTurn
    <3>. QED BY <1>0, <3>1, <3>2, GenIdle
  <2>. QED BY <2>1, <2>2
<1>2. ASSUME NEW i \in Issuers, NEW o \in Checkouts, Charged(o), StartGen(i, o), UNCHANGED tickets
      PROVE  GenOK(j)'
  <2>1. CASE j = i
    <3>1. gen'[j].pc = "items" /\ gen'[j].order = o /\ gen'[j].todo = {}
      BY <1>2, <2>1 DEF StartGen, NoRun
    <3>. QED BY <1>0, <1>2, <3>1, KeptDerived DEF GenOK
  <2>2. CASE j # i
    <3>1. gen'[j] = gen[j]
      BY <1>2, <2>2 DEF StartGen
    <3>. QED BY <1>0, <1>2, <3>1, GenIdle
  <2>. QED BY <2>1, <2>2
<1>3. ASSUME DeadLetter \/ WorkerCrash  PROVE GenOK(j)'
  <2>1. UNCHANGED tickets /\ (gen'[j] = gen[j] \/ gen'[j] = NoRun)
    BY <1>3 DEF DeadLetter, WorkerCrash
  <2>2. CASE gen'[j] = NoRun
    BY <2>2 DEF NoRun, GenOK
  <2>. QED BY <1>0, <2>1, <2>2, GenIdle
<1>4. CASE UNCHANGED gen
  <2>1. \A i \in Issuers : ~ GenInsert(i)
    BY <1>4 DEF GenInsert, AtGen
  <2>. QED BY <1>0, <1>4, <2>1, TicketsWriters, GenIdle
<1>5. ASSUME NEW k \in Confirms, ConfirmPaid(k)  PROVE GenOK(j)'
  <2>1. <<k, "payment">> \in Issuers /\ StartGen(<<k, "payment">>, PaidOrder(k)) /\ UNCHANGED tickets
    BY <1>5 DEF ConfirmPaid, PrintTickets, Issuers
  <2>. QED BY <1>2, <1>5, <2>1, PaidOrderCharged
<1>6. ASSUME NEW k \in Confirms, TicketDeliver(k, PaidOrder(k))  PROVE GenOK(j)'
  <2>1. Delivery(k) \in Issuers /\ StartGen(Delivery(k), PaidOrder(k)) /\ UNCHANGED tickets
    BY <1>6 DEF TicketDeliver, Delivery, Issuers
  <2>. QED BY <1>2, <1>6, <2>1, PaidOrderCharged
<1>. QED BY <1>1, <1>3, <1>4, <1>5, <1>6, GenWriters DEF PrintStep
LEMMA TurnKept ==
    ASSUME TypeOK, CallsInv, PrintInv, Next
    PROVE  TurnInv'
<1>. SUFFICES ASSUME NEW k \in Confirms  PROVE TurnOK(k)'
  BY DEF TurnInv
<1>. DEFINE own == <<k, "payment">>
<1>0. /\ TurnOK(k) /\ ConfirmOK(k) /\ Kept
      /\ own \in Issuers /\ Delivery(k) \in Issuers /\ own # Delivery(k)
      /\ gen \in [Issuers -> [pc : {"idle", "items", "check", "insert", "sell", "done"},
                              order : Checkouts \union {None}, todo : SUBSET Seats, seat : Seats \union {None}]]
      /\ ticketMsg \in [Confirms -> MessageState]
  BY Keeping DEF PrintInv, TurnInv, CallsInv, ConfirmInv, Issuers, Delivery, TypeOK, GenTypeOK, DatabaseTypeOK
<1>1. ASSUME NEW i \in Issuers, MayPrint(i), GenStep(i)  PROVE TurnOK(k)'
  <2>1. UNCHANGED ticketMsg
    BY <1>1 DEF GenStep
  <2>2. \A j \in Issuers : j # i => gen'[j] = gen[j]
    BY <1>1, GenMoved, Keeping DEF PrintInv
  <2>3. i = own => ticketMsg[k] = "none"
    BY <1>0, <1>1 DEF MayPrint, AtConfirm, ConfirmOK
  <2>4. i = Delivery(k) => ticketMsg[k] = "delivered"
    BY <1>1 DEF MayPrint, Delivery
  <2>. QED BY <1>0, <2>1, <2>2, <2>3, <2>4 DEF TurnOK, Delivery
<1>2. ASSUME NEW j \in Confirms, ConfirmPaid(j)  PROVE TurnOK(k)'
  <2>1. UNCHANGED ticketMsg /\ (j = k => ticketMsg[k] = "none")
    BY <1>0, <1>2 DEF ConfirmPaid, AtConfirm, ConfirmOK
  <2>2. gen'[Delivery(k)] = gen[Delivery(k)] /\ (j # k => gen'[own] = gen[own])
    BY <1>0, <1>2 DEF ConfirmPaid, PrintTickets, StartGen, Delivery
  <2>. QED BY <1>0, <2>1, <2>2 DEF TurnOK, Delivery
<1>3. ASSUME NEW j \in Confirms, ConfirmPublish(j)  PROVE TurnOK(k)'
  <2>1. UNCHANGED gen /\ (j # k => ticketMsg'[k] = ticketMsg[k])
    BY <1>0, <1>3 DEF ConfirmPublish
  <2>2. j = k => gen[own].pc = "done" /\ ticketMsg[k] = "none"
    BY <1>0, <1>3 DEF ConfirmPublish, AtGen, AtConfirm, ConfirmOK
  <2>. QED BY <1>0, <2>1, <2>2 DEF TurnOK
<1>4. ASSUME NEW j \in Confirms, TicketDeliver(j, PaidOrder(j))  PROVE TurnOK(k)'
  <2>1. /\ gen'[own] = gen[own]
        /\ IF j = k THEN ticketMsg[k] = "ready" /\ ticketMsg'[k] = "delivered"
                    ELSE ticketMsg'[k] = ticketMsg[k] /\ gen'[Delivery(k)] = gen[Delivery(k)]
    BY <1>0, <1>4 DEF TicketDeliver, StartGen, Delivery
  <2>. QED BY <1>0, <2>1 DEF TurnOK, Delivery
<1>5. ASSUME NEW j \in Confirms, TicketAck(j)  PROVE TurnOK(k)'
  <2>1. /\ UNCHANGED gen
        /\ IF j = k THEN ticketMsg[k] = "delivered" /\ gen[Delivery(k)].pc = "done" ELSE ticketMsg'[k] = ticketMsg[k]
    BY <1>0, <1>5 DEF TicketAck, AtGen
  <2>. QED BY <1>0, <2>1 DEF TurnOK, Delivery
<1>6. ASSUME DeadLetter  PROVE TurnOK(k)'
  <2>1. /\ gen'[own] = gen[own]
        /\ \/ ticketMsg'[k] = ticketMsg[k] /\ gen'[Delivery(k)] = gen[Delivery(k)]
           \/ ticketMsg[k] = "delivered" /\ gen'[Delivery(k)] = NoRun
    <3>1. CASE UNCHANGED <<ticketMsg, gen>>
      BY <3>1
    <3>2. ASSUME NEW j \in Confirms, ticketMsg[j] = "delivered", ticketMsg' = [ticketMsg EXCEPT ![j] = "dead"],
                 gen' = [gen EXCEPT ![Delivery(j)] = NoRun]
          PROVE  /\ gen'[own] = gen[own]
                 /\ \/ ticketMsg'[k] = ticketMsg[k] /\ gen'[Delivery(k)] = gen[Delivery(k)]
                    \/ ticketMsg[k] = "delivered" /\ gen'[Delivery(k)] = NoRun
      BY <1>0, <3>2 DEF Delivery
    <3>. QED BY <1>6, <3>1, <3>2 DEF DeadLetter
  <2>. QED BY <1>0, <2>1 DEF TurnOK, Delivery, NoRun
<1>7. ASSUME WorkerCrash  PROVE TurnOK(k)'
  <2>1. /\ gen'[own] = gen[own] /\ gen'[Delivery(k)] = NoRun
        /\ ticketMsg'[k] # "none" => ticketMsg[k] # "none"
    BY <1>0, <1>7 DEF WorkerCrash, Delivery
  <2>. QED BY <1>0, <2>1 DEF TurnOK, Delivery, NoRun
<1>8. CASE UNCHANGED <<gen, ticketMsg>>
  BY <1>0, <1>8 DEF TurnOK
<1>9. UNCHANGED gen => \/ UNCHANGED ticketMsg
                       \/ \E j \in Confirms : ConfirmPublish(j) \/ TicketDeliver(j, PaidOrder(j)) \/ TicketAck(j)
                       \/ DeadLetter \/ WorkerCrash
  BY TicketMsgWriters
<1>. QED BY <1>1, <1>2, <1>3, <1>4, <1>5, <1>6, <1>7, <1>8, <1>9, GenWriters DEF PrintStep
-----------------------------------------------------------------------------
(* The properties *)

LEMMA PaidKept ==
    ASSUME TypeOK, CallsInv, PrintInv, TicketsArePaid, Next
    PROVE  TicketsArePaid'
<1>0. Kept /\ tickets \subseteq Ticket /\ \A o \in Checkouts : Charged(o) => Charged(o)'
  BY Keeping, KeptDerived DEF TypeOK, DatabaseTypeOK
<1>1. \A t \in tickets : t.order_id \in Checkouts /\ <<t.order_id, t.seat_id>> \in order_items' /\ Charged(t.order_id)'
  BY <1>0 DEF Kept, TicketsArePaid, Ticket
<1>2. ASSUME NEW i \in Issuers, GenInsert(i), NEW t \in tickets', t \notin tickets
      PROVE  <<t.order_id, t.seat_id>> \in order_items' /\ Charged(t.order_id)'
  <2>1. t.order_id = gen[i].order /\ t.seat_id = gen[i].seat /\ gen[i].pc = "insert"
    BY <1>2 DEF GenInsert, AtGen
  <2>2. t.order_id \in Checkouts /\ Charged(t.order_id) /\ <<t.order_id, t.seat_id>> \in order_items
    BY <2>1 DEF PrintInv, GenInv, GenOK
  <2>. QED BY <1>0, <2>2 DEF Kept
<1>. QED BY <1>1, <1>2, TicketsWriters DEF TicketsArePaid

LEMMA BackedKept ==
    ASSUME TypeOK, CallsInv, PrintInv, SeatStatusBacked, Next
    PROVE  SeatStatusBacked'
<1>. SUFFICES ASSUME NEW s \in Seats
              PROVE  /\ seats'[s] = "SOLD" => \E o \in Checkouts : HasTicket(o, s)'
                     /\ seats'[s] = "RESERVED" => \E o \in Checkouts : <<o, s>> \in order_items'
  BY DEF SeatStatusBacked
<1>0. /\ \A o \in Checkouts : HasTicket(o, s) => HasTicket(o, s)'
      /\ order_items \subseteq order_items'
  BY Keeping, KeptDerived DEF Kept
<1>1. /\ seats[s] = "SOLD" => \E o \in Checkouts : HasTicket(o, s)
      /\ seats[s] = "RESERVED" => \E o \in Checkouts : <<o, s>> \in order_items
      /\ seats \in [Seats -> SeatStatus]
  BY DEF SeatStatusBacked, TypeOK, DatabaseTypeOK
<1>2. ASSUME SeatServiceHold  PROVE seats'[s] = seats[s] \/ seats'[s] \in {"LOCKED", "AVAILABLE"}
  BY <1>1, <1>2 DEF SeatServiceHold, SeatHold, Set
<1>3. ASSUME NEW c \in Checkouts, CheckoutReserve(c)
      PROVE  seats'[s] = seats[s] \/ (seats'[s] = "RESERVED" /\ <<c, s>> \in order_items)
  BY <1>1, <1>3 DEF CheckoutReserve, Reserve, Set, AtCheckout, CallsInv, CheckoutInv, CheckoutOK
<1>4. ASSUME NEW x \in Cancels, NEW r \in Seats, CancelReopen(x, r)
      PROVE  seats'[s] = seats[s] \/ seats'[s] = "AVAILABLE"
  BY <1>1, <1>4 DEF CancelReopen, Set
<1>5. ASSUME NEW i \in Issuers, GenSell(i)
      PROVE  seats'[s] = seats[s] \/ (seats'[s] = "SOLD" /\ \E o \in Checkouts : HasTicket(o, s))
  <2>1. gen[i].order \in Checkouts /\ HasTicket(gen[i].order, gen[i].seat)
    BY <1>5 DEF GenSell, AtGen, PrintInv, GenInv, GenOK
  <2>2. seats'[s] = seats[s] \/ (seats'[s] = "SOLD" /\ s = gen[i].seat)
    BY <1>1, <1>5 DEF GenSell, Set
  <2>. QED BY <2>1, <2>2
<1>. QED BY <1>0, <1>1, <1>2, <1>3, <1>4, <1>5, SeatsWriters

LEMMA OneKept ==
    ASSUME TypeOK, CallsInv, PrintInv, OneTicketEach, Next
    PROVE  OneTicketEach'
<1>1. ASSUME NEW i \in Issuers, GenInsert(i)  PROVE OneTicketEach'
  <2>. DEFINE new == [order_id |-> gen[i].order, seat_id |-> gen[i].seat, code |-> i, again |-> MadeBefore(i)]
  <2>1. tickets' = tickets \union {new} /\ gen[i].pc = "insert"
    BY <1>1 DEF GenInsert, AtGen
  <2>2. \A t \in tickets : t.order_id = new.order_id /\ t.seat_id = new.seat_id => t.code[1] # new.code[1]
    BY <2>1 DEF PrintInv, GenInv, GenOK
  <2>. HIDE DEF new
  <2>. QED BY <2>1, <2>2 DEF OneTicketEach
<1>. QED BY <1>1, TicketsWriters DEF OneTicketEach

(* A cancellation only reopens seats that it makes reopenable.               *)
LEMMA ReopenedKnown ==
    ASSUME TypeOK, CallsInv, NEW x \in Cancels, NEW s \in cancelReq[x].todo
    PROVE  Reopenable(s)
<1>1. cancelReq[x].order \in Checkouts /\ <<cancelReq[x].order, s>> \in order_items /\ s \in Seats
  BY DEF CallsInv, CancelInv, CancelOK, TypeOK, OrderTypeOK
<1>2. s \in checkoutReq[cancelReq[x].order].asked
  BY <1>1 DEF CallsInv, CheckoutInv, CheckoutOK, ItemsOf
<1>. QED BY <1>1, <1>2 DEF Reopenable

(* A cancellation keeps to its order.                                        *)
LEMMA CancelOrderKept ==
    ASSUME TypeOK, CallsInv, Next, NEW x \in Cancels, cancelReq[x].order \in Checkouts
    PROVE  cancelReq'[x].order = cancelReq[x].order
  <1>1. cancelReq[x].pc # "idle"
    BY DEF CallsInv, CancelInv, CancelOK, DatabaseAssumption
  <1>. USE DEF TypeOK, OrderTypeOK
  <1>2. ASSUME NEW y \in Cancels, NEW o \in Checkouts, CancelLookup(y, o)  PROVE cancelReq'[x] = cancelReq[x]
    BY <1>1, <1>2 DEF CancelLookup, AtCancel
  <1>3. ASSUME NEW y \in Cancels, CancelMark(y) \/ CancelItems(y)  PROVE cancelReq'[x].order = cancelReq[x].order
    BY <1>3 DEF CancelMark, CancelItems
  <1>4. ASSUME NEW y \in Cancels, NEW r \in Seats, CancelReopen(y, r)  PROVE cancelReq'[x].order = cancelReq[x].order
    BY <1>4 DEF CancelReopen
  <1>5. ASSUME OrderHandlerDies  PROVE cancelReq'[x].order = cancelReq[x].order
    BY <1>5 DEF OrderHandlerDies
  <1>. QED BY <1>2, <1>3, <1>4, <1>5, CancelWriters

(* A seat never leaves the reopenable ones.                                  *)
LEMMA ReopenableKept ==
    ASSUME TypeOK, CallsInv, Next, NEW s \in Seats, Reopenable(s)
    PROVE  Reopenable(s)'
<1>2. ASSUME NEW o \in Checkouts  PROVE checkoutReq[o].asked \subseteq checkoutReq'[o].asked
  <2>. USE DEF TypeOK, OrderTypeOK
  <2>1. ASSUME NEW c \in Checkouts, NEW key \in Keys \union {c}, NEW asked \in SUBSET Seats,
               CheckoutLookup(c, key, asked)
        PROVE  checkoutReq[o].asked = {} \/ checkoutReq'[o] = checkoutReq[o]
    BY <2>1 DEF CheckoutLookup, AtCheckout, CallsInv, CheckoutInv, CheckoutOK
  <2>2. ASSUME NEW c \in Checkouts, CheckoutSeats(c) \/ CheckoutPublish(c)
        PROVE  checkoutReq'[o].asked = checkoutReq[o].asked
    BY <2>2 DEF CheckoutSeats, CheckoutPublish
  <2>3. ASSUME NEW c \in Checkouts, CheckoutInsert(c)  PROVE checkoutReq'[o].asked = checkoutReq[o].asked
    BY <2>3 DEF CheckoutInsert
  <2>4. ASSUME NEW c \in Checkouts, NEW s2 \in Seats, CheckoutItem(c, s2)
        PROVE  checkoutReq'[o].asked = checkoutReq[o].asked
    BY <2>4 DEF CheckoutItem
  <2>5. ASSUME NEW c \in Checkouts, CheckoutReserve(c)  PROVE checkoutReq'[o].asked = checkoutReq[o].asked
    BY <2>5 DEF CheckoutReserve
  <2>6. ASSUME OrderHandlerDies  PROVE checkoutReq'[o].asked = checkoutReq[o].asked
    BY <2>6 DEF OrderHandlerDies
  <2>. QED BY <2>1, <2>2, <2>3, <2>4, <2>5, <2>6, CheckoutWriters
<1>. QED BY <1>2, CancelOrderKept DEF Reopenable
LEMMA HeldKept ==
    ASSUME TypeOK, CallsInv, HeldStaysHeld, Next
    PROVE  HeldStaysHeld'
<1>. SUFFICES ASSUME NEW s \in Seats, Held(s)'  PROVE seats'[s] \in {"RESERVED", "SOLD"}
  BY DEF HeldStaysHeld
<1>1. ~ Reopenable(s)
  BY ReopenableKept DEF Held
<1>2. (\E c \in Checkouts : Reserved(c, s)) \/ seats'[s] = "RESERVED"
  <2>. USE DEF TypeOK, OrderTypeOK, DatabaseTypeOK
  <2>1. PICK c \in Checkouts : Reserved(c, s)'
    BY DEF Held
  <2>2. ASSUME <<c, s>> \notin order_items  PROVE FALSE
    <3>1. <<c, s>> \in order_items' /\ checkoutReq'[c].seat # s
      BY <2>1 DEF Reserved
    <3>2. PICK d \in Checkouts, r \in Seats : CheckoutItem(d, r)
      BY <2>2, <3>1, ItemsWriters
    <3>3. c = d /\ s = r
      BY <2>2, <3>1, <3>2 DEF CheckoutItem
    <3>. QED BY <3>1, <3>2, <3>3 DEF CheckoutItem
  <2>3. ASSUME checkoutReq[c].seat = s  PROVE seats'[s] = "RESERVED"
    <3>1. s # None
      BY DEF DatabaseAssumption
    <3>2. checkoutReq[c].pc \in {"reserve", "failed"} /\ checkoutReq'[c].seat # s
      BY <2>1, <2>3, <3>1 DEF CallsInv, CheckoutInv, CheckoutOK, Reserved
    <3>3. ASSUME NEW d \in Checkouts, CheckoutReserve(d)  PROVE checkoutReq'[c].seat = s \/ seats'[s] = "RESERVED"
      BY <2>3, <3>3 DEF CheckoutReserve, Reserve, Set
    <3>4. ASSUME NEW d \in Checkouts, NEW key \in Keys \union {d}, NEW asked \in SUBSET Seats,
                 CheckoutLookup(d, key, asked)
          PROVE  checkoutReq'[c].seat = s
      BY <2>3, <3>4 DEF CheckoutLookup
    <3>5. ASSUME NEW d \in Checkouts, CheckoutSeats(d) \/ CheckoutPublish(d)  PROVE checkoutReq'[c].seat = s
      BY <2>3, <3>5 DEF CheckoutSeats, CheckoutPublish
    <3>6. ASSUME NEW d \in Checkouts, CheckoutInsert(d)  PROVE checkoutReq'[c].seat = s
      BY <2>3, <3>6 DEF CheckoutInsert
    <3>7. ASSUME NEW d \in Checkouts, NEW r \in Seats, CheckoutItem(d, r)  PROVE checkoutReq'[c].seat = s
      BY <2>3, <3>2, <3>7 DEF CheckoutItem, AtCheckout
    <3>8. ASSUME OrderHandlerDies  PROVE checkoutReq'[c].seat = s
      BY <2>3, <3>8 DEF OrderHandlerDies
    <3>. QED BY <2>3, <3>2, <3>3, <3>4, <3>5, <3>6, <3>7, <3>8, CheckoutWriters
  <2>. QED BY <2>2, <2>3 DEF Reserved
<1>3. ASSUME seats[s] \in {"RESERVED", "SOLD"}  PROVE seats'[s] \in {"RESERVED", "SOLD"}
  <2>. USE DEF TypeOK, DatabaseTypeOK
  <2>1. ASSUME SeatServiceHold  PROVE seats'[s] = seats[s]
    BY <1>3, <2>1 DEF SeatServiceHold, SeatHold, Set
  <2>2. ASSUME NEW c \in Checkouts, CheckoutReserve(c)  PROVE seats'[s] \in {seats[s], "RESERVED"}
    BY <2>2 DEF CheckoutReserve, Reserve, Set
  <2>3. ASSUME NEW x \in Cancels, NEW r \in Seats, CancelReopen(x, r)  PROVE seats'[s] = seats[s]
    BY <1>1, <2>3, ReopenedKnown DEF CancelReopen, Set
  <2>4. ASSUME NEW i \in Issuers, GenSell(i)  PROVE seats'[s] \in {seats[s], "SOLD"}
    BY <2>4 DEF GenSell, Set
  <2>. QED BY <1>3, <2>1, <2>2, <2>3, <2>4, SeatsWriters
<1>. QED BY <1>1, <1>2, <1>3 DEF Held, HeldStaysHeld
(* Why a charged order may be in a status other than PAID.                   *)
Undone(o, k) ==
    \/ orders[o].status \in {"PAID"} \union PatchStatuses
    \/ AtConfirm(k, "paid") \/ AtConfirm(k, "failed")
    \/ orders[o].status = "PROCESSING" /\ orderMsg[o] # "none"
    \/ orders[o].status = "CANCELLED" /\ \E x \in Cancels : cancelReq[x].order = o
    \/ /\ orders[o].status = "REFUNDED"
       /\ \E f \in Refunds, q \in Pays : refundReq[f].payment = q /\ payments[q].order_id = o

(* A reason of those that the tables and requests hold does not go away.     *)
LEMMA ReasonsKept ==
    ASSUME TypeOK, CallsInv, Next, NEW o \in Checkouts
    PROVE  /\ orderMsg[o] # "none" => orderMsg'[o] # "none"
           /\ \A x \in Cancels : cancelReq[x].order = o => cancelReq'[x].order = o
           /\ \A f \in Refunds, q \in Pays : refundReq[f].payment = q /\ payments[q].order_id = o =>
                    refundReq'[f].payment = q /\ payments'[q].order_id = o
<1>1. orderMsg[o] # "none" => orderMsg'[o] # "none"
  BY OrderMsgWriters DEF CheckoutPublish, OrderProcess, OrderAck, DeadLetter, WorkerCrash, TypeOK, DatabaseTypeOK
<1>2. ASSUME NEW f \in Refunds, NEW q \in Pays, refundReq[f].payment = q, payments[q].order_id = o
      PROVE  refundReq'[f].payment = q /\ payments'[q].order_id = o
  <2>1. refundReq[f].pc # "idle" /\ PaymentExists(q)
    BY <1>2 DEF CallsInv, RefundInv, RefundOK, DatabaseAssumption
  <2>2. refundReq'[f].payment = refundReq[f].payment
    BY <2>1, RefundWriters DEF RefundPayment, RefundOrder, PaymentHandlerDies, TypeOK, PaymentTypeOK
  <2>. QED BY <1>2, <2>1, <2>2, Keeping DEF Kept
<1>. QED BY <1>1, <1>2, CancelOrderKept

(* A confirm at `paid` marks its order or dies; a dead one stays dead.       *)
LEMMA ConfirmStays ==
    ASSUME TypeOK, Next, NEW k \in Confirms
    PROVE  /\ confirmReq[k].pc = "paid" => confirmReq'[k].pc \in {"paid", "failed"} \/ ConfirmPaid(k)
           /\ confirmReq[k].pc = "failed" => confirmReq'[k].pc = "failed"
<1>. SUFFICES ASSUME confirmReq[k].pc \in {"paid", "failed"}
              PROVE  \/ confirmReq'[k].pc = confirmReq[k].pc
                     \/ confirmReq[k].pc = "paid" /\ (confirmReq'[k].pc = "failed" \/ ConfirmPaid(k))
  OBVIOUS
<1>. USE DEF TypeOK, PaymentTypeOK, AtConfirm
<1>1. ASSUME NEW j \in Confirms, NEW p \in Pays, ConfirmSession(j, p)  PROVE confirmReq'[k] = confirmReq[k]
  BY <1>1 DEF ConfirmSession
<1>2. ASSUME NEW j \in Confirms, ConfirmCharge(j) \/ ConfirmPublish(j)  PROVE confirmReq'[k] = confirmReq[k]
  BY <1>2 DEF ConfirmCharge, ConfirmPublish
<1>3. ASSUME NEW j \in Confirms, ConfirmPaid(j), j # k  PROVE confirmReq'[k] = confirmReq[k]
  BY <1>3 DEF ConfirmPaid
<1>4. ASSUME NEW j \in Confirms, ConfirmPaid(j)  PROVE confirmReq[j].pc = "paid"
  BY <1>4 DEF ConfirmPaid
<1>5. ASSUME PaymentHandlerDies
      PROVE  \/ confirmReq'[k] = confirmReq[k]
             \/ confirmReq[k].pc = "paid" /\ confirmReq'[k].pc = "failed"
  BY <1>5 DEF PaymentHandlerDies
<1>. QED BY <1>1, <1>2, <1>3, <1>4, <1>5, ConfirmWriters

LEMMA UndoneKept ==
    ASSUME TypeOK, CallsInv, PaidUnlessUndone, Next
    PROVE  PaidUnlessUndone'
<1>. SUFFICES ASSUME NEW p \in Pays, Succeeded(p)'
              PROVE  Undone(payments[p].order_id, payments[p].transaction_id)'
  BY DEF PaidUnlessUndone, Undone
<1>. DEFINE o == payments[p].order_id
            k == payments[p].transaction_id
<1>1. CASE Succeeded(p) /\ payments'[p].transaction_id = k
  <2>1. /\ o \in Checkouts /\ k \in Confirms /\ OrderExists(o) /\ Undone(o, k)
        /\ confirmReq[k].payment = p /\ confirmReq[k].pc \notin {"idle", "charge"}
    BY <1>1 DEF PaidUnlessUndone, Undone, CallsInv, ChargeInv, ChargeOK, PayInv, PayOK, Succeeded, PaymentExists,
                TypeOK, DatabaseTypeOK, Payment, DatabaseAssumption
  <2>2. payments'[p].order_id = o /\ orders[o] \in Order
    BY <1>1, <2>1, Keeping DEF Kept, Succeeded, OrderExists, TypeOK, DatabaseTypeOK
  <2>. HIDE DEF o, k
  <2>. SUFFICES \/ orders'[o].status \in {"PAID"} \union PatchStatuses
                \/ confirmReq'[k].pc = "paid" \/ confirmReq'[k].pc = "failed"
                \/ orders'[o].status = "PROCESSING" /\ orderMsg'[o] # "none"
                \/ orders'[o].status = "CANCELLED" /\ \E x \in Cancels : cancelReq'[x].order = o
                \/ /\ orders'[o].status = "REFUNDED"
                   /\ \E f \in Refunds, q \in Pays : refundReq'[f].payment = q /\ payments'[q].order_id = o
    BY <1>1, <2>2 DEF Undone, AtConfirm, k
  <2>3. CASE orders'[o].status # orders[o].status
    <3>1. ASSUME NEW c \in Checkouts, CheckoutInsert(c)  PROVE FALSE
      BY <2>1, <2>3, <3>1, CheckoutInserted
    <3>2. ASSUME NEW x \in Cancels, CancelMark(x)
          PROVE  orders'[o].status = "CANCELLED" /\ cancelReq[x].order = o
      <4>1. cancelReq[x].order \in Checkouts /\ OrderExists(cancelReq[x].order)
        BY <3>2 DEF CancelMark, AtCancel, CallsInv, CancelInv, CancelOK
      <4>. QED BY <2>1, <2>3, <3>2, <4>1, StatusWritten DEF CancelMark, OrderStatus
    <3>3. ASSUME NEW r \in Checkouts, NEW status \in PatchStatuses, PatchStatus(r, status)
          PROVE  orders'[o].status \in PatchStatuses
      BY <2>1, <2>3, <3>3, StatusWritten DEF PatchStatus, BookingAssumption
    <3>4. ASSUME NEW j \in Confirms, ConfirmPaid(j)  PROVE orders'[o].status = "PAID"
      <4>1. PaidOrder(j) \in Checkouts /\ OrderExists(PaidOrder(j))
        BY <3>4 DEF ConfirmPaid, AtConfirm, PaidOrder, CallsInv, ConfirmInv, ConfirmOK, PayInv, PayOK, Succeeded,
                    PaymentExists, TypeOK, DatabaseTypeOK, Payment
      <4>. QED BY <2>1, <2>3, <3>4, <4>1, StatusWritten DEF ConfirmPaid, OrderStatus
    <3>5. ASSUME NEW f \in Refunds, RefundOrder(f)
          PROVE  /\ orders'[o].status = "REFUNDED" /\ refundReq[f].payment \in Pays
                 /\ payments[refundReq[f].payment].order_id = o
      <4>1. LET r == payments[refundReq[f].payment].order_id
            IN  refundReq[f].payment \in Pays /\ r \in Checkouts /\ OrderExists(r)
        BY <3>5 DEF RefundOrder, CallsInv, RefundInv, RefundOK, PayInv, PayOK, PaymentExists,
                    TypeOK, DatabaseTypeOK, Payment
      <4>. QED BY <2>1, <2>3, <3>5, <4>1, StatusWritten DEF RefundOrder, OrderStatus
    <3>6. ASSUME NEW r \in Checkouts, OrderProcess(r)
          PROVE  orders'[o].status = "PROCESSING" /\ orderMsg'[o] = "applied"
      <4>1. OrderExists(r)
        BY <3>6 DEF OrderProcess, CallsInv, CheckoutInv, CheckoutOK
      <4>2. orders'[o].status = "PROCESSING" /\ r = o
        BY <2>1, <2>3, <3>6, <4>1, StatusWritten DEF OrderProcess, OrderStatus
      <4>. QED BY <3>6, <4>2 DEF OrderProcess, TypeOK, DatabaseTypeOK
    <3>7. orders' # orders
      BY <2>3
    <3>. QED BY <2>1, <3>1, <3>2, <3>3, <3>4, <3>5, <3>6, <3>7, OrdersWriters, ReasonsKept
  <2>4. CASE orders'[o].status = orders[o].status
    <3>1. CASE confirmReq[k].pc = "paid"
      <4>1. ASSUME NEW j \in Confirms, ConfirmPaid(j), j = k  PROVE orders'[o].status = "PAID"
        <5>1. PaidOrder(k) = o
          BY <2>1 DEF PaidOrder, o
        <5>. QED BY <2>1, <4>1, <5>1, StatusWritten DEF ConfirmPaid, OrderStatus
      <4>2. \/ confirmReq'[k].pc \in {"paid", "failed"}
            \/ \E j \in Confirms : ConfirmPaid(j) /\ j = k
        BY <2>1, <3>1, ConfirmStays
      <4>. QED BY <4>1, <4>2
    <3>2. CASE confirmReq[k].pc = "failed"
      <4>1. confirmReq'[k].pc = "failed"
        BY <2>1, <3>2, ConfirmStays
      <4>. QED BY <4>1
    <3>. QED BY <2>1, <2>4, <3>1, <3>2, ReasonsKept DEF Undone, AtConfirm
  <2>. QED BY <2>3, <2>4
<1>2. CASE ~ (Succeeded(p) /\ payments'[p].transaction_id = k)
  <2>1. PICK j \in Confirms : ConfirmCharge(j)
    BY <1>2, PaymentsWriters, PayInserted, RefundWritten DEF Succeeded, PaymentExists, RefundPayment
  <2>2. confirmReq[j].payment \in Pays /\ PaymentExists(confirmReq[j].payment) /\ Settle(j)
    BY <2>1 DEF CallsInv, ConfirmInv, ConfirmOK, ConfirmCharge, AtConfirm
  <2>3. payments'[p].transaction_id = j
    BY <1>2, <2>2, SettleWritten DEF Succeeded, PaymentExists
  <2>4. confirmReq'[j].pc = "paid"
    BY <2>1 DEF ConfirmCharge, TypeOK, PaymentTypeOK
  <2>. QED BY <2>3, <2>4 DEF Undone, AtConfirm
<1>. QED BY <1>1, <1>2
-----------------------------------------------------------------------------
(* The invariant *)

LEMMA InitInv == Init => Inv
<1>. SUFFICES ASSUME Init  PROVE Inv
  OBVIOUS
<1>. USE DEF Init, DatabaseInit, OrderInit, GenInit, PaymentInit, NoRun
<1>1. TypeOK
  <2>1. DatabaseTypeOK
    BY DEF DatabaseTypeOK, SeatStatus, MessageState
  <2>2. OrderTypeOK /\ PaymentTypeOK
    BY DEF OrderTypeOK, PaymentTypeOK
  <2>3. GenTypeOK
    BY DEF GenTypeOK
  <2>. QED BY <2>1, <2>2, <2>3 DEF TypeOK
<1>2. CallsInv
  BY DEF CallsInv, CheckoutInv, CheckoutOK, CancelInv, CancelOK, PayInv, PayOK, ConfirmInv, ConfirmOK,
         ChargeInv, ChargeOK, RefundInv, RefundOK, OrderExists, PaymentExists, Succeeded, ItemsOf
<1>3. PrintInv
  BY DEF PrintInv, GenInv, GenOK, TurnInv, TurnOK, Issuers
<1>4. TicketsArePaid /\ SeatStatusBacked /\ OneTicketEach
  BY DEF TicketsArePaid, SeatStatusBacked, OneTicketEach
<1>5. HeldStaysHeld /\ PaidUnlessUndone
  BY DEF HeldStaysHeld, Held, Reserved, PaidUnlessUndone, Succeeded, PaymentExists
<1>. QED BY <1>1, <1>2, <1>3, <1>4, <1>5 DEF Inv

(* A step that only counts a failure keeps the invariant, as a stutter does. *)
LEMMA InvIdle ==
    ASSUME Inv, UNCHANGED <<seats, tables, queues, orderVars, gen, payVars>>, failures' \in Nat
    PROVE  Inv'
<1>1. TypeOK'
  BY DEF Inv, TypeOK, DatabaseTypeOK, OrderTypeOK, GenTypeOK, PaymentTypeOK
<1>2. CallsInv'
  BY DEF Inv, CallsInv, CheckoutInv, CheckoutOK, CancelInv, CancelOK, PayInv, PayOK, ConfirmInv, ConfirmOK,
         ChargeInv, ChargeOK, RefundInv, RefundOK, OrderExists, PaymentExists, Succeeded, ItemsOf
<1>3. PrintInv'
  BY DEF Inv, PrintInv, GenInv, GenOK, TurnInv, TurnOK, Charged, Succeeded, PaymentExists, HasTicket
<1>4. TicketsArePaid' /\ SeatStatusBacked' /\ OneTicketEach'
  BY DEF Inv, TicketsArePaid, SeatStatusBacked, OneTicketEach, Charged, Succeeded, PaymentExists, HasTicket
<1>5. HeldStaysHeld' /\ PaidUnlessUndone'
  BY DEF Inv, HeldStaysHeld, Held, Reserved, Reopenable, PaidUnlessUndone, Succeeded, PaymentExists, AtConfirm
<1>. QED BY <1>1, <1>2, <1>3, <1>4, <1>5 DEF Inv

LEMMA InvStep == Inv /\ [Next]_vars => Inv'
<1>1. ASSUME Inv, Next  PROVE Inv'
  <2>1. TypeOK /\ CallsInv /\ PrintInv /\ GenInv
    BY <1>1 DEF Inv, PrintInv
  <2>2. TypeOK' /\ CallsInv' /\ PrintInv'
    BY <1>1, <2>1, TypeStep, CallsKept, GenKept, TurnKept DEF PrintInv
  <2>3. TicketsArePaid' /\ SeatStatusBacked' /\ OneTicketEach'
    BY <1>1, <2>1, PaidKept, BackedKept, OneKept DEF Inv
  <2>4. HeldStaysHeld' /\ PaidUnlessUndone'
    BY <1>1, <2>1, HeldKept, UndoneKept DEF Inv
  <2>. QED BY <2>2, <2>3, <2>4 DEF Inv
<1>2. ASSUME Inv, UNCHANGED vars  PROVE Inv'
  BY <1>2, InvIdle DEF vars, Inv, TypeOK, DatabaseTypeOK
<1>. QED BY <1>1, <1>2

LEMMA InvAlways == Spec => []Inv
BY InitInv, InvStep, PTL DEF Spec

(* Tables, queues and handlers keep their types whatever interleaves.        *)
THEOREM TypeCorrect == Spec => []TypeOK
<1>1. Inv => TypeOK
  BY DEF Inv
<1>. QED BY <1>1, InvAlways, PTL

(* A ticket belongs to an order that has its seat and that was charged.      *)
THEOREM TicketsPaid == Spec => []TicketsArePaid
<1>1. Inv => TicketsArePaid
  BY DEF Inv
<1>. QED BY <1>1, InvAlways, PTL

(* A SOLD seat has a ticket, a RESERVED seat an order that has it.           *)
THEOREM SeatsBacked == Spec => []SeatStatusBacked
<1>1. Inv => SeatStatusBacked
  BY DEF Inv
<1>. QED BY <1>1, InvAlways, PTL

(* A confirm and its ticket.generation message print a seat once.            *)
THEOREM OneTicket == Spec => []OneTicketEach
<1>1. Inv => OneTicketEach
  BY DEF Inv
<1>. QED BY <1>1, InvAlways, PTL

(* A held seat stays reserved or sold.                                       *)
THEOREM HeldSeatStays == Spec => []HeldStaysHeld
<1>1. Inv => HeldStaysHeld
  BY DEF Inv
<1>. QED BY <1>1, InvAlways, PTL

(* A charged order that is not PAID has one of five reasons.                 *)
THEOREM PaidStaysPaid == Spec => []PaidUnlessUndone
<1>1. Inv => PaidUnlessUndone
  BY DEF Inv
<1>. QED BY <1>1, InvAlways, PTL

(* A checkout that begins its check on a held seat never goes past it.       *)
THEOREM HeldIsRefused == Spec => HeldSeatRefused
<1>1. ASSUME Inv, [Next]_vars
      PROVE  [\A c \in Checkouts : CheckoutSeats(c) /\ checkoutReq'[c].pc = "insert" =>
                    \A s \in checkoutReq[c].asked : ~ Held(s)]_vars
  <2>. SUFFICES ASSUME NEW c \in Checkouts, CheckoutSeats(c), checkoutReq'[c].pc = "insert",
                       NEW s \in checkoutReq[c].asked
                PROVE  ~ Held(s)
    OBVIOUS
  <2>1. seats[s] = "LOCKED" /\ s \in Seats
    BY <1>1 DEF CheckoutSeats, Sellable, Inv, TypeOK, OrderTypeOK
  <2>. QED BY <1>1, <2>1 DEF Inv, HeldStaysHeld
<1>. QED BY <1>1, InvAlways, PTL DEF Spec, HeldSeatRefused
-----------------------------------------------------------------------------
(* The refinement: an item is a claim, a settled payment a charge, a ticket  *)
(* an issue, and nothing else is visible.                                    *)

LEMMA InitRefines == Init => F!Init
BY DEF Init, DatabaseInit, F!Init, Charged, Succeeded, PaymentExists, HasTicket

LEMMA StepRefines ==
    ASSUME Inv, [Next]_vars
    PROVE  [F!Next]_<<order_items, {o \in Checkouts : Charged(o)},
                      {os \in Checkouts \X Seats : HasTicket(os[1], os[2])}>>
<1>. DEFINE charged == {o \in Checkouts : Charged(o)}
            issued == {os \in Checkouts \X Seats : HasTicket(os[1], os[2])}
<1>1. ASSUME UNCHANGED payments  PROVE UNCHANGED charged
  BY <1>1 DEF Charged, Succeeded, PaymentExists
<1>2. ASSUME UNCHANGED tickets  PROVE UNCHANGED issued
  BY <1>2 DEF HasTicket
<1>0. TypeOK /\ CallsInv
  BY DEF Inv
<1>3. ASSUME NEW c \in Checkouts, NEW s \in Seats, CheckoutItem(c, s)  PROVE F!Next
  BY <1>1, <1>2, <1>3 DEF CheckoutItem, F!Next, F!Claim
<1>4. ASSUME NEW k \in Confirms, ConfirmCharge(k)  PROVE F!Next
  <2>. DEFINE q == confirmReq[k].payment
              o == payments[q].order_id
  <2>1. q \in Pays /\ PaymentExists(q) /\ Settle(k) /\ UNCHANGED <<order_items, tickets>>
    BY <1>0, <1>4 DEF CallsInv, ConfirmInv, ConfirmOK, ConfirmCharge, AtConfirm
  <2>2. o \in Checkouts
    BY <1>0, <2>1 DEF PaymentExists, TypeOK, DatabaseTypeOK, Payment
  <2>3. /\ payments'[q] # None /\ payments'[q].order_id = o /\ payments'[q].transaction_id = k /\ k # None
        /\ \A p \in Pays : p # q => payments'[p] = payments[p]
    BY <1>0, <2>1, SettleWritten DEF DatabaseAssumption
  <2>4. charged' = charged \union {o}
    <3>. HIDE DEF o, q
    <3>1. \A c \in Checkouts : Charged(c)' <=> Charged(c) \/ c = o
      BY <2>1, <2>3 DEF Charged, Succeeded, PaymentExists, o
    <3>. QED BY <2>2, <3>1
  <2>. QED BY <1>2, <2>1, <2>2, <2>4 DEF F!Next, F!Charge
<1>5. ASSUME NEW i \in Issuers, GenInsert(i)  PROVE F!Next
  <2>. DEFINE o == gen[i].order
              s == gen[i].seat
              new == [order_id |-> o, seat_id |-> s, code |-> i, again |-> MadeBefore(i)]
  <2>1. /\ tickets' = tickets \union {new} /\ UNCHANGED <<order_items, payments>>
        /\ o \in Checkouts /\ Charged(o) /\ <<o, s>> \in order_items
    BY <1>5 DEF GenInsert, AtGen, Inv, PrintInv, GenInv, GenOK
  <2>2. s \in Seats /\ new.order_id = o /\ new.seat_id = s
    BY <1>0, <2>1 DEF TypeOK, DatabaseTypeOK
  <2>. HIDE DEF o, s, new
  <2>3. \A c \in Checkouts, r \in Seats : HasTicket(c, r)' <=> HasTicket(c, r) \/ (c = o /\ r = s)
    BY <2>1, <2>2 DEF HasTicket
  <2>4. issued' = issued \union {<<o, s>>}
    BY <2>1, <2>2, <2>3
  <2>. QED BY <1>1, <2>1, <2>2, <2>4 DEF F!Next, F!Issue
<1>6. ASSUME NEW p \in Pays, PayInserts(p)  PROVE UNCHANGED charged
  <2>1. \A q \in Pays : Succeeded(q)' => Succeeded(q) /\ payments'[q] = payments[q]
    BY <1>0, <1>6, PayInserted DEF Succeeded, PaymentExists
  <2>2. \A q \in Pays : Succeeded(q) => Succeeded(q)' /\ payments'[q] = payments[q]
    BY <1>0, <1>6, PayInserted DEF Succeeded, PaymentExists
  <2>. QED BY <2>1, <2>2 DEF Charged
<1>7. ASSUME NEW f \in Refunds, NEW r \in Pays, RefundPayment(f, r)  PROVE UNCHANGED charged
  <2>1. \A q \in Pays : /\ Succeeded(q)' <=> Succeeded(q)
                        /\ payments'[q].order_id = payments[q].order_id
    BY <1>0, <1>7, RefundWritten DEF RefundPayment, Succeeded, PaymentExists
  <2>. QED BY <2>1 DEF Charged
<1>8. CASE UNCHANGED vars
  BY <1>1, <1>2, <1>8 DEF vars
<1>9. CASE Next
  BY <1>0, <1>1, <1>2, <1>3, <1>4, <1>5, <1>6, <1>7, <1>9, ItemsWriters, PaymentsWriters, TicketsWriters
<1>. QED BY <1>8, <1>9

(* The three services implement Fulfilment.                                  *)
THEOREM FulfilmentImplemented == Spec => ImplementsFulfilment
<1>1. Init => F!Init
  BY InitRefines
<1>2. Inv /\ [Next]_vars => [F!Next]_<<order_items, {o \in Checkouts : Charged(o)},
                                      {os \in Checkouts \X Seats : HasTicket(os[1], os[2])}>>
  BY StepRefines
<1>. QED BY <1>1, <1>2, InvAlways, PTL DEF Spec, ImplementsFulfilment, F!Spec
=============================================================================
