------------------------------ MODULE Booking ------------------------------
(* Checkout, payment and ticketing together: the order service, the payment  *)
(* service and the queue worker over one database and two queues, with the   *)
(* seat service as SeatBoard's contract describes it (it may take any        *)
(* AVAILABLE seat and free any LOCKED one, at any time).                     *)
EXTENDS OrderService, PaymentService, QueueWorker

CONSTANTS PayEarly,     \* TRUE: an order may be paid before its checkout has replied
          MaxFailures   \* bound: handlers that die and messages that fail

ASSUME BookingAssumption ==
    /\ PayEarly \in BOOLEAN
    /\ MaxFailures \in Nat
    /\ PatchStatuses \subseteq OrderStatus

vars == <<seats, tables, queues, failures, orderVars, gen, payVars>>

TypeOK == DatabaseTypeOK /\ OrderTypeOK /\ GenTypeOK /\ PaymentTypeOK

Init == DatabaseInit /\ OrderInit /\ GenInit /\ PaymentInit

(* An order's id is in the reply of its checkout; with PayEarly it may also  *)
(* have been read from GET /orders, or from the reply to a repeated checkout.*)
Payable(o) == IF PayEarly THEN OrderExists(o) ELSE AtCheckout(o, "done") /\ OrderExists(o)

SeatServiceHold ==
    /\ SeatHold
    /\ UNCHANGED <<tables, queues, failures, orderVars, gen, payVars>>

OrderServiceNext == OrderNext /\ UNCHANGED <<gen, payVars>>

PaymentCall ==
    \/ \E p \in Pays, o \in Checkouts : \E key \in Keys \union {p}, amount \in (SUBSET Seats) \ {{}} :
            Payable(o) /\ PayLookup(p, o, key, amount)
    \/ \E k \in Confirms, p \in Pays : ConfirmSession(k, p)

(* All but a new call of pay or confirm: handlers that go on, and refunds    *)
PaymentRest ==
    \/ \E p \in Pays : PayStep(p)
    \/ \E k \in Confirms : ConfirmStep(k)
    \/ \E f \in Refunds, p \in Pays : RefundPayment(f, p)
    \/ \E f \in Refunds : RefundStep(f)

PaymentNext == PaymentCall \/ PaymentRest
PaymentServiceNext == PaymentNext /\ UNCHANGED orderVars

WorkerNext ==
    \/ \E o \in Checkouts : OrderWorkerStep(o)
    \/ \E k \in Confirms : TicketDeliver(k, PaidOrder(k)) \/ TicketWork(k) \/ TicketAck(k)
QueueWorkerNext == WorkerNext /\ UNCHANGED <<orderVars, payVars>>

Fault ==
    /\ failures < MaxFailures
    /\ \/ OrderHandlerDies /\ UNCHANGED <<gen, payVars>>
       \/ (PaymentHandlerDies \/ \E p \in Pays : PayPublishFails(p)) /\ UNCHANGED orderVars
       \/ (DeadLetter \/ WorkerCrash) /\ UNCHANGED <<orderVars, payVars>>

Next ==
    \/ SeatServiceHold
    \/ OrderServiceNext
    \/ PaymentServiceNext
    \/ QueueWorkerNext
    \/ Fault

Spec == Init /\ [][Next]_vars

(* A handler that was called runs on, and a message in a queue is delivered. *)
(* Nobody has to call anything.                                              *)
Fairness ==
    /\ \A c \in Checkouts : WF_vars(CheckoutStep(c) /\ UNCHANGED <<gen, payVars>>)
    /\ \A x \in Cancels : WF_vars(CancelStep(x) /\ UNCHANGED <<gen, payVars>>)
    /\ \A p \in Pays : WF_vars(PayStep(p) /\ UNCHANGED orderVars)
    /\ \A k \in Confirms : WF_vars(ConfirmStep(k) /\ UNCHANGED orderVars)
    /\ \A f \in Refunds : WF_vars(RefundStep(f) /\ UNCHANGED orderVars)
    /\ \A o \in Checkouts : WF_vars(OrderWorkerStep(o) /\ UNCHANGED <<orderVars, payVars>>)
    /\ \A k \in Confirms :
        /\ WF_vars(TicketDeliver(k, PaidOrder(k)) /\ UNCHANGED <<orderVars, payVars>>)
        /\ WF_vars((TicketWork(k) \/ TicketAck(k)) /\ UNCHANGED <<orderVars, payVars>>)

FairSpec == Spec /\ Fairness

-----------------------------------------------------------------------------
(* Properties *)

Succeeded(p) == PaymentExists(p) /\ payments[p].transaction_id # None
Charged(o) == \E p \in Pays : Succeeded(p) /\ payments[p].order_id = o

(* Whoever prints it, and however often a message is delivered, a ticket     *)
(* belongs to an order that has the seat and that a payment succeeded for.   *)
TicketsArePaid == \A t \in tickets :
    <<t.order_id, t.seat_id>> \in order_items /\ Charged(t.order_id)

(* Two tables written by separate statements of handlers that may die in     *)
(* between: a SOLD seat has a ticket, a RESERVED seat an order that has it.  *)
SeatStatusBacked == \A s \in Seats :
    /\ seats[s] = "SOLD" => \E o \in Checkouts : HasTicket(o, s)
    /\ seats[s] = "RESERVED" => \E o \in Checkouts : <<o, s>> \in order_items

(* A seat is held when a checkout has reserved it and no cancellation has    *)
(* been asked for any order that has it.                                     *)
Reserved(c, s) == <<c, s>> \in order_items /\ checkoutReq[c].seat # s
Reopenable(s) == \E x \in Cancels, o \in Checkouts :
    cancelReq[x].order = o /\ s \in checkoutReq[o].asked
Held(s) == (\E c \in Checkouts : Reserved(c, s)) /\ ~ Reopenable(s)

(* A held seat stays reserved or sold, whatever locks, sweeps, retries and   *)
(* late messages do.                                                         *)
HeldStaysHeld == \A s \in Seats : Held(s) => seats[s] \in {"RESERVED", "SOLD"}

(* A checkout that begins its check on a held seat never goes past it: a     *)
(* seat is booked twice only by checkouts that overlap.                      *)
HeldSeatRefused == [][\A c \in Checkouts :
    CheckoutSeats(c) /\ checkoutReq'[c].pc = "insert" => \A s \in checkoutReq[c].asked : ~ Held(s)]_vars

(* The tickets that a confirm prints and those its ticket.generation message *)
(* prints, delivered however often, are one for each seat: only two confirms *)
(* that overlap print a seat twice.                                          *)
OneTicketEach == \A t1, t2 \in tickets :
    t1.order_id = t2.order_id /\ t1.seat_id = t2.seat_id /\ t1.code[1] = t2.code[1] => t1 = t2

(* The three services implement Fulfilment. *)
F == INSTANCE Fulfilment WITH
        Orders <- Checkouts,
        claimed <- order_items,
        charged <- {o \in Checkouts : Charged(o)},
        issued <- {os \in Checkouts \X Seats : HasTicket(os[1], os[2])}
ImplementsFulfilment == F!Spec

(* A confirm prints a ticket for each seat the order has by the time it      *)
(* marks the order, unless that very call dies: messages that fail or come   *)
(* again and a second confirm change nothing about it.                       *)
ConfirmPrintsTickets == \A k \in Confirms, o \in Checkouts, s \in Seats :
    (AtConfirm(k, "paid") /\ PaidOrder(k) = o /\ <<o, s>> \in order_items)
        ~> (HasTicket(o, s) \/ AtConfirm(k, "failed"))

(* docs: the buyer receives the e-ticket after the payment succeeded.  Every *)
(* seat of a charged order gets its ticket.                                  *)
ChargedGetsTickets == \A o \in Checkouts, s \in Seats :
    (Charged(o) /\ <<o, s>> \in order_items) ~> HasTicket(o, s)

(* docs: no double booking.  No seat is in two orders that are both alive.   *)
Alive(o) == OrderExists(o) /\ orders[o].status \notin {"CANCELLED", "REFUNDED"}
NoDoubleBooking == \A o1, o2 \in Checkouts :
    Alive(o1) /\ Alive(o2) /\ ItemsOf(o1) \intersect ItemsOf(o2) # {} => o1 = o2

(* docs: idempotency prevents duplicate payment.  One order is charged once. *)
ChargedOnce == \A p1, p2 \in Pays :
    Succeeded(p1) /\ Succeeded(p2) /\ payments[p1].order_id = payments[p2].order_id => p1 = p2

(* Whatever overlaps, dies or is delivered late: a charged order that is not *)
(* PAID is one the confirm that charged it has yet to mark or died over, or  *)
(* one that its order.processing message, a cancellation, a refund or an     *)
(* administrator has marked since.                                           *)
PaidUnlessUndone == \A p \in Pays : Succeeded(p) =>
    LET o == payments[p].order_id
        k == payments[p].transaction_id
    IN  \/ orders[o].status \in {"PAID"} \union PatchStatuses
        \/ AtConfirm(k, "paid") \/ AtConfirm(k, "failed")
        \/ orders[o].status = "PROCESSING" /\ orderMsg[o] # "none"
        \/ orders[o].status = "CANCELLED" /\ \E x \in Cancels : cancelReq[x].order = o
        \/ /\ orders[o].status = "REFUNDED"
           /\ \E f \in Refunds, q \in Pays : refundReq[f].payment = q /\ payments[q].order_id = o
=============================================================================
