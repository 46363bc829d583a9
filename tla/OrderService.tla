---------------------------- MODULE OrderService ----------------------------
(* services/order-service: checkout turns locked seats into an order, cancel *)
(* gives them back, and an administrator may set any status.  Each handler   *)
(* is split at its awaits.                                                   *)
EXTENDS Database

CONSTANTS Cancels,          \* calls of POST /orders/:id/cancel
          PatchStatuses     \* bound: statuses an administrator sets

VARIABLES checkoutReq, cancelReq

orderVars == <<checkoutReq, cancelReq>>

OrderTypeOK ==
    /\ checkoutReq \in [Checkouts ->
            [pc : {"idle", "seats", "insert", "item", "reserve", "publish", "done", "failed"},
             key : Keys \union Checkouts \union {None}, asked : SUBSET Seats,
             todo : SUBSET Seats, seat : Seats \union {None}]]
    /\ cancelReq \in [Cancels ->
            [pc : {"idle", "mark", "items", "reopen", "done", "failed"},
             order : Checkouts \union {None}, todo : SUBSET Seats]]

OrderInit ==
    /\ checkoutReq = [c \in Checkouts |->
            [pc |-> "idle", key |-> None, asked |-> {}, todo |-> {}, seat |-> None]]
    /\ cancelReq = [x \in Cancels |-> [pc |-> "idle", order |-> None, todo |-> {}]]

-----------------------------------------------------------------------------
(* POST /checkout *)

AtCheckout(c, pc) == checkoutReq[c].pc = pc

(* SELECT by key: an order already made with it is the reply.  A call that   *)
(* carries no key makes one of its own.                                      *)
CheckoutLookup(c, key, asked) ==
    /\ AtCheckout(c, "idle")
    /\ checkoutReq' = [checkoutReq EXCEPT ![c].key = key, ![c].asked = asked,
            ![c].pc = IF OrderKeyTaken(key) THEN "done" ELSE "seats"]
    /\ UNCHANGED <<seats, tables, queues, failures, cancelReq>>

(* Slip: only AVAILABLE seats are refused. *)
Sellable_NotAvailable(s) == seats[s] # "AVAILABLE"
Sellable(s) == seats[s] = "LOCKED"

(* SELECT the seats: all must be LOCKED, by whom is not asked.               *)
CheckoutSeats(c) ==
    /\ AtCheckout(c, "seats")
    /\ checkoutReq' = [checkoutReq EXCEPT ![c].pc =
            IF \A s \in checkoutReq[c].asked : Sellable(s) THEN "insert" ELSE "failed"]
    /\ UNCHANGED <<seats, tables, queues, failures, cancelReq>>

(* Slip: ON CONFLICT (idempotency_key) DO UPDATE SET status = 'PENDING'.      *)
OnKeyTaken_Reset(key) == orders' = [o \in Checkouts |->
    IF OrderExists(o) /\ orders[o].idempotency_key = key
    THEN [orders[o] EXCEPT !.status = "PENDING"] ELSE orders[o]]
OnKeyTaken(key) == UNCHANGED orders

(* INSERT INTO orders: the loser of a race for a key gets an error.          *)
CheckoutInsert(c) ==
    /\ AtCheckout(c, "insert")
    /\ LET req == checkoutReq[c]
       IN  IF OrderKeyTaken(req.key)
           THEN /\ checkoutReq' = [checkoutReq EXCEPT ![c].pc = "failed"]
                /\ OnKeyTaken(req.key)
           ELSE /\ checkoutReq' = [checkoutReq EXCEPT ![c].pc = "item", ![c].todo = req.asked]
                /\ orders' = [orders EXCEPT ![c] = [status |-> "PENDING",
                        idempotency_key |-> req.key, total_amount |-> req.asked]]
    /\ UNCHANGED <<seats, order_items, payments, tickets, queues, failures, cancelReq>>

CheckoutItem(c, s) ==
    /\ AtCheckout(c, "item") /\ s \in checkoutReq[c].todo
    /\ order_items' = order_items \union {<<c, s>>}
    /\ checkoutReq' = [checkoutReq EXCEPT ![c].pc = "reserve", ![c].seat = s, ![c].todo = @ \ {s}]
    /\ UNCHANGED <<seats, orders, payments, tickets, queues, failures, cancelReq>>

(* Slip: the seat gets the status of its order. *)
Reserve_Pending(s) == Set(s, "PENDING")

(* UPDATE seats SET status = 'RESERVED' WHERE id: whatever it is by now      *)
Reserve(s) == Set(s, "RESERVED")

CheckoutReserve(c) ==
    /\ AtCheckout(c, "reserve")
    /\ Reserve(checkoutReq[c].seat)
    /\ checkoutReq' = [checkoutReq EXCEPT ![c].seat = None,
            ![c].pc = IF checkoutReq[c].todo = {} THEN "publish" ELSE "item"]
    /\ UNCHANGED <<tables, queues, failures, cancelReq>>

CheckoutPublish(c) ==
    /\ AtCheckout(c, "publish")
    /\ orderMsg' = [orderMsg EXCEPT ![c] = "ready"]
    /\ checkoutReq' = [checkoutReq EXCEPT ![c].pc = "done"]
    /\ UNCHANGED <<seats, tables, ticketMsg, failures, cancelReq>>

-----------------------------------------------------------------------------
(* POST /orders/:id/cancel: the order's status, a payment made for it and    *)
(* the lock keys of its seats are not looked at.                             *)

AtCancel(x, pc) == cancelReq[x].pc = pc

CancelLookup(x, o) ==
    /\ AtCancel(x, "idle") /\ OrderExists(o)
    /\ cancelReq' = [cancelReq EXCEPT ![x].pc = "mark", ![x].order = o]
    /\ UNCHANGED <<seats, tables, queues, failures, checkoutReq>>

CancelMark(x) ==
    /\ AtCancel(x, "mark")
    /\ SetOrderStatus(cancelReq[x].order, "CANCELLED")
    /\ cancelReq' = [cancelReq EXCEPT ![x].pc = "items"]
    /\ UNCHANGED <<seats, order_items, payments, tickets, queues, failures, checkoutReq>>

CancelItems(x) ==
    /\ AtCancel(x, "items")
    /\ LET items == ItemsOf(cancelReq[x].order)
       IN  cancelReq' = [cancelReq EXCEPT ![x].todo = items,
                                          ![x].pc = IF items = {} THEN "done" ELSE "reopen"]
    /\ UNCHANGED <<seats, tables, queues, failures, checkoutReq>>

CancelReopen(x, s) ==
    /\ AtCancel(x, "reopen") /\ s \in cancelReq[x].todo
    /\ Set(s, "AVAILABLE")
    /\ cancelReq' = [cancelReq EXCEPT ![x].todo = @ \ {s},
            ![x].pc = IF cancelReq[x].todo = {s} THEN "done" ELSE "reopen"]
    /\ UNCHANGED <<tables, queues, failures, checkoutReq>>

-----------------------------------------------------------------------------
(* PATCH /orders/:id/status *)
PatchStatus(o, status) ==
    /\ OrderExists(o)
    /\ SetOrderStatus(o, status)
    /\ UNCHANGED <<seats, order_items, payments, tickets, queues, failures, orderVars>>

(* An await throws, or the process dies there: nothing is undone.            *)
OrderHandlerDies ==
    /\ failures' = failures + 1
    /\ \/ /\ \E c \in Checkouts :
                /\ checkoutReq[c].pc \notin {"idle", "done", "failed"}
                /\ checkoutReq' = [checkoutReq EXCEPT ![c].pc = "failed"]
          /\ UNCHANGED cancelReq
       \/ /\ \E x \in Cancels :
                /\ cancelReq[x].pc \notin {"idle", "done", "failed"}
                /\ cancelReq' = [cancelReq EXCEPT ![x].pc = "failed"]
          /\ UNCHANGED checkoutReq
    /\ UNCHANGED <<seats, tables, queues>>

CheckoutStep(c) ==
    \/ CheckoutSeats(c) \/ CheckoutInsert(c)
    \/ \E s \in Seats : CheckoutItem(c, s)
    \/ CheckoutReserve(c) \/ CheckoutPublish(c)

CancelStep(x) ==
    \/ CancelMark(x) \/ CancelItems(x)
    \/ \E s \in Seats : CancelReopen(x, s)

CheckoutCall == \E c \in Checkouts : \E key \in Keys \union {c}, asked \in (SUBSET Seats) \ {{}} :
    CheckoutLookup(c, key, asked)

(* All but a new call of checkout: handlers that go on, cancel and PATCH     *)
OrderRest ==
    \/ \E c \in Checkouts : CheckoutStep(c)
    \/ \E x \in Cancels, o \in Checkouts : CancelLookup(x, o)
    \/ \E x \in Cancels : CancelStep(x)
    \/ \E o \in Checkouts, status \in PatchStatuses : PatchStatus(o, status)

OrderNext == CheckoutCall \/ OrderRest
=============================================================================
