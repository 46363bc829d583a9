------------------------------ MODULE Database ------------------------------
(* What the booking services share: the tables orders, order_items, payments *)
(* and tickets of scripts/init-db.sql (`seats` is in SeatBoard), written     *)
(* with single statements and never in a transaction, and the two RabbitMQ   *)
(* queues whose messages change a table.                                     *)
(*                                                                           *)
(* An order is named by the call that inserts it, a payment by its call of   *)
(* POST /pay, a transaction and its ticket.generation message by the call of *)
(* confirm that makes them.  A price is the set of the seats it adds up.     *)
EXTENDS SeatBoard, Naturals

CONSTANTS Checkouts,    \* calls of POST /checkout
          Pays,         \* calls of POST /pay
          Confirms,     \* calls of POST /:id/confirm
          Keys,         \* idempotency keys that clients reuse between calls
          None

VARIABLES orders, order_items, payments, tickets,
          orderMsg,     \* order.processing, one message per order
          ticketMsg,    \* ticket.generation, one message per confirm
          failures      \* handlers that died so far

tables == <<orders, order_items, payments, tickets>>
queues == <<orderMsg, ticketMsg>>

(* Tickets are printed by two programs, and every INSERT makes a new code:   *)
(* who made it, and whether one more of the same is there already.  Bound: a *)
(* third is not told from the second.                                        *)
Issuers == Confirms \X {"payment", "worker"}

OrderStatus == {"PENDING", "PROCESSING", "PAID", "FAILED", "CANCELLED", "REFUNDED"}
PaymentStatus == {"PENDING", "SUCCESS", "FAILED", "REFUNDED"}
MessageState == {"none", "ready", "delivered", "applied", "acked", "dead"}

Order == [status : OrderStatus, idempotency_key : Keys \union Checkouts,
          total_amount : SUBSET Seats]
Payment == [order_id : Checkouts, status : PaymentStatus,
            idempotency_key : Keys \union Pays, transaction_id : Confirms \union {None}]
Ticket == [order_id : Checkouts, seat_id : Seats, code : Issuers, again : BOOLEAN]

(* NULL is no id, and a row is not NULL.                                     *)
ASSUME DatabaseAssumption ==
    /\ None \notin Checkouts \union Pays \union Confirms \union Seats \union Keys
    /\ None \notin Order /\ None \notin Payment

DatabaseTypeOK ==
    /\ seats \in [Seats -> SeatStatus]
    /\ orders \in [Checkouts -> Order \union {None}]
    /\ order_items \in SUBSET (Checkouts \X Seats)
    /\ payments \in [Pays -> Payment \union {None}]
    /\ tickets \in SUBSET Ticket
    /\ orderMsg \in [Checkouts -> MessageState]
    /\ ticketMsg \in [Confirms -> MessageState]
    /\ failures \in Nat

DatabaseInit ==
    /\ seats = [s \in Seats |-> "AVAILABLE"]
    /\ orders = [o \in Checkouts |-> None]
    /\ order_items = {}
    /\ payments = [p \in Pays |-> None]
    /\ tickets = {}
    /\ orderMsg = [o \in Checkouts |-> "none"]
    /\ ticketMsg = [k \in Confirms |-> "none"]
    /\ failures = 0

OrderExists(o) == orders[o] # None
PaymentExists(p) == payments[p] # None

(* UNIQUE(idempotency_key) of the two tables *)
OrderKeyTaken(key) == \E o \in Checkouts : OrderExists(o) /\ orders[o].idempotency_key = key
PaymentKeyTaken(key) == \E p \in Pays : PaymentExists(p) /\ payments[p].idempotency_key = key

ItemsOf(o) == {s \in Seats : <<o, s>> \in order_items}
HasTicket(o, s) == \E t \in tickets : t.order_id = o /\ t.seat_id = s

(* UPDATE orders SET status = $1 WHERE id = $2: never a condition on the old *)
SetOrderStatus(o, status) == orders' = [orders EXCEPT ![o].status = status]
=============================================================================
