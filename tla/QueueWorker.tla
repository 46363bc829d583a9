---------------------------- MODULE QueueWorker ----------------------------
(* services/queue-worker behind packages/shared/src/rabbitmq.ts: a message   *)
(* is acknowledged after its handler, dropped to dead.letter when the        *)
(* handler throws, and delivered again when the worker dies before the ack.  *)
(* Ten deliveries run at once (prefetch), so a queue keeps no order here.    *)
(* Nothing reads dead.letter.                                                *)
EXTENDS TicketGeneration

CONSTANT Deliveries     \* bound: confirms whose ticket.generation message is taken

(* The consumer's slot in gen for the message that confirm k published *)
Delivery(k) == <<k, "worker">>

-----------------------------------------------------------------------------
(* order.processing *)

(* UPDATE orders SET status = 'PROCESSING' WHERE id, whatever it was         *)
OrderProcess(o) ==
    /\ orderMsg[o] = "ready"
    /\ SetOrderStatus(o, "PROCESSING")
    /\ orderMsg' = [orderMsg EXCEPT ![o] = "applied"]
    /\ UNCHANGED <<seats, order_items, payments, tickets, ticketMsg, gen, failures>>

OrderAck(o) ==
    /\ orderMsg[o] = "applied"
    /\ orderMsg' = [orderMsg EXCEPT ![o] = "acked"]
    /\ UNCHANGED <<seats, tables, ticketMsg, gen, failures>>

-----------------------------------------------------------------------------
(* ticket.generation *)

TicketDeliver(k, o) ==
    /\ ticketMsg[k] = "ready" /\ k \in Deliveries
    /\ StartGen(Delivery(k), o)
    /\ ticketMsg' = [ticketMsg EXCEPT ![k] = "delivered"]
    /\ UNCHANGED <<seats, tables, orderMsg, failures>>

TicketWork(k) == ticketMsg[k] = "delivered" /\ GenStep(Delivery(k))

(* notification.send TICKET_GENERATED, then the ack *)
TicketAck(k) ==
    /\ ticketMsg[k] = "delivered" /\ AtGen(Delivery(k), "done")
    /\ ticketMsg' = [ticketMsg EXCEPT ![k] = "acked"]
    /\ UNCHANGED <<seats, tables, orderMsg, gen, failures>>

-----------------------------------------------------------------------------
(* A query in a handler throws: nack without requeue. *)
DeadLetter ==
    /\ failures' = failures + 1
    /\ \/ /\ \E o \in Checkouts : orderMsg[o] = "ready"
                /\ orderMsg' = [orderMsg EXCEPT ![o] = "dead"]
          /\ UNCHANGED <<ticketMsg, gen>>
       \/ /\ \E k \in Confirms :
                /\ ticketMsg[k] = "delivered" /\ ~ AtGen(Delivery(k), "done")
                /\ ticketMsg' = [ticketMsg EXCEPT ![k] = "dead"]
                /\ gen' = [gen EXCEPT ![Delivery(k)] = NoRun]
          /\ UNCHANGED orderMsg
    /\ UNCHANGED <<seats, tables>>

(* The worker's process dies: every unacknowledged message is ready again.   *)
WorkerCrash ==
    /\ \/ \E o \in Checkouts : orderMsg[o] = "applied"
       \/ \E k \in Confirms : ticketMsg[k] = "delivered"
    /\ failures' = failures + 1
    /\ orderMsg' = [o \in Checkouts |-> IF orderMsg[o] = "applied" THEN "ready" ELSE orderMsg[o]]
    /\ ticketMsg' = [k \in Confirms |->
            IF ticketMsg[k] = "delivered" THEN "ready" ELSE ticketMsg[k]]
    /\ gen' = [i \in Issuers |-> IF i[2] = "worker" THEN NoRun ELSE gen[i]]
    /\ UNCHANGED <<seats, tables>>

OrderWorkerStep(o) == OrderProcess(o) \/ OrderAck(o)
=============================================================================
