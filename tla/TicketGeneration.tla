-------------------------- MODULE TicketGeneration --------------------------
(* The loop that prints the tickets of an order and marks its seats SOLD.    *)
(* The payment service runs it inside confirm (generateTicketsForOrder) and  *)
(* the queue worker runs its own copy of it for each ticket.generation       *)
(* message; gen holds both, one run per issuer.                              *)
EXTENDS Database

VARIABLE gen

GenTypeOK ==
    gen \in [Issuers -> [pc : {"idle", "items", "check", "insert", "sell", "done"},
                         order : Checkouts \union {None},
                         todo : SUBSET Seats, seat : Seats \union {None}]]

NoRun == [pc |-> "idle", order |-> None, todo |-> {}, seat |-> None]

GenInit == gen = [i \in Issuers |-> NoRun]

AtGen(i, pc) == gen[i].pc = pc

StartGen(i, o) == gen' = [gen EXCEPT ![i] = [NoRun EXCEPT !.pc = "items", !.order = o]]

(* Slip: the seats the order was priced for, not its items. *)
SeatsOf_Priced(i) == orders[gen[i].order].total_amount
SeatsOf(i) == ItemsOf(gen[i].order)

(* SELECT the order, then its items joined with seats *)
GenItems(i) ==
    /\ AtGen(i, "items")
    /\ gen' = [gen EXCEPT ![i].todo = SeatsOf(i), ![i].pc = IF SeatsOf(i) = {} THEN "done" ELSE "check"]
    /\ UNCHANGED <<seats, tables>>

(* SELECT a ticket of this order and seat.  Slips: nobody looks, or every    *)
(* seat is sold as if its ticket were there.                                 *)
Printed_Blind(i, s) == FALSE
Printed_Assumed(i, s) == TRUE
Printed(i, s) == HasTicket(gen[i].order, s)

GenCheck(i, s) ==
    /\ AtGen(i, "check") /\ s \in gen[i].todo
    /\ gen' = [gen EXCEPT ![i].seat = s, ![i].todo = @ \ {s},
                          ![i].pc = IF Printed(i, s) THEN "sell" ELSE "insert"]
    /\ UNCHANGED <<seats, tables>>

(* The table has no key on order and seat: a second INSERT adds a ticket.    *)
MadeBefore(i) == \E t \in tickets : t.order_id = gen[i].order /\ t.seat_id = gen[i].seat /\ t.code = i
GenInsert(i) ==
    /\ AtGen(i, "insert")
    /\ tickets' = tickets \union
            {[order_id |-> gen[i].order, seat_id |-> gen[i].seat, code |-> i, again |-> MadeBefore(i)]}
    /\ gen' = [gen EXCEPT ![i].pc = "sell"]
    /\ UNCHANGED <<seats, orders, order_items, payments>>

(* UPDATE seats SET status = 'SOLD' WHERE id *)
GenSell(i) ==
    /\ AtGen(i, "sell")
    /\ Set(gen[i].seat, "SOLD")
    /\ gen' = [gen EXCEPT ![i].seat = None,
                          ![i].pc = IF gen[i].todo = {} THEN "done" ELSE "check"]
    /\ UNCHANGED tables

GenStep(i) ==
    /\ \/ GenItems(i)
       \/ \E s \in Seats : GenCheck(i, s)
       \/ GenInsert(i) \/ GenSell(i)
    /\ UNCHANGED <<queues, failures>>
=============================================================================
