--------------------------- MODULE PaymentService ---------------------------
(* services/payment-service: pay opens a payment session, confirm settles it *)
(* and prints the tickets, refund marks both rows.                           *)
EXTENDS TicketGeneration

CONSTANT Refunds        \* calls of POST /payments/:id/refund

VARIABLES payReq, confirmReq, refundReq

payVars == <<payReq, confirmReq, refundReq>>

PaymentTypeOK ==
    /\ payReq \in [Pays -> [pc : {"idle", "order", "insert", "done", "failed"},
                            order : Checkouts \union {None}, key : Keys \union Pays \union {None},
                            amount : SUBSET Seats]]
    /\ confirmReq \in [Confirms ->
            [pc : {"idle", "charge", "paid", "tickets", "done", "failed"},
             payment : Pays \union {None}]]
    /\ refundReq \in [Refunds -> [pc : {"idle", "order", "done", "failed"},
                                  payment : Pays \union {None}]]

PaymentInit ==
    /\ payReq = [p \in Pays |-> [pc |-> "idle", order |-> None, key |-> None, amount |-> {}]]
    /\ confirmReq = [k \in Confirms |-> [pc |-> "idle", payment |-> None]]
    /\ refundReq = [f \in Refunds |-> [pc |-> "idle", payment |-> None]]

-----------------------------------------------------------------------------
(* POST /pay *)

AtPay(p, pc) == payReq[p].pc = pc

PayLookup(p, o, key, amount) ==
    /\ AtPay(p, "idle")
    /\ payReq' = [payReq EXCEPT ![p] = [order |-> o, key |-> key, amount |-> amount,
            pc |-> IF PaymentKeyTaken(key) THEN "done" ELSE "order"]]
    /\ UNCHANGED <<seats, tables, queues, failures, gen, confirmReq, refundReq>>

(* The order must exist and the amount match; its status is not looked at.   *)
PayOrder(p) ==
    /\ AtPay(p, "order")
    /\ LET o == payReq[p].order
       IN  payReq' = [payReq EXCEPT ![p].pc =
               IF OrderExists(o) /\ orders[o].total_amount = payReq[p].amount
               THEN "insert" ELSE "failed"]
    /\ UNCHANGED <<seats, tables, queues, failures, gen, confirmReq, refundReq>>

(* The INSERT, and what the call comes to: a publish of payment.processing,  *)
(* which its consumer only logs, and the reply.                              *)
InsertPayment(p, pc) ==
    /\ AtPay(p, "insert")
    /\ IF PaymentKeyTaken(payReq[p].key)
       THEN /\ payReq' = [payReq EXCEPT ![p].pc = "failed"]
            /\ UNCHANGED payments
       ELSE /\ payReq' = [payReq EXCEPT ![p].pc = pc]
            /\ payments' = [payments EXCEPT ![p] =
                    [order_id |-> payReq[p].order, status |-> "PENDING",
                     idempotency_key |-> payReq[p].key, transaction_id |-> None]]
    /\ UNCHANGED <<seats, orders, order_items, tickets, queues, gen, confirmReq, refundReq>>

PayInsert(p) == InsertPayment(p, "done") /\ UNCHANGED failures

-----------------------------------------------------------------------------
(* POST /:id/confirm *)

AtConfirm(k, pc) == confirmReq[k].pc = pc
PaidOrder(k) == payments[confirmReq[k].payment].order_id

(* The session is read once; SUCCESS answers `duplicate`, REFUNDED 409.      *)
ConfirmSession(k, p) ==
    /\ AtConfirm(k, "idle") /\ PaymentExists(p)
    /\ confirmReq' = [confirmReq EXCEPT ![k] =
            [payment |-> p, pc |-> IF payments[p].status = "PENDING" THEN "charge" ELSE "done"]]
    /\ UNCHANGED <<seats, tables, queues, failures, gen, payReq, refundReq>>

(* Slip: the order is settled and the payment row is left as it is. *)
Settle_Skipped(k) == UNCHANGED payments
Settle(k) == payments' = [payments EXCEPT ![confirmReq[k].payment].status = "SUCCESS",
                                          ![confirmReq[k].payment].transaction_id = k]

ConfirmCharge(k) ==
    /\ AtConfirm(k, "charge")
    /\ Settle(k)
    /\ confirmReq' = [confirmReq EXCEPT ![k].pc = "paid"]
    /\ UNCHANGED <<seats, orders, order_items, tickets, queues, failures, gen, payReq, refundReq>>

(* Slip: the tickets are left to the worker. *)
PrintTickets_Later(k) == gen' = [gen EXCEPT ![<<k, "payment">>] = [NoRun EXCEPT !.pc = "done"]]
PrintTickets(k) == StartGen(<<k, "payment">>, PaidOrder(k))

(* The order becomes PAID, and generateTicketsForOrder starts.               *)
ConfirmPaid(k) ==
    /\ AtConfirm(k, "paid")
    /\ SetOrderStatus(PaidOrder(k), "PAID")
    /\ PrintTickets(k)
    /\ confirmReq' = [confirmReq EXCEPT ![k].pc = "tickets"]
    /\ UNCHANGED <<seats, order_items, payments, tickets, queues, failures, payReq, refundReq>>

ConfirmTickets(k) ==
    /\ AtConfirm(k, "tickets")
    /\ GenStep(<<k, "payment">>)
    /\ UNCHANGED payVars

ConfirmPublish(k) ==
    /\ AtConfirm(k, "tickets") /\ AtGen(<<k, "payment">>, "done")
    /\ ticketMsg' = [ticketMsg EXCEPT ![k] = "ready"]
    /\ confirmReq' = [confirmReq EXCEPT ![k].pc = "done"]
    /\ UNCHANGED <<seats, tables, orderMsg, failures, gen, payReq, refundReq>>

-----------------------------------------------------------------------------
(* POST /payments/:id/refund: tickets and seats stay as they are.            *)

RefundPayment(f, p) ==
    /\ refundReq[f].pc = "idle" /\ PaymentExists(p)
    /\ payments' = [payments EXCEPT ![p].status = "REFUNDED"]
    /\ refundReq' = [refundReq EXCEPT ![f] = [pc |-> "order", payment |-> p]]
    /\ UNCHANGED <<seats, orders, order_items, tickets, queues, failures, gen, payReq, confirmReq>>

RefundOrder(f) ==
    /\ refundReq[f].pc = "order"
    /\ SetOrderStatus(payments[refundReq[f].payment].order_id, "REFUNDED")
    /\ refundReq' = [refundReq EXCEPT ![f].pc = "done"]
    /\ UNCHANGED <<seats, order_items, payments, tickets, queues, failures, gen, payReq, confirmReq>>

-----------------------------------------------------------------------------
(* An await throws, or the process dies there: nothing is undone.            *)
PaymentHandlerDies ==
    /\ failures' = failures + 1
    /\ \/ /\ \E p \in Pays :
                /\ payReq[p].pc \in {"order", "insert"}
                /\ payReq' = [payReq EXCEPT ![p].pc = "failed"]
          /\ UNCHANGED <<confirmReq, refundReq>>
       \/ /\ \E k \in Confirms :
                /\ confirmReq[k].pc \in {"charge", "paid", "tickets"}
                /\ confirmReq' = [confirmReq EXCEPT ![k].pc = "failed"]
          /\ UNCHANGED <<payReq, refundReq>>
       \/ /\ \E f \in Refunds :
                /\ refundReq[f].pc = "order"
                /\ refundReq' = [refundReq EXCEPT ![f].pc = "failed"]
          /\ UNCHANGED <<payReq, confirmReq>>
    /\ UNCHANGED <<seats, tables, queues, gen>>

(* The row is there, and the publish after it throws or the process dies.    *)
PayPublishFails(p) ==
    /\ ~ PaymentKeyTaken(payReq[p].key) /\ InsertPayment(p, "failed")
    /\ failures' = failures + 1

PayStep(p) == PayOrder(p) \/ PayInsert(p)
ConfirmStep(k) == ConfirmCharge(k) \/ ConfirmPaid(k) \/ ConfirmTickets(k) \/ ConfirmPublish(k)
RefundStep(f) == RefundOrder(f)
=============================================================================
