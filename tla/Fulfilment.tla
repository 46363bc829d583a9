----------------------------- MODULE Fulfilment -----------------------------
(* What the booking services promise together, with no calls, queues or      *)
(* tables: an order claims seats, its price is charged, and a ticket is      *)
(* issued for a seat only to an order that claims the seat and was charged.  *)
(* Nothing issued, charged or claimed is ever taken back.                    *)
CONSTANTS Orders, Seats

VARIABLES claimed,      \* pairs <<order, seat>>
          charged,      \* orders a payment succeeded for
          issued        \* pairs <<order, seat>> with a ticket

Init == claimed = {} /\ charged = {} /\ issued = {}

Claim(o, s) ==
    /\ claimed' = claimed \union {<<o, s>>}
    /\ UNCHANGED <<charged, issued>>

Charge(o) ==
    /\ charged' = charged \union {o}
    /\ UNCHANGED <<claimed, issued>>

Issue(o, s) ==
    /\ o \in charged /\ <<o, s>> \in claimed
    /\ issued' = issued \union {<<o, s>>}
    /\ UNCHANGED <<claimed, charged>>

Next ==
    \/ \E o \in Orders, s \in Seats : Claim(o, s) \/ Issue(o, s)
    \/ \E o \in Orders : Charge(o)

Spec == Init /\ [][Next]_<<claimed, charged, issued>>
=============================================================================
