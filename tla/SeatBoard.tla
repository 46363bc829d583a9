----------------------------- MODULE SeatBoard -----------------------------
(* The `seats` table (scripts/init-db.sql) is written by four programs that  *)
(* share nothing else: the seat service moves a seat between AVAILABLE and   *)
(* LOCKED, always under a condition on the status it finds, while the order  *)
(* service, the payment service and the queue worker overwrite the status    *)
(* whatever it is.  This module is the contract between them: SeatHold is    *)
(* what the seat service may do to the table and SeatSale what the others    *)
(* may do.  Each component is checked against its own half and relies on     *)
(* the other.                                                                *)
CONSTANT Seats

VARIABLE seats      \* status column, [Seats -> SeatStatus]

SeatStatus == {"AVAILABLE", "LOCKED", "RESERVED", "SOLD"}

Set(s, status) == seats' = [seats EXCEPT ![s] = status]

(* Slips the runs must notice: a literal that is not in the enumeration, an  *)
(* UPDATE without its condition on the status (for the call and for the      *)
(* contract), or with the condition on the wrong one.                        *)
LockSeat_Misspelt(s) == IF seats[s] = "AVAILABLE" THEN Set(s, "LOCK") ELSE UNCHANGED seats
FreeSeat_Unconditional(s) == Set(s, "AVAILABLE")
FreeSeat_Reserved(s) == IF seats[s] = "RESERVED" THEN Set(s, "AVAILABLE") ELSE UNCHANGED seats
SeatHold_Unconditional == \E s \in Seats :
    Set(s, "AVAILABLE") \/ (seats[s] = "AVAILABLE" /\ Set(s, "LOCKED"))

(* UPDATE seats SET status = 'LOCKED' WHERE id = $1 AND status = 'AVAILABLE' *)
LockSeat(s) == IF seats[s] = "AVAILABLE" THEN Set(s, "LOCKED") ELSE UNCHANGED seats

(* UPDATE seats SET status = 'AVAILABLE' WHERE id = $1 AND status = 'LOCKED' *)
FreeSeat(s) == IF seats[s] = "LOCKED" THEN Set(s, "AVAILABLE") ELSE UNCHANGED seats

(* The effect the seat service may have on the table: one seat taken or given back. *)
SeatHold ==
    \E s \in Seats :
        \/ seats[s] = "AVAILABLE" /\ Set(s, "LOCKED")
        \/ seats[s] = "LOCKED" /\ Set(s, "AVAILABLE")

(* The effect of the order, payment and ticket writers: checkout reserves,  *)
(* ticket generation sells, a cancellation reopens, whatever was there.     *)
SeatSale == \E s \in Seats, status \in {"RESERVED", "SOLD", "AVAILABLE"} : Set(s, status)
=============================================================================
