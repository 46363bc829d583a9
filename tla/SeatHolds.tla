----------------------------- MODULE SeatHolds -----------------------------
(* Who holds a seat.  The seat service itself keeps a lease, a status and a  *)
(* row, which need not agree; here is what they are meant to record, as      *)
(* history beside every step of SeatService: which lock calls have set the   *)
(* seat LOCKED, and which leases were taken away before their time.          *)
EXTENDS SeatService

VARIABLES holders,      \* lock calls whose UPDATE left the seat LOCKED since it was last AVAILABLE
          cutShort      \* (call, seat): leases that did not simply run out

holdVars == <<vars, holders, cutShort>>

(* The UPDATE of a lock call leaves the seat LOCKED, whoever set it so.      *)
Locks(r, s) == /\ AtLock(r, "update") /\ lockReq'[r].pc = "insert"
               /\ lockReq[r].seat = s /\ seats'[s] = "LOCKED"

(* A lease ends in its time when no handler is at work on its seat and none  *)
(* deletes it: releaseLock is a step of a handler, a lapse is not.           *)
InTime(s) == UNCHANGED handlers /\ ~ BusySeat(s)
Ended(s) == seatLock[s] # None /\ seatLock'[s] = None

Record ==
    /\ holders' = [s \in Seats |-> IF seats'[s] = "AVAILABLE" THEN {}
                                   ELSE holders[s] \union {r \in LockRequests : Locks(r, s)}]
    /\ cutShort' = cutShort \union {<<seatLock[s], s>> : s \in {x \in Seats : Ended(x) /\ ~ InTime(x)}}

HoldsInit == Init /\ holders = [s \in Seats |-> {}] /\ cutShort = {}

HoldsNext == Next /\ Record

HoldsSpec == HoldsInit /\ [][HoldsNext]_holdVars

-----------------------------------------------------------------------------
(* Properties *)

(* A hold stands from its UPDATE until somebody reopens the seat (an unlock, *)
(* a sweep, a cancellation) or takes its lease before its time (an unlock or *)
(* a sweep for the same user; a handler slower than the TTL).                *)
Whole(r, s) == <<r, s>> \notin cutShort
Stands(r, s) == r \in holders[s] /\ Whole(r, s)

(* Mutual exclusion of the lock handler's writes: between SET NX and the     *)
(* upsert of seat_locks, a seat has one writer among those whose lease was   *)
(* not taken from them.  SELECT alone lets several calls through; the lease  *)
(* must keep all but one out until the row is there.                         *)
Writing(r, s) == lockReq[r].pc \in {"update", "insert"} /\ lockReq[r].seat = s
OneLocker == \A r1, r2 \in LockRequests : \A s \in Seats :
    Writing(r1, s) /\ Writing(r2, s) /\ Whole(r1, s) /\ Whole(r2, s) => r1 = r2

(* The UPDATE of a lock call, whose row count is ignored, never joins a hold *)
(* that stands: no call reports a seat that another call has locked, unless  *)
(* somebody ended that hold, or the caller's own lease was taken under it.   *)
NeverJoinsHold == [][\A r \in LockRequests :
    LET s == lockReq[r].seat
    IN  LockUpdate(r) /\ Whole(r, s) => \A h \in holders[s] : ~ Stands(h, s)]_holdVars

(* The sweep works from rows it read earlier.  While the hold of such a row  *)
(* stands, no lease is running on its seat and no other hold stands there:   *)
(* neither the sweep's DEL nor its UPDATE takes a seat from a buyer who has  *)
(* got it since.  (Once somebody else has reopened the seat, they may.)      *)
SweepSparesLease == [][\A w \in Sweeps, row \in Rows :
    /\ SweepRelease(w, row) \/ (SweepUpdate(w) /\ sweep[w].row = row)
    /\ Stands(row.call, row.seat)
    => /\ seatLock[row.seat] = None
       /\ \A h \in holders[row.seat] : Stands(h, row.seat) => h = row.call]_holdVars
=============================================================================
