---------------------------- MODULE SeatService ----------------------------
(* services/seat-service: a buyer's hold on a seat.  A hold lives in three   *)
(* places that no transaction ties together: the Redis key of the seat (SET  *)
(* EX NX, a lease that lapses by itself), the status column of `seats` and   *)
(* the row of `seat_locks` that tells the periodic sweep when to give the    *)
(* seat back.  Every handler is a process split at its awaits, so handlers   *)
(* interleave there and may die there.                                       *)
(*                                                                           *)
(* Leases have no clock: a Redis key may lapse at any moment, and a row may  *)
(* be past its expires_at only once the lease it was written for is gone     *)
(* (expires_at is computed after SET EX returned, with the same TTL).        *)
EXTENDS SeatBoard, Naturals

CONSTANTS LockRequests,     \* calls of POST /seats/lock; a call's id also names its leases
          UnlockRequests,   \* calls of POST /seats/unlock
          Sweeps,           \* concurrent calls of POST /seats/release-expired
          Readers,          \* concurrent calls of GET /events/:id/seats
          Users, None,
          SaleWrites,       \* statuses the order, payment and ticket writers store here
          PromptHandlers,   \* TRUE: no handler works on one seat longer than a lease lasts
          SweepReached,     \* TRUE: the worker's localhost is the seat service's host
          MaxFailures       \* bound: handlers that may die at an await

ASSUME SeatServiceAssumption ==
    /\ None \notin LockRequests \union Users
    /\ SaleWrites \subseteq {"RESERVED", "SOLD", "AVAILABLE"}
    /\ PromptHandlers \in BOOLEAN /\ SweepReached \in BOOLEAN
    /\ MaxFailures \in Nat

VARIABLES seatLock,     \* Redis seat:<id>:locked, the call holding the lease
          seat_locks,   \* row of seat_locks, the call it was written for
          expired,      \* seats whose row is past expires_at
          lockReq, unlockReq, sweep, reader,    \* handlers in flight
          seatCache,    \* Redis event:<id>:seats, the seats it lists AVAILABLE
          failures

handlers == <<lockReq, unlockReq, sweep, reader>>
vars == <<seats, seatLock, seat_locks, expired, handlers, seatCache, failures>>

Rows == [seat : Seats, call : LockRequests]

LockCalls == [pc : {"idle", "select", "acquire", "update", "insert", "done", "failed"},
              user : Users \union {None}, todo : SUBSET Seats,
              seat : Seats \union {None}, locked : SUBSET Seats]
UnlockCalls == [pc : {"idle", "release", "update", "delete", "done", "failed"},
                user : Users \union {None}, todo : SUBSET Seats, seat : Seats \union {None}]
SweepCalls == [pc : {"idle", "release", "update", "delete"},
               rows : SUBSET Rows, row : Rows \union {None}]

TypeOK ==
    /\ seats \in [Seats -> SeatStatus]
    /\ seatLock \in [Seats -> LockRequests \union {None}]
    /\ seat_locks \in [Seats -> LockRequests \union {None}]
    /\ expired \in SUBSET Seats
    /\ lockReq \in [LockRequests -> LockCalls]
    /\ unlockReq \in [UnlockRequests -> UnlockCalls]
    /\ sweep \in [Sweeps -> SweepCalls]
    /\ reader \in [Readers -> [pc : {"idle", "fill"}, view : SUBSET Seats]]
    /\ seatCache \in (SUBSET Seats) \union {None}
    /\ failures \in 0 .. MaxFailures

Init ==
    /\ seats = [s \in Seats |-> "AVAILABLE"]
    /\ seatLock = [s \in Seats |-> None]
    /\ seat_locks = [s \in Seats |-> None]
    /\ expired = {}
    /\ lockReq = [r \in LockRequests |->
            [pc |-> "idle", user |-> None, todo |-> {}, seat |-> None, locked |-> {}]]
    /\ unlockReq = [q \in UnlockRequests |->
            [pc |-> "idle", user |-> None, todo |-> {}, seat |-> None]]
    /\ sweep = [w \in Sweeps |-> [pc |-> "idle", rows |-> {}, row |-> None]]
    /\ reader = [v \in Readers |-> [pc |-> "idle", view |-> {}]]
    /\ seatCache = None
    /\ failures = 0

-----------------------------------------------------------------------------
(* The two Redis calls of the lock, and the row both kinds of release drop. *)

HeldBy(s, user) == seatLock[s] # None /\ lockReq[seatLock[s]].user = user

ReleaseLock(s, user) ==
    seatLock' = IF HeldBy(s, user) THEN [seatLock EXCEPT ![s] = None] ELSE seatLock

DeleteRow(s) ==
    /\ seat_locks' = [seat_locks EXCEPT ![s] = None]
    /\ expired' = expired \ {s}

-----------------------------------------------------------------------------
(* POST /seats/lock *)

AtLock(r, pc) == lockReq[r].pc = pc
LockTo(r, call) == lockReq' = [lockReq EXCEPT ![r] = call]

(* The three conditions the handler rests on, each after a slip that would   *)
(* lose it: the status is not looked at, SET goes without NX, and ON         *)
(* CONFLICT changes the owner but not expires_at.                            *)
Offered_Unchecked(s) == TRUE
Offered(s) == seats[s] = "AVAILABLE"
KeyFree_NoNX(s) == TRUE
KeyFree(s) == seatLock[s] = None
RenewRow_KeepsExpiry(s) == UNCHANGED expired
RenewRow(s) == expired' = expired \ {s}

LockCall(r, user, asked) ==
    /\ AtLock(r, "idle") /\ LockTo(r, [lockReq[r] EXCEPT !.pc = "select", !.user = user, !.todo = asked])
    /\ UNCHANGED <<seats, seatLock, seat_locks, expired, unlockReq, sweep, reader, seatCache, failures>>

(* SELECT status: a seat that is not AVAILABLE goes to `failed`. *)
LockSelect(r, s) ==
    /\ AtLock(r, "select") /\ s \in lockReq[r].todo
    /\ IF Offered(s)
       THEN LockTo(r, [lockReq[r] EXCEPT !.todo = @ \ {s}, !.pc = "acquire", !.seat = s])
       ELSE LockTo(r, [lockReq[r] EXCEPT !.todo = @ \ {s}])
    /\ UNCHANGED <<seats, seatLock, seat_locks, expired, unlockReq, sweep, reader, seatCache, failures>>

(* SET key user EX ttl NX: a seat whose key exists goes to `failed`. *)
LockAcquire(r) ==
    /\ AtLock(r, "acquire")
    /\ IF KeyFree(lockReq[r].seat)
       THEN /\ seatLock' = [seatLock EXCEPT ![lockReq[r].seat] = r]
            /\ LockTo(r, [lockReq[r] EXCEPT !.pc = "update"])
       ELSE /\ LockTo(r, [lockReq[r] EXCEPT !.pc = "select", !.seat = None])
            /\ UNCHANGED seatLock
    /\ UNCHANGED <<seats, seat_locks, expired, unlockReq, sweep, reader, seatCache, failures>>

(* The number of rows the UPDATE changed is not looked at. *)
LockUpdate(r) ==
    /\ AtLock(r, "update")
    /\ LockSeat(lockReq[r].seat)
    /\ LockTo(r, [lockReq[r] EXCEPT !.pc = "insert"])
    /\ UNCHANGED <<seatLock, seat_locks, expired, unlockReq, sweep, reader, seatCache, failures>>

(* INSERT ... ON CONFLICT DO UPDATE: a row left there is taken over. *)
LockInsert(r) ==
    /\ AtLock(r, "insert")
    /\ LET s == lockReq[r].seat
       IN  /\ seat_locks' = [seat_locks EXCEPT ![s] = r] /\ RenewRow(s)
           /\ LockTo(r, [lockReq[r] EXCEPT !.pc = "select", !.seat = None, !.locked = @ \union {s}])
    /\ UNCHANGED <<seats, seatLock, unlockReq, sweep, reader, seatCache, failures>>

(* After the loop: broadcast, drop the cached seat list, notify, reply. *)
LockReply(r) ==
    /\ AtLock(r, "select") /\ lockReq[r].todo = {}
    /\ seatCache' = IF lockReq[r].locked # {} THEN None ELSE seatCache
    /\ LockTo(r, [lockReq[r] EXCEPT !.pc = "done"])
    /\ UNCHANGED <<seats, seatLock, seat_locks, expired, unlockReq, sweep, reader, failures>>

-----------------------------------------------------------------------------
(* POST /seats/unlock: any user may name any seat. *)

AtUnlock(q, pc) == unlockReq[q].pc = pc
UnlockTo(q, call) == unlockReq' = [unlockReq EXCEPT ![q] = call]

UnlockCall(q, user, asked) ==
    /\ AtUnlock(q, "idle") /\ UnlockTo(q, [unlockReq[q] EXCEPT !.pc = "release", !.user = user, !.todo = asked])
    /\ UNCHANGED <<seats, seatLock, seat_locks, expired, lockReq, sweep, reader, seatCache, failures>>

UnlockRelease(q, s) ==
    /\ AtUnlock(q, "release") /\ s \in unlockReq[q].todo
    /\ ReleaseLock(s, unlockReq[q].user)
    /\ UnlockTo(q, [unlockReq[q] EXCEPT !.pc = "update", !.seat = s, !.todo = @ \ {s}])
    /\ UNCHANGED <<seats, seat_locks, expired, lockReq, sweep, reader, seatCache, failures>>

UnlockUpdate(q) ==
    /\ AtUnlock(q, "update")
    /\ FreeSeat(unlockReq[q].seat)
    /\ UnlockTo(q, [unlockReq[q] EXCEPT !.pc = "delete"])
    /\ UNCHANGED <<seatLock, seat_locks, expired, lockReq, sweep, reader, seatCache, failures>>

(* DELETE ... WHERE seat_id AND user_id *)
UnlockDelete(q) ==
    /\ AtUnlock(q, "delete")
    /\ LET s == unlockReq[q].seat
           mine == seat_locks[s] # None /\ lockReq[seat_locks[s]].user = unlockReq[q].user
       IN  IF mine THEN DeleteRow(s) ELSE UNCHANGED <<seat_locks, expired>>
    /\ UnlockTo(q, [unlockReq[q] EXCEPT !.seat = None,
            !.pc = IF unlockReq[q].todo = {} THEN "done" ELSE "release"])
    /\ UNCHANGED <<seats, seatLock, lockReq, sweep, reader, seatCache, failures>>

-----------------------------------------------------------------------------
(* POST /seats/release-expired.  Its only caller is the queue worker's timer, *)
(* every minute, at http://localhost: the services of `npm run dev` are      *)
(* there, a container of docker-compose finds nobody and drops the error.    *)

AtSweep(w, pc) == sweep[w].pc = pc
SweepTo(w, call) == sweep' = [sweep EXCEPT ![w] = call]

(* The rows are read once, before the loop.  A row is known by the call it   *)
(* was written for; the code reads that call's user.                         *)
SweepSelect(w) ==
    /\ SweepReached /\ AtSweep(w, "idle") /\ expired # {}
    /\ SweepTo(w, [sweep[w] EXCEPT !.pc = "release",
            !.rows = {[seat |-> s, call |-> seat_locks[s]] : s \in expired}])
    /\ UNCHANGED <<seats, seatLock, seat_locks, expired, lockReq, unlockReq, reader, seatCache, failures>>

SweepRelease(w, row) ==
    /\ AtSweep(w, "release") /\ row \in sweep[w].rows
    /\ ReleaseLock(row.seat, lockReq[row.call].user)
    /\ SweepTo(w, [sweep[w] EXCEPT !.pc = "update", !.row = row, !.rows = @ \ {row}])
    /\ UNCHANGED <<seats, seat_locks, expired, lockReq, unlockReq, reader, seatCache, failures>>

SweepUpdate(w) ==
    /\ AtSweep(w, "update")
    /\ FreeSeat(sweep[w].row.seat)
    /\ SweepTo(w, [sweep[w] EXCEPT !.pc = "delete"])
    /\ UNCHANGED <<seatLock, seat_locks, expired, lockReq, unlockReq, reader, seatCache, failures>>

(* DELETE ... WHERE seat_id: whichever row the seat has by now *)
SweepDelete(w) ==
    /\ AtSweep(w, "delete")
    /\ DeleteRow(sweep[w].row.seat)
    /\ SweepTo(w, [sweep[w] EXCEPT !.row = None,
            !.pc = IF sweep[w].rows = {} THEN "idle" ELSE "release"])
    /\ UNCHANGED <<seats, seatLock, lockReq, unlockReq, reader, seatCache, failures>>

-----------------------------------------------------------------------------
(* GET /events/:id/seats on a cache miss, or with ?refresh *)

ReadQuery(v) ==
    /\ reader[v].pc = "idle"
    /\ reader' = [reader EXCEPT ![v] =
            [pc |-> "fill", view |-> {s \in Seats : seats[s] = "AVAILABLE"}]]
    /\ UNCHANGED <<seats, seatLock, seat_locks, expired, lockReq, unlockReq, sweep, seatCache, failures>>

ReadFill(v) ==
    /\ reader[v].pc = "fill"
    /\ seatCache' = reader[v].view
    /\ reader' = [reader EXCEPT ![v] = [pc |-> "idle", view |-> {}]]
    /\ UNCHANGED <<seats, seatLock, seat_locks, expired, lockReq, unlockReq, sweep, failures>>

-----------------------------------------------------------------------------
(* Time: TTLs of the two kinds of Redis key, and expires_at against NOW().   *)

(* A handler between its read of a seat's state and its last write to it.    *)
LockingSeat(r, s) == lockReq[r].pc \in {"acquire", "update", "insert"} /\ lockReq[r].seat = s
SweepingSeat(w, s) ==
    \/ AtSweep(w, "release") /\ \E row \in sweep[w].rows : row.seat = s
    \/ sweep[w].pc \in {"update", "delete"} /\ (sweep[w].row.seat = s
                                                 \/ \E row \in sweep[w].rows : row.seat = s)

BusySeat(s) ==
    \/ \E r \in LockRequests : LockingSeat(r, s)
    \/ \E w \in Sweeps : SweepingSeat(w, s)

(* With PromptHandlers the TTL does not run out under a handler's hands.     *)
TimePasses(s) == PromptHandlers => ~ BusySeat(s)

LeaseLapses(s) ==
    /\ seatLock[s] # None /\ TimePasses(s)
    /\ seatLock' = [seatLock EXCEPT ![s] = None]
    /\ UNCHANGED <<seats, seat_locks, expired, handlers, seatCache, failures>>

RowExpires(s) ==
    /\ seat_locks[s] # None /\ s \notin expired /\ TimePasses(s)
    /\ seatLock[s] # seat_locks[s]
    /\ expired' = expired \union {s}
    /\ UNCHANGED <<seats, seatLock, seat_locks, handlers, seatCache, failures>>

CacheLapses ==
    /\ seatCache # None
    /\ seatCache' = None
    /\ UNCHANGED <<seats, seatLock, seat_locks, expired, handlers, failures>>

-----------------------------------------------------------------------------
(* Any await may throw, and the process may die there: the handler stops and *)
(* what it wrote stays.  Nothing in the service retries or rolls back.       *)

HandlerDies ==
    /\ failures < MaxFailures
    /\ failures' = failures + 1
    /\ \/ /\ \E r \in LockRequests :
                /\ lockReq[r].pc \in {"select", "acquire", "update", "insert"}
                /\ LockTo(r, [lockReq[r] EXCEPT !.pc = "failed", !.seat = None])
          /\ UNCHANGED <<unlockReq, sweep>>
       \/ /\ \E q \in UnlockRequests :
                /\ unlockReq[q].pc \in {"release", "update", "delete"}
                /\ UnlockTo(q, [unlockReq[q] EXCEPT !.pc = "failed", !.seat = None])
          /\ UNCHANGED <<lockReq, sweep>>
       \/ /\ \E w \in Sweeps :
                /\ ~ AtSweep(w, "idle")
                /\ SweepTo(w, [pc |-> "idle", rows |-> {}, row |-> None])
          /\ UNCHANGED <<lockReq, unlockReq>>
    /\ UNCHANGED <<seats, seatLock, seat_locks, expired, reader, seatCache>>

(* The other half of the contract: the order, payment and ticket writers.    *)
OtherWriters ==
    /\ \E s \in Seats, status \in SaleWrites : Set(s, status)
    /\ UNCHANGED <<seatLock, seat_locks, expired, handlers, seatCache, failures>>

LockStep(r) ==
    \/ \E s \in Seats : LockSelect(r, s)
    \/ LockAcquire(r) \/ LockUpdate(r) \/ LockInsert(r) \/ LockReply(r)
UnlockStep(q) ==
    \/ \E s \in Seats : UnlockRelease(q, s)
    \/ UnlockUpdate(q) \/ UnlockDelete(q)
SweepStep(w) ==
    \/ SweepSelect(w)
    \/ \E row \in Rows : SweepRelease(w, row)
    \/ SweepUpdate(w) \/ SweepDelete(w)

ServiceNext ==
    \/ \E r \in LockRequests, u \in Users, asked \in (SUBSET Seats) \ {{}} : LockCall(r, u, asked)
    \/ \E r \in LockRequests : LockStep(r)
    \/ \E q \in UnlockRequests, u \in Users, asked \in (SUBSET Seats) \ {{}} : UnlockCall(q, u, asked)
    \/ \E q \in UnlockRequests : UnlockStep(q)
    \/ \E w \in Sweeps : SweepStep(w)
    \/ \E v \in Readers : ReadQuery(v) \/ ReadFill(v)
    \/ HandlerDies

Next ==
    \/ ServiceNext
    \/ \E s \in Seats : LeaseLapses(s) \/ RowExpires(s)
    \/ CacheLapses
    \/ OtherWriters

Spec == Init /\ [][Next]_vars

(* A handler that does not die runs on (Node serves every pending promise),  *)
(* and time passes.  The worker's timer never stops, so a sweep that can be  *)
(* reached is called again and again; where the timer's call never arrives   *)
(* (SweepReached = FALSE) no sweep is ever enabled and nothing is promised.  *)
Fairness ==
    /\ \A r \in LockRequests : WF_vars(LockStep(r))
    /\ \A w \in Sweeps : WF_vars(SweepStep(w))
    /\ \A s \in Seats : WF_vars(LeaseLapses(s)) /\ WF_vars(RowExpires(s))

FairSpec == Spec /\ Fairness

-----------------------------------------------------------------------------
(* Properties *)

(* Whatever sweeps, unlocks and stale lock calls do, and in whatever order,  *)
(* a step of the seat service only exchanges AVAILABLE and LOCKED: a seat    *)
(* that was reserved or sold since the handler read it is left alone.        *)
KeepsContract == [][ServiceNext => [SeatHold]_seats]_vars

(* A row that counts as expired is never the row of a running lease: taking  *)
(* over an old row must also renew its expiry, or the sweep would free the   *)
(* seat of a buyer who has just got it.                                      *)
ExpiredRowLapsed == \A s \in expired : seat_locks[s] # None /\ seatLock[s] # seat_locks[s]

(* docs: reservations that expire are released by themselves.  A LOCKED seat *)
(* nobody is working on, its lease gone and its row expired, does not stay   *)
(* locked, although the sweep works from old rows and another call may take  *)
(* the seat in the middle of it.                                             *)
ExpiredLockReleased == \A s \in Seats :
    (/\ seats[s] = "LOCKED" /\ seatLock[s] = None /\ s \in expired
     /\ \A r \in LockRequests : ~ LockingSeat(r, s)) ~> (seats[s] # "LOCKED")

(* docs: reservations that expire are released by themselves.  A seat may    *)
(* not stay LOCKED for ever once no lease is running on it.                  *)
AbandonedSeatReopens ==
    \A s \in Seats : (seats[s] = "LOCKED" /\ seatLock[s] = None) ~> (seats[s] # "LOCKED")
=============================================================================
