---------------------- MODULE SeatServiceMutexProofs ----------------------
(* The Redis lease as a mutex.  POST /seats/lock reads the status, takes the *)
(* lease, updates the status and writes its row in four steps with nothing   *)
(* around them, while unlocks and sweeps delete leases and reopen seats,     *)
(* other services overwrite the status, handlers die and a slow one may lose *)
(* its lease to the TTL.  Here is what the lease guarantees in that world,   *)
(* for any number of buyers, sweeps and seats: a hold whose lease nobody     *)
(* took away is alone on its seat, and the sweep does not disturb it.        *)
EXTENDS SeatServiceProofs, SeatHolds

(* A call between SET NX and its upsert has the lease it took.               *)
WriterHasLease == \A r \in LockRequests, s \in Seats :
    Writing(r, s) /\ Whole(r, s) => seatLock[s] = r

(* A standing hold has its lease; or the lease ran out while nobody was at   *)
(* the seat, and the status keeps every newcomer out from then on.           *)
HolderHasLease == \A h \in LockRequests, s \in Seats : Stands(h, s) =>
    \/ seatLock[s] = h
    \/ seatLock[s] = None /\ \A r \in LockRequests : ~ LockingSeat(r, s)

HoldersKnown == \A s \in Seats : holders[s] \subseteq LockRequests

HeldNotOffered == \A s \in Seats : holders[s] # {} => seats[s] # "AVAILABLE"

OneHolder == \A s \in Seats, h1, h2 \in LockRequests : Stands(h1, s) /\ Stands(h2, s) => h1 = h2

(* A call that has yet to update a seat does not hold it.                    *)
Ahead(r, s) == \/ lockReq[r].pc = "idle" \/ s \in lockReq[r].todo
               \/ lockReq[r].pc \in {"acquire", "update"} /\ lockReq[r].seat = s
HoldsAfterUpdate == \A r \in LockRequests, s \in Seats : Ahead(r, s) => r \notin holders[s]

(* What a sweep has read are rows of calls that are past the seat for good,  *)
(* so the lease that runs there by now, if any, is another call's.           *)
Past(r, s) == lockReq[r].pc # "idle" /\ s \notin lockReq[r].todo /\ ~ LockingSeat(r, s)
Swept(w, row) == row \in sweep[w].rows \/ (AtSweep(w, "update") /\ sweep[w].row = row)
SweptRowsLapsed == \A w \in Sweeps, row \in Rows : Swept(w, row) =>
    Past(row.call, row.seat) /\ seatLock[row.seat] # row.call

HoldInv == /\ HoldersKnown /\ WriterHasLease /\ HolderHasLease /\ HeldNotOffered
           /\ OneHolder /\ HoldsAfterUpdate /\ SweptRowsLapsed

(* Nobody holds, writes or sweeps anything at the start. *)
LEMMA InitHold == HoldsInit => HoldInv
<1>. SUFFICES ASSUME HoldsInit  PROVE HoldInv
  OBVIOUS
<1>1. /\ \A r \in LockRequests : lockReq[r].pc = "idle"
      /\ \A w \in Sweeps : sweep[w].pc = "idle" /\ sweep[w].rows = {}
      /\ \A s \in Seats : holders[s] = {}
  BY DEF HoldsInit, Init
<1>. QED
  BY <1>1 DEF HoldInv, HoldersKnown, WriterHasLease, HolderHasLease, HeldNotOffered, OneHolder, HoldsAfterUpdate,
     SweptRowsLapsed, Swept, Writing, Stands, AtSweep

-----------------------------------------------------------------------------
(* What one step may do to one lock call and to one lease, whoever takes it. *)

Begins(r) == lockReq[r].pc = "idle" /\ lockReq'[r].pc = "select"
Takes(r, s) ==      \* SELECT found the seat AVAILABLE
    /\ lockReq[r].pc = "select" /\ s \in lockReq[r].todo /\ seats[s] = "AVAILABLE"
    /\ lockReq'[r].pc = "acquire" /\ lockReq'[r].seat = s
    /\ lockReq'[r].todo = lockReq[r].todo \ {s}
Acquires(r) ==      \* SET NX succeeded
    /\ lockReq[r].pc = "acquire" /\ lockReq'[r].pc = "update"
    /\ lockReq'[r].seat = lockReq[r].seat /\ lockReq'[r].todo = lockReq[r].todo
    /\ seatLock[lockReq[r].seat] = None /\ seatLock'[lockReq[r].seat] = r
Updates(r) ==
    /\ lockReq[r].pc = "update" /\ lockReq'[r].pc = "insert"
    /\ lockReq'[r].seat = lockReq[r].seat /\ lockReq'[r].todo = lockReq[r].todo
    /\ seatLock' = seatLock
Leaves(r) ==        \* goes on to the next seat, replies or dies
    /\ lockReq[r].pc # "idle" /\ lockReq'[r].pc \in {"select", "done", "failed"}
    /\ lockReq'[r].todo \subseteq lockReq[r].todo

CallMoves(r) == \/ lockReq'[r] = lockReq[r]
                \/ Begins(r) \/ \E s \in Seats : Takes(r, s)
                \/ Acquires(r) \/ Updates(r) \/ Leaves(r)

(* A call's own awaits are the only steps of its record.                     *)
LEMMA LockStepMoves ==
    ASSUME Inv, NEW r \in LockRequests, NEW x \in LockRequests,
           \/ \E u \in Users, asked \in (SUBSET Seats) \ {{}} : LockCall(r, u, asked)
           \/ LockStep(r)
    PROVE  CallMoves(x)
<1>. TypeOK /\ CallsKnown
  BY DEF Inv
<1>1. ASSUME NEW u \in Users, NEW asked \in (SUBSET Seats) \ {{}}, LockCall(r, u, asked)
      PROVE  Others(r) /\ Begins(r)
  BY <1>1, LockCallEffect DEF Begins
<1>2. ASSUME NEW s \in Seats, LockSelect(r, s)  PROVE Others(r) /\ (Takes(r, s) \/ Leaves(r))
  BY <1>2, LockSelectEffect DEF Takes, Leaves
<1>3. ASSUME LockAcquire(r)  PROVE Others(r) /\ (Acquires(r) \/ Leaves(r))
  <2>1. /\ Others(r) /\ lockReq[r].pc = "acquire"
        /\ lockReq'[r].todo = lockReq[r].todo
        /\ \/ /\ lockReq'[r].pc = "update" /\ lockReq'[r].seat = lockReq[r].seat
              /\ seatLock[lockReq[r].seat] = None
              /\ seatLock' = [seatLock EXCEPT ![lockReq[r].seat] = r]
           \/ lockReq'[r].pc = "select"
    BY <1>3, LockAcquireEffect
  <2>2. lockReq[r].seat \in Seats
    BY <2>1 DEF CallsKnown
  <2>3. CASE lockReq'[r].pc = "select"
    BY <2>1, <2>3 DEF Leaves
  <2>4. CASE /\ lockReq'[r].pc = "update" /\ lockReq'[r].seat = lockReq[r].seat
             /\ seatLock[lockReq[r].seat] = None
             /\ seatLock' = [seatLock EXCEPT ![lockReq[r].seat] = r]
    <3>1. seatLock'[lockReq[r].seat] = r
      BY <2>2, <2>4 DEF TypeOK
    <3>. QED BY <2>1, <2>4, <3>1 DEF Acquires
  <2>. QED BY <2>1, <2>3, <2>4
<1>4. ASSUME LockUpdate(r)  PROVE Others(r) /\ Updates(r)
  <2>1. seatLock' = seatLock
    BY <1>4 DEF LockUpdate
  <2>. QED BY <1>4, <2>1, LockUpdateEffect DEF Updates
<1>5. ASSUME LockInsert(r)  PROVE Others(r) /\ Leaves(r)
  <2>1. lockReq[r].seat \in Seats
    BY <1>5 DEF LockInsert, AtLock, CallsKnown
  <2>. QED BY <1>5, <2>1, LockInsertEffect DEF Leaves
<1>6. ASSUME LockReply(r)  PROVE Others(r) /\ Leaves(r)
  BY <1>6, LockReplyEffect DEF Leaves
<1>7. Others(r) /\ (Begins(r) \/ (\E s \in Seats : Takes(r, s)) \/ Acquires(r) \/ Updates(r) \/ Leaves(r))
  BY <1>1, <1>2, <1>3, <1>4, <1>5, <1>6 DEF LockStep
<1>. QED BY <1>7 DEF CallMoves, Others

LEMMA CallStep == ASSUME Inv, Next, NEW x \in LockRequests  PROVE CallMoves(x)
<1>. TypeOK
  BY DEF Inv
<1>1. ASSUME HandlerDies  PROVE CallMoves(x)
  <2>1. CASE lockReq' = lockReq
    BY <2>1 DEF CallMoves
  <2>2. ASSUME NEW r \in LockRequests, lockReq[r].pc \in {"select", "acquire", "update", "insert"},
               LockTo(r, [lockReq[r] EXCEPT !.pc = "failed", !.seat = None])
        PROVE  CallMoves(x)
    <3>. DEFINE call == [lockReq[r] EXCEPT !.pc = "failed", !.seat = None]
    <3>1. lockReq[r] \in LockCalls
      BY DEF TypeOK
    <3>2. call \in LockCalls /\ call.pc = "failed" /\ call.todo = lockReq[r].todo
      BY <3>1 DEF LockCalls
    <3>3. LockTo(r, call)
      BY <2>2
    <3>. HIDE DEF call
    <3>4. Others(r) /\ lockReq'[r] = call
      BY <3>2, <3>3, LockToOne DEF Others
    <3>5. Leaves(r)
      BY <2>2, <3>2, <3>4 DEF Leaves
    <3>. QED BY <3>4, <3>5 DEF CallMoves, Others
  <2>. QED BY <1>1, <2>1, <2>2 DEF HandlerDies
<1>2. CASE \/ \E q \in UnlockRequests, u \in Users, asked \in (SUBSET Seats) \ {{}} : UnlockCall(q, u, asked)
           \/ \E q \in UnlockRequests : UnlockStep(q)
           \/ \E w \in Sweeps : SweepStep(w)
  <2>1. lockReq' = lockReq
    BY <1>2 DEF UnlockCall, UnlockStep, UnlockRelease, UnlockUpdate, UnlockDelete,
       SweepStep, SweepSelect, SweepRelease, SweepUpdate, SweepDelete
  <2>. QED BY <2>1 DEF CallMoves
<1>3. CASE \/ \E v \in Readers : ReadQuery(v) \/ ReadFill(v)
           \/ \E s \in Seats : LeaseLapses(s) \/ RowExpires(s)
           \/ CacheLapses \/ OtherWriters
  <2>1. lockReq' = lockReq
    BY <1>3 DEF ReadQuery, ReadFill, LeaseLapses, RowExpires, CacheLapses, OtherWriters, handlers
  <2>. QED BY <2>1 DEF CallMoves
<1>. QED BY <1>1, <1>2, <1>3, LockStepMoves DEF Next, ServiceNext

(* A lease starts by the SET NX of its call, on a key that was free, and     *)
(* ends by a lapse or by the DEL of a handler.                               *)
Starts(r, s) == Acquires(r) /\ lockReq[r].seat = s /\ seatLock'[s] = r
LeaseMoves(s) == \/ seatLock'[s] = seatLock[s]
                 \/ Ended(s)
                 \/ \E r \in LockRequests : Starts(r, s)

LEMMA LeaseStep == ASSUME Inv, Next, NEW s \in Seats  PROVE LeaseMoves(s)
<1>. TypeOK /\ CallsKnown
  BY DEF Inv
<1>0. seatLock \in [Seats -> LockRequests \union {None}]
  BY DEF TypeOK
<1>1. CASE seatLock' = seatLock
  BY <1>1 DEF LeaseMoves
<1>2. CASE seatLock'[s] = None
  BY <1>0, <1>2 DEF LeaseMoves, Ended
<1>3. ASSUME NEW x \in Seats, NEW u, ReleaseLock(x, u)  PROVE LeaseMoves(s)
  BY <1>0, <1>1, <1>2, <1>3 DEF ReleaseLock, LeaseMoves, Ended
<1>4. ASSUME NEW r \in LockRequests, LockAcquire(r)  PROVE LeaseMoves(s)
  <2>1. /\ lockReq[r].pc = "acquire"
        /\ lockReq'[r].todo = lockReq[r].todo
        /\ \/ /\ lockReq'[r].pc = "update" /\ lockReq'[r].seat = lockReq[r].seat
              /\ seatLock[lockReq[r].seat] = None
              /\ seatLock' = [seatLock EXCEPT ![lockReq[r].seat] = r]
           \/ seatLock' = seatLock
    BY <1>4, LockAcquireEffect
  <2>2. lockReq[r].seat \in Seats
    BY <2>1 DEF CallsKnown
  <2>3. CASE /\ lockReq'[r].pc = "update" /\ lockReq'[r].seat = lockReq[r].seat
             /\ seatLock[lockReq[r].seat] = None
             /\ seatLock' = [seatLock EXCEPT ![lockReq[r].seat] = r]
    <3>1. seatLock'[lockReq[r].seat] = r /\ (lockReq[r].seat # s => seatLock'[s] = seatLock[s])
      BY <1>0, <2>2, <2>3
    <3>2. Acquires(r)
      BY <2>1, <2>3, <3>1 DEF Acquires
    <3>. QED BY <3>1, <3>2 DEF LeaseMoves, Starts
  <2>. QED BY <1>1, <2>1, <2>3
<1>5. ASSUME NEW r \in LockRequests, LockStep(r), ~ LockAcquire(r)  PROVE LeaseMoves(s)
  BY <1>1, <1>5 DEF LockStep, LockSelect, LockUpdate, LockInsert, LockReply
<1>6. ASSUME NEW q \in UnlockRequests, UnlockStep(q)  PROVE LeaseMoves(s)
  BY <1>1, <1>3, <1>6 DEF UnlockStep, UnlockRelease, UnlockUpdate, UnlockDelete
<1>7. ASSUME NEW w \in Sweeps, SweepStep(w)  PROVE LeaseMoves(s)
  <2>1. ASSUME NEW row \in Rows, SweepRelease(w, row)  PROVE LeaseMoves(s)
    BY <1>3, <2>1 DEF SweepRelease, Rows
  <2>. QED BY <1>1, <1>7, <2>1 DEF SweepStep, SweepSelect, SweepUpdate, SweepDelete
<1>8. ASSUME NEW x \in Seats, LeaseLapses(x)  PROVE LeaseMoves(s)
  BY <1>0, <1>8 DEF LeaseLapses, LeaseMoves, Ended
<1>9. CASE \/ \E r \in LockRequests, u \in Users, asked \in (SUBSET Seats) \ {{}} : LockCall(r, u, asked)
           \/ \E q \in UnlockRequests, u \in Users, asked \in (SUBSET Seats) \ {{}} : UnlockCall(q, u, asked)
           \/ \E v \in Readers : ReadQuery(v) \/ ReadFill(v)
           \/ HandlerDies
           \/ \E x \in Seats : RowExpires(x)
           \/ CacheLapses \/ OtherWriters
  BY <1>1, <1>9 DEF LockCall, UnlockCall, ReadQuery, ReadFill, HandlerDies, RowExpires, CacheLapses,
     OtherWriters
<1>. QED BY <1>4, <1>5, <1>6, <1>7, <1>8, <1>9 DEF Next, ServiceNext

-----------------------------------------------------------------------------
(* The parts of HoldInv, one lemma each.                                     *)

(* A lease that ended and was not cut short ended with nobody at the seat.   *)
LEMMA EndsInTime ==
    ASSUME Record, NEW s \in Seats, NEW r, Ended(s), seatLock[s] = r, Whole(r, s)'
    PROVE  lockReq' = lockReq /\ \A x \in LockRequests : ~ LockingSeat(x, s)
BY DEF Record, InTime, Whole, handlers, BusySeat

LEMMA StaysWhole == ASSUME Record, NEW r, NEW s, Whole(r, s)'  PROVE Whole(r, s)
BY DEF Record, Whole

(* Who is new among the holders has just taken the step Updates.             *)
LEMMA NewHolder ==
    ASSUME Inv, Next, Record, NEW s \in Seats, NEW r \in LockRequests, r \in holders'[s], r \notin holders[s]
    PROVE  Updates(r) /\ lockReq[r].seat = s
<1>1. Locks(r, s)
  BY DEF Record
<1>2. CallMoves(r)
  BY CallStep
<1>. QED BY <1>1, <1>2 DEF Locks, AtLock, CallMoves, Begins, Takes, Acquires, Leaves

LEMMA WritersKept == ASSUME Inv, HoldInv, Next, Record  PROVE WriterHasLease'
<1>. SUFFICES ASSUME NEW r \in LockRequests, NEW s \in Seats, Writing(r, s)', Whole(r, s)'
              PROVE  seatLock'[s] = r
  BY DEF WriterHasLease
<1>1. CallMoves(r) /\ LeaseMoves(s) /\ Whole(r, s)
  BY CallStep, LeaseStep, StaysWhole
<1>2. CASE Acquires(r)
  BY <1>2 DEF Acquires, Writing
<1>3. CASE ~ Acquires(r)
  <2>1. Writing(r, s)
    BY <1>1, <1>3 DEF CallMoves, Begins, Takes, Updates, Leaves, Writing
  <2>2. seatLock[s] = r /\ LockingSeat(r, s)
    BY <1>1, <2>1 DEF HoldInv, WriterHasLease, Writing, LockingSeat
  <2>3. ~ Ended(s)
    BY <2>2, EndsInTime
  <2>4. \A x \in LockRequests : ~ Starts(x, s)
    BY <2>2, SeatServiceAssumption DEF Starts, Acquires
  <2>. QED BY <1>1, <2>2, <2>3, <2>4 DEF LeaseMoves
<1>. QED BY <1>2, <1>3

LEMMA HoldersKept == ASSUME Inv, HoldInv, Next, Record  PROVE HolderHasLease'
<1>. SUFFICES ASSUME NEW h \in LockRequests, NEW s \in Seats, Stands(h, s)'
              PROVE  \/ seatLock'[s] = h
                     \/ seatLock'[s] = None /\ \A r \in LockRequests : ~ LockingSeat(r, s)'
  BY DEF HolderHasLease
<1>1. h \in holders'[s] /\ Whole(h, s)' /\ Whole(h, s)
  BY StaysWhole DEF Stands
<1>2. CASE h \notin holders[s]
  <2>1. Updates(h) /\ lockReq[h].seat = s
    BY <1>1, <1>2, NewHolder
  <2>2. Writing(h, s) /\ seatLock' = seatLock
    BY <2>1 DEF Updates, Writing
  <2>. QED BY <1>1, <2>2 DEF HoldInv, WriterHasLease
<1>3. CASE h \in holders[s] /\ seatLock[s] = h
  <2>1. \A x \in LockRequests : ~ Starts(x, s)
    BY <1>3, SeatServiceAssumption DEF Starts, Acquires
  <2>2. CASE Ended(s)
    <3>1. seatLock'[s] = None /\ lockReq' = lockReq /\ \A x \in LockRequests : ~ LockingSeat(x, s)
      BY <1>1, <1>3, <2>2, EndsInTime DEF Ended
    <3>. QED BY <3>1 DEF LockingSeat
  <2>. QED BY <1>3, <2>1, <2>2, LeaseStep DEF LeaseMoves
<1>4. CASE h \in holders[s] /\ seatLock[s] = None /\ \A r \in LockRequests : ~ LockingSeat(r, s)
  <2>1. seats[s] # "AVAILABLE"
    BY <1>4 DEF HoldInv, HeldNotOffered
  <2>2. ASSUME NEW r \in LockRequests  PROVE ~ LockingSeat(r, s)'
    <3>1. CallMoves(r) /\ ~ LockingSeat(r, s)
      BY <1>4, CallStep
    <3>. QED BY <2>1, <3>1 DEF CallMoves, Begins, Takes, Acquires, Updates, Leaves, LockingSeat
  <2>3. \A x \in LockRequests : ~ Starts(x, s)
    BY <1>4 DEF Starts, Acquires, LockingSeat
  <2>. QED BY <1>4, <2>2, <2>3, LeaseStep DEF LeaseMoves, Ended
<1>. QED BY <1>1, <1>2, <1>3, <1>4 DEF HoldInv, HolderHasLease, Stands

(* Why no UPDATE joins a hold: the lease has room for one of the two.        *)
LEMMA UpdatesAlone ==
    ASSUME HoldInv, NEW r \in LockRequests, NEW s \in Seats, lockReq[r].pc = "update",
           lockReq[r].seat = s, Whole(r, s), NEW h \in LockRequests
    PROVE  ~ Stands(h, s)
<1>1. seatLock[s] = r /\ LockingSeat(r, s)
  BY DEF HoldInv, WriterHasLease, Writing, LockingSeat
<1>2. r \notin holders[s]
  BY DEF HoldInv, HoldsAfterUpdate, Ahead
<1>. QED BY <1>1, <1>2 DEF HoldInv, HolderHasLease, Stands

LEMMA OneHolderKept == ASSUME Inv, HoldInv, Next, Record  PROVE OneHolder'
<1>. SUFFICES ASSUME NEW s \in Seats, NEW h1 \in LockRequests, NEW h2 \in LockRequests,
                     Stands(h1, s)', Stands(h2, s)'
              PROVE  h1 = h2
  BY DEF OneHolder
<1>1. ASSUME NEW h \in LockRequests, Stands(h, s)'
      PROVE  \/ Stands(h, s)
             \/ /\ lockReq[h].pc = "update" /\ lockReq[h].seat = s /\ Whole(h, s)
                /\ \A x \in LockRequests : ~ Stands(x, s)
  <2>1. h \in holders'[s] /\ Whole(h, s)
    BY <1>1, StaysWhole DEF Stands
  <2>2. CASE h \notin holders[s]
    <3>1. lockReq[h].pc = "update" /\ lockReq[h].seat = s
      BY <2>1, <2>2, NewHolder DEF Updates
    <3>. QED BY <2>1, <3>1, UpdatesAlone
  <2>. QED BY <2>1, <2>2 DEF Stands
<1>2. CASE Stands(h1, s) /\ Stands(h2, s)
  BY <1>2 DEF HoldInv, OneHolder
<1>3. CASE ~ Stands(h1, s) /\ ~ Stands(h2, s)
  <2>1. Writing(h1, s) /\ Whole(h1, s) /\ Writing(h2, s) /\ Whole(h2, s)
    BY <1>1, <1>3 DEF Writing
  <2>. QED BY <2>1 DEF HoldInv, WriterHasLease
<1>. QED BY <1>1, <1>2, <1>3

LEMMA AheadKept == ASSUME Inv, HoldInv, Next, Record  PROVE HoldsAfterUpdate'
<1>. SUFFICES ASSUME NEW r \in LockRequests, NEW s \in Seats, Ahead(r, s)', r \in holders'[s]
              PROVE  FALSE
  BY DEF HoldsAfterUpdate
<1>0. SeatInHand
  BY DEF Inv
<1>1. CallMoves(r)
  BY CallStep
<1>2. CASE r \notin holders[s]
  <2>1. Updates(r) /\ lockReq[r].seat = s
    BY <1>2, NewHolder
  <2>. QED BY <1>0, <2>1 DEF Updates, Ahead, SeatInHand
<1>3. CASE r \in holders[s]
  <2>1. ~ Ahead(r, s)
    BY <1>3 DEF HoldInv, HoldsAfterUpdate
  <2>. QED BY <1>1, <2>1 DEF CallMoves, Begins, Takes, Acquires, Updates, Leaves, Ahead
<1>. QED BY <1>2, <1>3

(* A call never comes back to a seat it is past, and takes no lease there.   *)
LEMMA PastKept ==
    ASSUME Inv, Next, NEW r \in LockRequests, NEW s \in Seats, Past(r, s), seatLock[s] # r
    PROVE  Past(r, s)' /\ seatLock'[s] # r
<1>1. CallMoves(r) /\ LeaseMoves(s)
  BY CallStep, LeaseStep
<1>2. Past(r, s)'
  BY <1>1 DEF CallMoves, Begins, Takes, Acquires, Updates, Leaves, Past, LockingSeat
<1>3. \A x \in LockRequests : Starts(x, s) => x # r
  BY DEF Starts, Acquires, Past, LockingSeat
<1>. QED BY <1>1, <1>2, <1>3, SeatServiceAssumption DEF LeaseMoves, Ended, Starts

(* A sweep reads the rows of lapsed leases only, and works them off.         *)
LEMMA SweptStep ==
    ASSUME Inv, Next, NEW w \in Sweeps, NEW row \in Rows, Swept(w, row)'
    PROVE  \/ Swept(w, row)
           \/ Past(row.call, row.seat) /\ seatLock[row.seat] # row.call
<1>. TypeOK /\ RowWritten /\ ExpiredRowLapsed
  BY DEF Inv
<1>0. sweep[w] \in SweepCalls
  BY DEF TypeOK
<1>1. CASE sweep'[w] = sweep[w]
  BY <1>1 DEF Swept, AtSweep
<1>2. ASSUME NEW x \in Sweeps, NEW call \in SweepCalls, SweepTo(x, call), x # w  PROVE sweep'[w] = sweep[w]
  BY <1>2, SweepToOne
<1>3. ASSUME NEW call \in SweepCalls, SweepTo(w, call)  PROVE sweep'[w] = call
  BY <1>3, SweepToOne
<1>4. ASSUME NEW x \in Sweeps, SweepStep(x)  PROVE sweep'[w] = sweep[w] \/ x = w
  BY <1>4 DEF SweepStep, SweepSelect, SweepRelease, SweepUpdate, SweepDelete, SweepTo, TypeOK
<1>5. CASE SweepSelect(w)
  <2>. DEFINE rows == {[seat |-> s, call |-> seat_locks[s]] : s \in expired}
              call == [sweep[w] EXCEPT !.pc = "release", !.rows = rows]
  <2>1. \A s \in expired : [seat |-> s, call |-> seat_locks[s]] \in Rows
    BY DEF TypeOK, ExpiredRowLapsed, Rows
  <2>2. rows \subseteq Rows
    BY <2>1
  <2>3. call \in SweepCalls /\ call.pc = "release" /\ call.rows = rows
    BY <1>0, <2>2 DEF SweepCalls
  <2>4. SweepTo(w, call)
    BY <1>5 DEF SweepSelect
  <2>. HIDE DEF call
  <2>5. row \in rows
    BY <1>3, <2>3, <2>4 DEF Swept, AtSweep
  <2>6. PICK s \in expired : row = [seat |-> s, call |-> seat_locks[s]]
    BY <2>5
  <2>7. row.seat = s /\ row.call = seat_locks[s] /\ s \in Seats
    BY <2>6 DEF TypeOK
  <2>. QED BY <2>7 DEF RowWritten, ExpiredRowLapsed, Past
<1>6. ASSUME NEW one \in Rows, SweepRelease(w, one)  PROVE Swept(w, row)
  <2>. DEFINE call == [sweep[w] EXCEPT !.pc = "update", !.row = one, !.rows = @ \ {one}]
  <2>1. call \in SweepCalls /\ call.row = one /\ call.rows = sweep[w].rows \ {one}
    BY <1>0 DEF SweepCalls
  <2>2. SweepTo(w, call) /\ one \in sweep[w].rows
    BY <1>6 DEF SweepRelease
  <2>. HIDE DEF call
  <2>. QED BY <1>3, <2>1, <2>2 DEF Swept, AtSweep
<1>7. ASSUME SweepUpdate(w) \/ SweepDelete(w)  PROVE Swept(w, row)
  <2>. DEFINE freed == [sweep[w] EXCEPT !.pc = "delete"]
              ended == [sweep[w] EXCEPT !.row = None,
                            !.pc = IF sweep[w].rows = {} THEN "idle" ELSE "release"]
  <2>0. /\ freed \in SweepCalls /\ freed.pc = "delete" /\ freed.rows = sweep[w].rows
        /\ ended \in SweepCalls /\ ended.pc # "update" /\ ended.rows = sweep[w].rows
    BY <1>0 DEF SweepCalls
  <2>2. SweepTo(w, freed) \/ SweepTo(w, ended)
    BY <1>7 DEF SweepUpdate, SweepDelete
  <2>. HIDE DEF freed, ended
  <2>1. sweep'[w].rows = sweep[w].rows /\ sweep'[w].pc # "update"
    BY <1>3, <2>0, <2>2
  <2>. QED BY <2>1 DEF Swept, AtSweep
<1>8. ASSUME HandlerDies  PROVE Swept(w, row)
  <2>1. CASE sweep' = sweep
    BY <1>1, <2>1 DEF Swept, AtSweep
  <2>2. ASSUME NEW x \in Sweeps, SweepTo(x, [pc |-> "idle", rows |-> {}, row |-> None])
        PROVE  Swept(w, row)
    <3>. DEFINE call == [pc |-> "idle", rows |-> {}, row |-> None]
    <3>1. call \in SweepCalls /\ call.pc = "idle" /\ call.rows = {} /\ SweepTo(x, call)
      BY <2>2 DEF SweepCalls
    <3>. HIDE DEF call
    <3>2. sweep'[w] = sweep[w] \/ (sweep'[w].pc = "idle" /\ sweep'[w].rows = {})
      BY <1>2, <1>3, <3>1
    <3>. QED BY <3>2 DEF Swept, AtSweep
  <2>. QED BY <1>8, <2>1, <2>2 DEF HandlerDies
<1>9. CASE ~ (\E x \in Sweeps : SweepStep(x)) /\ ~ HandlerDies
  <2>1. sweep' = sweep
    <3>1. ASSUME NEW r \in LockRequests, LockStep(r)  PROVE sweep' = sweep
      BY <3>1 DEF LockStep, LockSelect, LockAcquire, LockUpdate, LockInsert, LockReply
    <3>2. ASSUME NEW q \in UnlockRequests, UnlockStep(q)  PROVE sweep' = sweep
      BY <3>2 DEF UnlockStep, UnlockRelease, UnlockUpdate, UnlockDelete
    <3>. QED BY <1>9, <3>1, <3>2 DEF Next, ServiceNext, LockCall, UnlockCall, ReadQuery, ReadFill,
             LeaseLapses, RowExpires, CacheLapses, OtherWriters, handlers
  <2>. QED BY <1>1, <2>1
<1>. QED BY <1>1, <1>4, <1>5, <1>6, <1>7, <1>8, <1>9 DEF SweepStep

(* Every step of the service and its world keeps the invariant. *)
LEMMA HoldStep == Inv /\ HoldInv /\ [HoldsNext]_holdVars => HoldInv'
<1>1. ASSUME Inv, HoldInv, Next, Record  PROVE HoldInv'
  <2>1. HeldNotOffered' /\ HoldersKnown'
    BY <1>1 DEF Record, HoldInv, HeldNotOffered, HoldersKnown
  <2>2. SweptRowsLapsed'
    <3>. SUFFICES ASSUME NEW w \in Sweeps, NEW row \in Rows, Swept(w, row)'
                  PROVE  Past(row.call, row.seat)' /\ seatLock'[row.seat] # row.call
      BY DEF SweptRowsLapsed
    <3>1. Past(row.call, row.seat) /\ seatLock[row.seat] # row.call
      BY <1>1, SweptStep DEF HoldInv, SweptRowsLapsed
    <3>2. row.call \in LockRequests /\ row.seat \in Seats
      BY DEF Rows
    <3>. QED BY <1>1, <3>1, <3>2, PastKept
  <2>. QED BY <1>1, <2>1, <2>2, WritersKept, HoldersKept, OneHolderKept, AheadKept DEF HoldInv
<1>2. ASSUME HoldInv, UNCHANGED holdVars  PROVE HoldInv'
  BY <1>2 DEF holdVars, vars, handlers, HoldInv, HoldersKnown, WriterHasLease, HolderHasLease,
     HeldNotOffered, OneHolder, HoldsAfterUpdate, SweptRowsLapsed, Writing, Whole, Stands, LockingSeat, Ahead, Past,
     Swept, AtSweep
<1>. QED BY <1>1, <1>2 DEF HoldsNext

LEMMA HoldsSafe == HoldsSpec => [](Inv /\ HoldInv)
<1>1. HoldsInit => Inv /\ HoldInv
  BY InitInv, InitHold DEF HoldsInit
<1>2. [HoldsNext]_holdVars => [Next]_vars
  BY DEF HoldsNext, holdVars
<1>3. Inv /\ HoldInv /\ [HoldsNext]_holdVars => (Inv /\ HoldInv)'
  BY <1>2, InvStep, HoldStep
<1>. QED BY <1>1, <1>3, PTL DEF HoldsSpec

-----------------------------------------------------------------------------
(* Between SET NX and the upsert of seat_locks a seat has one writer among   *)
(* those whose lease nobody took from them, however many buyers passed the   *)
(* SELECT of its status and whatever unlocks, sweeps and deaths come between.*)
THEOREM LeaseIsMutex == HoldsSpec => []OneLocker
<1>1. HoldInv => OneLocker
  BY DEF HoldInv, WriterHasLease, OneLocker
<1>. QED BY HoldsSafe, <1>1, PTL

(* The sweep, which works from rows it read before, never deletes the lease  *)
(* or reopens the seat of a buyer who has got it since, as long as the hold  *)
(* it came to end stands.                                                    *)
THEOREM SweepSpares == HoldsSpec => SweepSparesLease
<1>1. Inv /\ HoldInv =>
        [\A w \in Sweeps, row \in Rows :
            /\ SweepRelease(w, row) \/ (SweepUpdate(w) /\ sweep[w].row = row)
            /\ Stands(row.call, row.seat)
            => /\ seatLock[row.seat] = None
               /\ \A h \in holders[row.seat] : Stands(h, row.seat) => h = row.call]_holdVars
  <2>. SUFFICES ASSUME Inv, HoldInv, NEW w \in Sweeps, NEW row \in Rows,
                       SweepRelease(w, row) \/ (SweepUpdate(w) /\ sweep[w].row = row),
                       Stands(row.call, row.seat)
                PROVE  /\ seatLock[row.seat] = None
                       /\ \A h \in holders[row.seat] : Stands(h, row.seat) => h = row.call
    OBVIOUS
  <2>1. row.call \in LockRequests /\ row.seat \in Seats
    BY DEF Rows
  <2>2. Swept(w, row)
    BY DEF Swept, SweepRelease, SweepUpdate
  <2>3. seatLock[row.seat] # row.call
    BY <2>2 DEF HoldInv, SweptRowsLapsed
  <2>4. seatLock[row.seat] = None
    BY <2>1, <2>3 DEF HoldInv, HolderHasLease
  <2>5. holders[row.seat] \subseteq LockRequests
    BY <2>1 DEF HoldInv, HoldersKnown
  <2>. QED BY <2>1, <2>4, <2>5 DEF HoldInv, OneHolder
<1>. QED BY HoldsSafe, <1>1, PTL DEF SweepSparesLease

(* The UPDATE of a lock call, whose row count is ignored, never joins a hold *)
(* that stands, unless the caller's own lease was taken under it.            *)
THEOREM NoLockJoins == HoldsSpec => NeverJoinsHold
<1>1. Inv /\ HoldInv =>
        [\A r \in LockRequests :
            LET s == lockReq[r].seat
            IN  LockUpdate(r) /\ Whole(r, s) => \A h \in holders[s] : ~ Stands(h, s)]_holdVars
  <2>. SUFFICES ASSUME Inv, HoldInv, NEW r \in LockRequests, LockUpdate(r), Whole(r, lockReq[r].seat),
                       NEW h \in holders[lockReq[r].seat]
                PROVE  ~ Stands(h, lockReq[r].seat)
    OBVIOUS
  <2>1. lockReq[r].pc = "update" /\ lockReq[r].seat \in Seats
    BY DEF LockUpdate, AtLock, Inv, CallsKnown
  <2>2. h \in LockRequests
    BY <2>1 DEF HoldInv, HoldersKnown
  <2>. QED BY <2>1, <2>2, UpdatesAlone
<1>. QED BY HoldsSafe, <1>1, PTL DEF NeverJoinsHold
=============================================================================
