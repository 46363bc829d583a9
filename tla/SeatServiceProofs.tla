------------------------- MODULE SeatServiceProofs -------------------------
(* The seat service for every set of calls, seats and users.                 *)
EXTENDS SeatService, TLAPS

(* A lock call that has begun knows its user, and its seat where it has one. *)
CallsKnown == \A r \in LockRequests :
    /\ lockReq[r].pc # "idle" => lockReq[r].user \in Users
    /\ lockReq[r].pc \in {"acquire", "update", "insert"} => lockReq[r].seat \in Seats

(* A row is the work of a call that is past its seat for good, so no lease   *)
(* will ever again be the lease that row was written for.                    *)
RowWritten == \A s \in Seats : seat_locks[s] # None =>
    LET r == seat_locks[s]
    IN  /\ lockReq[r].pc # "idle"
        /\ s \notin lockReq[r].todo
        /\ ~ LockingSeat(r, s)

(* Between SELECT and the next SELECT a seat is in hand, not on the list.    *)
SeatInHand == \A r \in LockRequests :
    /\ lockReq[r].pc \in {"acquire", "update", "insert"} => lockReq[r].seat \notin lockReq[r].todo

SweepKnown == \A w \in Sweeps : sweep[w].pc \in {"update", "delete"} => sweep[w].row \in Rows

UnlockKnown == \A q \in UnlockRequests :
    unlockReq[q].pc \in {"update", "delete"} => unlockReq[q].seat \in Seats

Inv == TypeOK /\ CallsKnown /\ RowWritten /\ SeatInHand /\ SweepKnown /\ UnlockKnown /\ ExpiredRowLapsed

USE SeatServiceAssumption

(* The initial state has neither rows nor calls. *)
LEMMA InitInv == Init => Inv
<1>. SUFFICES ASSUME Init  PROVE Inv
  OBVIOUS
<1>0. /\ [pc |-> "idle", user |-> None, todo |-> {}, seat |-> None, locked |-> {}] \in LockCalls
      /\ [pc |-> "idle", user |-> None, todo |-> {}, seat |-> None] \in UnlockCalls
      /\ [pc |-> "idle", rows |-> {}, row |-> None] \in SweepCalls
  BY DEF LockCalls, UnlockCalls, SweepCalls
<1>1. /\ lockReq \in [LockRequests -> LockCalls]
      /\ unlockReq \in [UnlockRequests -> UnlockCalls]
      /\ sweep \in [Sweeps -> SweepCalls]
  BY <1>0 DEF Init
<1>2. /\ reader \in [Readers -> [pc : {"idle", "fill"}, view : SUBSET Seats]]
      /\ seats \in [Seats -> SeatStatus]
  BY DEF Init, SeatStatus
<1>3. failures \in 0 .. MaxFailures
  BY SeatServiceAssumption DEF Init
<1>4. TypeOK
  BY <1>1, <1>2, <1>3 DEF Init, TypeOK
<1>5. CallsKnown /\ RowWritten /\ SeatInHand /\ SweepKnown /\ UnlockKnown /\ ExpiredRowLapsed
  BY DEF Init, CallsKnown, RowWritten, SeatInHand, SweepKnown, UnlockKnown, ExpiredRowLapsed
<1>. QED BY <1>4, <1>5 DEF Inv

(* What replacing one call's record does to the table of calls. *)
LEMMA LockToOne ==
    ASSUME TypeOK, NEW r \in LockRequests, NEW call \in LockCalls, LockTo(r, call)
    PROVE  /\ lockReq' \in [LockRequests -> LockCalls]
           /\ lockReq'[r] = call
           /\ \A x \in LockRequests : x # r => lockReq'[x] = lockReq[x]
BY DEF TypeOK, LockTo

LEMMA UnlockToOne ==
    ASSUME TypeOK, NEW q \in UnlockRequests, NEW call \in UnlockCalls, UnlockTo(q, call)
    PROVE  /\ unlockReq' \in [UnlockRequests -> UnlockCalls]
           /\ unlockReq'[q] = call
           /\ \A x \in UnlockRequests : x # q => unlockReq'[x] = unlockReq[x]
BY DEF TypeOK, UnlockTo

LEMMA SweepToOne ==
    ASSUME TypeOK, NEW w \in Sweeps, NEW call \in SweepCalls, SweepTo(w, call)
    PROVE  /\ sweep' \in [Sweeps -> SweepCalls]
           /\ sweep'[w] = call
           /\ \A x \in Sweeps : x # w => sweep'[x] = sweep[x]
BY DEF TypeOK, SweepTo

-----------------------------------------------------------------------------
(* What each await of POST /seats/lock does to the record of its own call.   *)

Others(r) == \A x \in LockRequests : x # r => lockReq'[x] = lockReq[x]

LEMMA LockCallEffect ==
    ASSUME TypeOK, NEW r \in LockRequests, NEW u \in Users, NEW asked \in (SUBSET Seats) \ {{}},
           LockCall(r, u, asked)
    PROVE  /\ lockReq' \in [LockRequests -> LockCalls] /\ Others(r)
           /\ lockReq[r].pc = "idle" /\ lockReq'[r].pc = "select"
           /\ lockReq'[r].user = u
<1>. DEFINE call == [lockReq[r] EXCEPT !.pc = "select", !.user = u, !.todo = asked]
<1>1. lockReq[r] \in LockCalls
  BY DEF TypeOK
<1>2. call \in LockCalls /\ call.pc = "select" /\ call.user = u
  BY <1>1 DEF LockCalls
<1>3. LockTo(r, call) /\ lockReq[r].pc = "idle"
  BY DEF LockCall, AtLock
<1>. HIDE DEF call
<1>. QED BY <1>2, <1>3, LockToOne DEF Others

LEMMA LockSelectEffect ==
    ASSUME TypeOK, NEW r \in LockRequests, NEW s \in Seats, LockSelect(r, s)
    PROVE  /\ lockReq' \in [LockRequests -> LockCalls] /\ Others(r)
           /\ lockReq[r].pc = "select" /\ s \in lockReq[r].todo
           /\ lockReq'[r].user = lockReq[r].user /\ lockReq'[r].todo = lockReq[r].todo \ {s}
           /\ \/ lockReq'[r].pc = "acquire" /\ lockReq'[r].seat = s /\ seats[s] = "AVAILABLE"
              \/ lockReq'[r].pc = "select"
<1>. DEFINE take == [lockReq[r] EXCEPT !.todo = @ \ {s}, !.pc = "acquire", !.seat = s]
            skip == [lockReq[r] EXCEPT !.todo = @ \ {s}]
<1>1. lockReq[r] \in LockCalls
  BY DEF TypeOK
<1>2. /\ take \in LockCalls /\ take.pc = "acquire" /\ take.seat = s
      /\ take.user = lockReq[r].user /\ take.todo = lockReq[r].todo \ {s}
      /\ skip \in LockCalls /\ skip.pc = lockReq[r].pc
      /\ skip.user = lockReq[r].user /\ skip.todo = lockReq[r].todo \ {s}
  BY <1>1 DEF LockCalls
<1>3. /\ lockReq[r].pc = "select" /\ s \in lockReq[r].todo
      /\ (LockTo(r, take) /\ seats[s] = "AVAILABLE") \/ LockTo(r, skip)
  BY DEF LockSelect, AtLock, Offered
<1>. HIDE DEF take, skip
<1>. QED BY <1>2, <1>3, LockToOne DEF Others

LEMMA LockAcquireEffect ==
    ASSUME TypeOK, NEW r \in LockRequests, LockAcquire(r)
    PROVE  /\ lockReq' \in [LockRequests -> LockCalls] /\ Others(r)
           /\ lockReq[r].pc = "acquire"
           /\ lockReq'[r].user = lockReq[r].user /\ lockReq'[r].todo = lockReq[r].todo
           /\ \/ /\ lockReq'[r].pc = "update" /\ lockReq'[r].seat = lockReq[r].seat
                 /\ seatLock[lockReq[r].seat] = None
                 /\ seatLock' = [seatLock EXCEPT ![lockReq[r].seat] = r]
              \/ lockReq'[r].pc = "select" /\ seatLock' = seatLock
<1>. DEFINE got == [lockReq[r] EXCEPT !.pc = "update"]
            lost == [lockReq[r] EXCEPT !.pc = "select", !.seat = None]
<1>1. lockReq[r] \in LockCalls
  BY DEF TypeOK
<1>2. /\ got \in LockCalls /\ got.pc = "update" /\ got.seat = lockReq[r].seat
      /\ got.user = lockReq[r].user /\ got.todo = lockReq[r].todo
      /\ lost \in LockCalls /\ lost.pc = "select"
      /\ lost.user = lockReq[r].user /\ lost.todo = lockReq[r].todo
  BY <1>1 DEF LockCalls
<1>3. /\ lockReq[r].pc = "acquire"
      /\ \/ /\ LockTo(r, got) /\ seatLock[lockReq[r].seat] = None
            /\ seatLock' = [seatLock EXCEPT ![lockReq[r].seat] = r]
         \/ LockTo(r, lost) /\ seatLock' = seatLock
  BY DEF LockAcquire, AtLock, KeyFree
<1>. HIDE DEF got, lost
<1>. QED BY <1>2, <1>3, LockToOne DEF Others

LEMMA LockUpdateEffect ==
    ASSUME TypeOK, NEW r \in LockRequests, LockUpdate(r)
    PROVE  /\ lockReq' \in [LockRequests -> LockCalls] /\ Others(r)
           /\ lockReq[r].pc = "update" /\ lockReq'[r].pc = "insert"
           /\ lockReq'[r].user = lockReq[r].user /\ lockReq'[r].todo = lockReq[r].todo
           /\ lockReq'[r].seat = lockReq[r].seat
<1>. DEFINE call == [lockReq[r] EXCEPT !.pc = "insert"]
<1>1. lockReq[r] \in LockCalls
  BY DEF TypeOK
<1>2. /\ call \in LockCalls /\ call.pc = "insert" /\ call.seat = lockReq[r].seat
      /\ call.user = lockReq[r].user /\ call.todo = lockReq[r].todo
  BY <1>1 DEF LockCalls
<1>3. LockTo(r, call) /\ lockReq[r].pc = "update"
  BY DEF LockUpdate, AtLock
<1>. HIDE DEF call
<1>. QED BY <1>2, <1>3, LockToOne DEF Others

LEMMA LockInsertEffect ==
    ASSUME TypeOK, NEW r \in LockRequests, LockInsert(r), lockReq[r].seat \in Seats
    PROVE  /\ lockReq' \in [LockRequests -> LockCalls] /\ Others(r)
           /\ lockReq[r].pc = "insert" /\ lockReq'[r].pc = "select"
           /\ lockReq'[r].user = lockReq[r].user /\ lockReq'[r].todo = lockReq[r].todo
<1>. DEFINE call == [lockReq[r] EXCEPT !.pc = "select", !.seat = None,
                                       !.locked = @ \union {lockReq[r].seat}]
<1>1. lockReq[r] \in LockCalls
  BY DEF TypeOK
<1>2. /\ call \in LockCalls /\ call.pc = "select"
      /\ call.user = lockReq[r].user /\ call.todo = lockReq[r].todo
  BY <1>1 DEF LockCalls
<1>3. LockTo(r, call) /\ lockReq[r].pc = "insert"
  BY DEF LockInsert, AtLock
<1>. HIDE DEF call
<1>. QED BY <1>2, <1>3, LockToOne DEF Others

LEMMA LockReplyEffect ==
    ASSUME TypeOK, NEW r \in LockRequests, LockReply(r)
    PROVE  /\ lockReq' \in [LockRequests -> LockCalls] /\ Others(r)
           /\ lockReq'[r].pc = "done"
           /\ lockReq'[r].user = lockReq[r].user /\ lockReq'[r].todo = lockReq[r].todo
           /\ lockReq[r].pc = "select"
<1>. DEFINE call == [lockReq[r] EXCEPT !.pc = "done"]
<1>1. lockReq[r] \in LockCalls
  BY DEF TypeOK
<1>2. /\ call \in LockCalls /\ call.pc = "done"
      /\ call.user = lockReq[r].user /\ call.todo = lockReq[r].todo
  BY <1>1 DEF LockCalls
<1>3. LockTo(r, call) /\ lockReq[r].pc = "select"
  BY DEF LockReply, AtLock
<1>. HIDE DEF call
<1>. QED BY <1>2, <1>3, LockToOne DEF Others

-----------------------------------------------------------------------------
(* Every record but one call's own stays: what is left to show of each part. *)
LEMMA LockRowKept ==
    ASSUME TypeOK, RowWritten, NEW r \in LockRequests, Others(r), seat_locks' = seat_locks,
           lockReq'[r].pc # "idle",
           \A s \in Seats : seat_locks[s] = r =>
                /\ s \notin lockReq'[r].todo
                /\ ~ (lockReq'[r].pc \in {"acquire", "update", "insert"} /\ lockReq'[r].seat = s)
    PROVE  RowWritten'
<1>. SUFFICES ASSUME NEW s \in Seats, seat_locks[s] # None
              PROVE  /\ lockReq'[seat_locks[s]].pc # "idle"
                     /\ s \notin lockReq'[seat_locks[s]].todo
                     /\ ~ LockingSeat(seat_locks[s], s)'
  BY DEF RowWritten
<1>1. seat_locks[s] \in LockRequests
  BY DEF TypeOK
<1>2. CASE seat_locks[s] = r
  BY <1>2 DEF LockingSeat
<1>3. CASE seat_locks[s] # r
  BY <1>1, <1>3 DEF RowWritten, Others, LockingSeat
<1>. QED BY <1>2, <1>3

LEMMA LockKnownKept ==
    ASSUME CallsKnown, SeatInHand, NEW r \in LockRequests, Others(r), lockReq'[r].user \in Users,
           lockReq'[r].pc \in {"acquire", "update", "insert"} =>
                lockReq'[r].seat \in Seats /\ lockReq'[r].seat \notin lockReq'[r].todo
    PROVE  CallsKnown' /\ SeatInHand'
BY DEF CallsKnown, SeatInHand, Others

(* POST /seats/lock keeps the invariant at each of its awaits. *)
LEMMA LockInv ==
    ASSUME Inv, NEW r \in LockRequests,
           \/ \E u \in Users, asked \in (SUBSET Seats) \ {{}} : LockCall(r, u, asked)
           \/ LockStep(r)
    PROVE  Inv'
<1>. TypeOK /\ CallsKnown /\ RowWritten /\ SeatInHand /\ SweepKnown /\ UnlockKnown /\ ExpiredRowLapsed
  BY DEF Inv
<1>1. ASSUME NEW u \in Users, NEW asked \in (SUBSET Seats) \ {{}}, LockCall(r, u, asked)
      PROVE  Inv'
  <2>1. /\ lockReq' \in [LockRequests -> LockCalls] /\ Others(r)
        /\ lockReq[r].pc = "idle" /\ lockReq'[r].pc = "select" /\ lockReq'[r].user = u
    BY <1>1, LockCallEffect
  <2>2. /\ seats' = seats /\ seatLock' = seatLock /\ seat_locks' = seat_locks /\ expired' = expired
        /\ unlockReq' = unlockReq /\ sweep' = sweep /\ reader' = reader /\ seatCache' = seatCache
        /\ failures' = failures
    BY <1>1 DEF LockCall
  <2>3. TypeOK'
    BY <2>1, <2>2 DEF TypeOK
  <2>4. CallsKnown' /\ SeatInHand'
    BY <2>1, LockKnownKept
  <2>5. RowWritten'
    <3>1. \A s \in Seats : seat_locks[s] # r
      BY <2>1, SeatServiceAssumption DEF RowWritten
    <3>. QED BY <2>1, <2>2, <3>1, LockRowKept
  <2>. QED BY <2>2, <2>3, <2>4, <2>5 DEF Inv, SweepKnown, UnlockKnown, ExpiredRowLapsed
<1>2. ASSUME NEW s \in Seats, LockSelect(r, s)  PROVE Inv'
  <2>1. /\ lockReq' \in [LockRequests -> LockCalls] /\ Others(r)
        /\ lockReq[r].pc = "select" /\ s \in lockReq[r].todo
        /\ lockReq'[r].user = lockReq[r].user /\ lockReq'[r].todo = lockReq[r].todo \ {s}
        /\ \/ lockReq'[r].pc = "acquire" /\ lockReq'[r].seat = s
           \/ lockReq'[r].pc = "select"
    BY <1>2, LockSelectEffect
  <2>2. /\ seats' = seats /\ seatLock' = seatLock /\ seat_locks' = seat_locks /\ expired' = expired
        /\ unlockReq' = unlockReq /\ sweep' = sweep /\ reader' = reader /\ seatCache' = seatCache
        /\ failures' = failures
    BY <1>2 DEF LockSelect
  <2>3. TypeOK'
    BY <2>1, <2>2 DEF TypeOK
  <2>4. CallsKnown' /\ SeatInHand'
    <3>1. lockReq'[r].user \in Users
      BY <2>1 DEF CallsKnown
    <3>. QED BY <2>1, <3>1, LockKnownKept
  <2>5. RowWritten'
    <3>1. \A x \in Seats : seat_locks[x] = r => x \notin lockReq[r].todo
      BY SeatServiceAssumption DEF RowWritten
    <3>2. \A x \in Seats : seat_locks[x] = r =>
              /\ x \notin lockReq'[r].todo
              /\ ~ (lockReq'[r].pc \in {"acquire", "update", "insert"} /\ lockReq'[r].seat = x)
      BY <2>1, <3>1
    <3>. QED BY <2>1, <2>2, <3>2, LockRowKept
  <2>. QED BY <2>2, <2>3, <2>4, <2>5 DEF Inv, SweepKnown, UnlockKnown, ExpiredRowLapsed
<1>3. ASSUME LockAcquire(r)  PROVE Inv'
  <2>. DEFINE s == lockReq[r].seat
  <2>1. /\ lockReq' \in [LockRequests -> LockCalls] /\ Others(r)
        /\ lockReq[r].pc = "acquire"
        /\ lockReq'[r].user = lockReq[r].user /\ lockReq'[r].todo = lockReq[r].todo
        /\ \/ /\ lockReq'[r].pc = "update" /\ lockReq'[r].seat = s
              /\ seatLock' = [seatLock EXCEPT ![s] = r]
           \/ lockReq'[r].pc = "select" /\ seatLock' = seatLock
    BY <1>3, LockAcquireEffect
  <2>2. /\ seats' = seats /\ seat_locks' = seat_locks /\ expired' = expired
        /\ unlockReq' = unlockReq /\ sweep' = sweep /\ reader' = reader /\ seatCache' = seatCache
        /\ failures' = failures
    BY <1>3 DEF LockAcquire
  <2>3. s \in Seats /\ s \notin lockReq[r].todo /\ lockReq[r].user \in Users
    BY <2>1 DEF CallsKnown, SeatInHand
  <2>4. seatLock' \in [Seats -> LockRequests \union {None}]
    BY <2>1, <2>3 DEF TypeOK
  <2>5. TypeOK'
    BY <2>1, <2>2, <2>4 DEF TypeOK
  <2>6. CallsKnown' /\ SeatInHand'
    BY <2>1, <2>3, LockKnownKept
  <2>7. \A x \in Seats : seat_locks[x] = r => x # s /\ x \notin lockReq[r].todo
    BY <2>1, SeatServiceAssumption DEF RowWritten, LockingSeat
  <2>8. RowWritten'
    <3>1. \A x \in Seats : seat_locks[x] = r =>
              /\ x \notin lockReq'[r].todo
              /\ ~ (lockReq'[r].pc \in {"acquire", "update", "insert"} /\ lockReq'[r].seat = x)
      BY <2>1, <2>7
    <3>. QED BY <2>1, <2>2, <3>1, LockRowKept
  <2>9. ExpiredRowLapsed'
    <3>1. seatLock \in [Seats -> LockRequests \union {None}] /\ expired \subseteq Seats
      BY DEF TypeOK
    <3>2. \A x \in Seats : seatLock'[x] = seatLock[x] \/ (x = s /\ seatLock'[x] = r)
      BY <2>1, <2>3, <3>1
    <3>. QED BY <2>2, <2>7, <3>1, <3>2 DEF ExpiredRowLapsed
  <2>. QED BY <2>2, <2>5, <2>6, <2>8, <2>9 DEF Inv, SweepKnown, UnlockKnown
<1>4. ASSUME LockUpdate(r)  PROVE Inv'
  <2>1. /\ lockReq' \in [LockRequests -> LockCalls] /\ Others(r)
        /\ lockReq[r].pc = "update" /\ lockReq'[r].pc = "insert"
        /\ lockReq'[r].user = lockReq[r].user /\ lockReq'[r].todo = lockReq[r].todo
        /\ lockReq'[r].seat = lockReq[r].seat
    BY <1>4, LockUpdateEffect
  <2>2. /\ seatLock' = seatLock /\ seat_locks' = seat_locks /\ expired' = expired
        /\ unlockReq' = unlockReq /\ sweep' = sweep /\ reader' = reader /\ seatCache' = seatCache
        /\ failures' = failures
    BY <1>4 DEF LockUpdate
  <2>3. seats' \in [Seats -> SeatStatus]
    BY <1>4 DEF LockUpdate, LockSeat, Set, SeatStatus, TypeOK
  <2>4. /\ lockReq[r].seat \in Seats /\ lockReq[r].seat \notin lockReq[r].todo
        /\ lockReq[r].user \in Users
    BY <2>1 DEF CallsKnown, SeatInHand
  <2>5. TypeOK'
    BY <2>1, <2>2, <2>3 DEF TypeOK
  <2>6. CallsKnown' /\ SeatInHand'
    BY <2>1, <2>4, LockKnownKept
  <2>7. RowWritten'
    <3>1. \A x \in Seats : seat_locks[x] = r => x # lockReq[r].seat /\ x \notin lockReq[r].todo
      BY <2>1, SeatServiceAssumption DEF RowWritten, LockingSeat
    <3>. QED BY <2>1, <2>2, <3>1, LockRowKept
  <2>. QED BY <2>2, <2>5, <2>6, <2>7 DEF Inv, SweepKnown, UnlockKnown, ExpiredRowLapsed
<1>5. ASSUME LockInsert(r)  PROVE Inv'
  <2>. DEFINE s == lockReq[r].seat
  <2>1. lockReq[r].pc = "insert" /\ s \in Seats /\ s \notin lockReq[r].todo /\ lockReq[r].user \in Users
    BY <1>5 DEF LockInsert, AtLock, CallsKnown, SeatInHand
  <2>2. /\ lockReq' \in [LockRequests -> LockCalls] /\ Others(r)
        /\ lockReq'[r].pc = "select"
        /\ lockReq'[r].user = lockReq[r].user /\ lockReq'[r].todo = lockReq[r].todo
    BY <1>5, <2>1, LockInsertEffect
  <2>3. /\ seats' = seats /\ seatLock' = seatLock
        /\ seat_locks' = [seat_locks EXCEPT ![s] = r] /\ expired' = expired \ {s}
        /\ unlockReq' = unlockReq /\ sweep' = sweep /\ reader' = reader /\ seatCache' = seatCache
        /\ failures' = failures
    BY <1>5 DEF LockInsert, RenewRow
  <2>4. /\ seat_locks \in [Seats -> LockRequests \union {None}] /\ expired \in SUBSET Seats
        /\ seat_locks' \in [Seats -> LockRequests \union {None}] /\ expired' \in SUBSET Seats
    BY <2>1, <2>3 DEF TypeOK
  <2>5. seat_locks'[s] = r /\ \A x \in Seats : x # s => seat_locks'[x] = seat_locks[x]
    BY <2>1, <2>3, <2>4
  <2>6. TypeOK'
    BY <2>2, <2>3, <2>4 DEF TypeOK
  <2>7. CallsKnown' /\ SeatInHand'
    BY <2>1, <2>2, LockKnownKept
  <2>8. RowWritten'
    <3>. SUFFICES ASSUME NEW x \in Seats, seat_locks'[x] # None
                  PROVE  /\ lockReq'[seat_locks'[x]].pc # "idle"
                         /\ x \notin lockReq'[seat_locks'[x]].todo
                         /\ ~ LockingSeat(seat_locks[x], x)'
      BY DEF RowWritten
    <3>1. CASE seat_locks'[x] = r /\ x = s
      BY <2>1, <2>2, <3>1 DEF LockingSeat
    <3>2. CASE x # s /\ seat_locks[x] = r
      BY <2>1, <2>2, <2>5, <3>2 DEF RowWritten, LockingSeat
    <3>3. CASE x # s /\ seat_locks[x] # r
      <4>1. seat_locks[x] \in LockRequests /\ seat_locks'[x] = seat_locks[x] /\ seat_locks[x] # None
        BY <2>4, <2>5, <3>3
      <4>. QED BY <2>2, <3>3, <4>1 DEF RowWritten, LockingSeat, Others
    <3>. QED BY <2>5, <3>1, <3>2, <3>3
  <2>9. ExpiredRowLapsed'
    BY <2>3, <2>4, <2>5 DEF ExpiredRowLapsed
  <2>. QED BY <2>3, <2>6, <2>7, <2>8, <2>9 DEF Inv, SweepKnown, UnlockKnown
<1>6. ASSUME LockReply(r)  PROVE Inv'
  <2>1. /\ lockReq' \in [LockRequests -> LockCalls] /\ Others(r)
        /\ lockReq[r].pc = "select" /\ lockReq'[r].pc = "done"
        /\ lockReq'[r].user = lockReq[r].user /\ lockReq'[r].todo = lockReq[r].todo
    BY <1>6, LockReplyEffect
  <2>2. /\ seats' = seats /\ seatLock' = seatLock /\ seat_locks' = seat_locks /\ expired' = expired
        /\ unlockReq' = unlockReq /\ sweep' = sweep /\ reader' = reader
        /\ (seatCache' = None \/ seatCache' = seatCache) /\ failures' = failures
    BY <1>6 DEF LockReply
  <2>3. TypeOK'
    BY <2>1, <2>2 DEF TypeOK
  <2>4. CallsKnown' /\ SeatInHand'
    <3>1. lockReq'[r].user \in Users
      BY <2>1 DEF CallsKnown
    <3>. QED BY <2>1, <3>1, LockKnownKept
  <2>5. RowWritten'
    <3>1. \A x \in Seats : seat_locks[x] = r => x \notin lockReq[r].todo
      BY SeatServiceAssumption DEF RowWritten
    <3>. QED BY <2>1, <2>2, <3>1, LockRowKept
  <2>. QED BY <2>2, <2>3, <2>4, <2>5 DEF Inv, SweepKnown, UnlockKnown, ExpiredRowLapsed
<1>. QED BY <1>1, <1>2, <1>3, <1>4, <1>5, <1>6 DEF LockStep

-----------------------------------------------------------------------------
(* What every other step leaves alone, and the parts of the invariant that   *)
(* can be disturbed by a step that touches no lock call.                     *)

LEMMA ReleaseEffect ==
    ASSUME TypeOK, NEW s \in Seats, NEW user, ReleaseLock(s, user)
    PROVE  /\ seatLock' \in [Seats -> LockRequests \union {None}]
           /\ \A x \in Seats : seatLock'[x] = seatLock[x] \/ seatLock'[x] = None
BY SeatServiceAssumption DEF TypeOK, ReleaseLock

LEMMA DeleteRowEffect ==
    ASSUME TypeOK, NEW s \in Seats, DeleteRow(s)
    PROVE  /\ seat_locks' \in [Seats -> LockRequests \union {None}]
           /\ seat_locks'[s] = None
           /\ \A x \in Seats : x # s => seat_locks'[x] = seat_locks[x]
           /\ expired' = expired \ {s} /\ expired' \in SUBSET Seats
BY SeatServiceAssumption DEF TypeOK, DeleteRow

LEMMA FreeSeatType ==
    ASSUME TypeOK, NEW s \in Seats, FreeSeat(s)
    PROVE  seats' \in [Seats -> SeatStatus]
BY DEF TypeOK, FreeSeat, Set, SeatStatus

(* A row may go, or a lease may end: no row appears and no lease begins. *)
LEMMA RowsOnlyGo ==
    ASSUME Inv, lockReq' = lockReq,
           seat_locks' \in [Seats -> LockRequests \union {None}],
           \A x \in Seats : \/ seat_locks'[x] = seat_locks[x]
                            \/ seat_locks'[x] = None /\ x \notin expired',
           \A x \in Seats : seatLock'[x] = seatLock[x] \/ seatLock'[x] = None,
           expired' \subseteq expired
    PROVE  CallsKnown' /\ SeatInHand' /\ RowWritten' /\ ExpiredRowLapsed'
<1>. TypeOK /\ CallsKnown /\ RowWritten /\ SeatInHand /\ ExpiredRowLapsed /\ expired \subseteq Seats
  BY DEF Inv, TypeOK
<1>1. CallsKnown' /\ SeatInHand'
  BY DEF CallsKnown, SeatInHand
<1>2. RowWritten'
  BY DEF RowWritten, LockingSeat
<1>3. ExpiredRowLapsed'
  BY DEF ExpiredRowLapsed
<1>. QED BY <1>1, <1>2, <1>3

(* A call that did not move leaves the invariant about calls to its record.  *)
LEMMA UnlockKnownKept ==
    ASSUME TypeOK, UnlockKnown, NEW q \in UnlockRequests, NEW call \in UnlockCalls,
           UnlockTo(q, call), call.pc \in {"update", "delete"} => call.seat \in Seats
    PROVE  UnlockKnown' /\ unlockReq' \in [UnlockRequests -> UnlockCalls]
BY UnlockToOne DEF UnlockKnown

LEMMA SweepKnownKept ==
    ASSUME TypeOK, SweepKnown, NEW w \in Sweeps, NEW call \in SweepCalls,
           SweepTo(w, call), call.pc \in {"update", "delete"} => call.row \in Rows
    PROVE  SweepKnown' /\ sweep' \in [Sweeps -> SweepCalls]
BY SweepToOne DEF SweepKnown, Rows

(* POST /seats/unlock keeps the invariant at each of its awaits. *)
LEMMA UnlockInv ==
    ASSUME Inv, NEW q \in UnlockRequests,
           \/ \E u \in Users, asked \in (SUBSET Seats) \ {{}} : UnlockCall(q, u, asked)
           \/ UnlockStep(q)
    PROVE  Inv'
<1>. TypeOK /\ CallsKnown /\ RowWritten /\ SeatInHand /\ SweepKnown /\ UnlockKnown /\ ExpiredRowLapsed
  BY DEF Inv
<1>0. unlockReq[q] \in UnlockCalls
  BY DEF TypeOK
<1>1. ASSUME NEW u \in Users, NEW asked \in (SUBSET Seats) \ {{}}, UnlockCall(q, u, asked)
      PROVE  Inv'
  <2>. DEFINE call == [unlockReq[q] EXCEPT !.pc = "release", !.user = u, !.todo = asked]
  <2>1. call \in UnlockCalls /\ call.pc = "release"
    BY <1>0 DEF UnlockCalls
  <2>2. /\ UnlockTo(q, call)
        /\ seats' = seats /\ seatLock' = seatLock /\ seat_locks' = seat_locks /\ expired' = expired
        /\ lockReq' = lockReq /\ sweep' = sweep /\ reader' = reader /\ seatCache' = seatCache
        /\ failures' = failures
    BY <1>1 DEF UnlockCall
  <2>. HIDE DEF call
  <2>3. UnlockKnown' /\ unlockReq' \in [UnlockRequests -> UnlockCalls]
    BY <2>1, <2>2, UnlockKnownKept
  <2>4. TypeOK'
    BY <2>2, <2>3 DEF TypeOK
  <2>5. CallsKnown' /\ SeatInHand' /\ RowWritten' /\ ExpiredRowLapsed'
    BY <2>2, <2>4, RowsOnlyGo DEF TypeOK
  <2>. QED BY <2>2, <2>3, <2>4, <2>5 DEF Inv, SweepKnown
<1>2. ASSUME NEW s \in Seats, UnlockRelease(q, s)  PROVE Inv'
  <2>. DEFINE call == [unlockReq[q] EXCEPT !.pc = "update", !.seat = s, !.todo = @ \ {s}]
  <2>1. call \in UnlockCalls /\ call.seat \in Seats
    BY <1>0 DEF UnlockCalls
  <2>2. /\ UnlockTo(q, call) /\ ReleaseLock(s, unlockReq[q].user)
        /\ seats' = seats /\ seat_locks' = seat_locks /\ expired' = expired
        /\ lockReq' = lockReq /\ sweep' = sweep /\ reader' = reader /\ seatCache' = seatCache
        /\ failures' = failures
    BY <1>2 DEF UnlockRelease
  <2>. HIDE DEF call
  <2>3. UnlockKnown' /\ unlockReq' \in [UnlockRequests -> UnlockCalls]
    BY <2>1, <2>2, UnlockKnownKept
  <2>4. /\ seatLock' \in [Seats -> LockRequests \union {None}]
        /\ \A x \in Seats : seatLock'[x] = seatLock[x] \/ seatLock'[x] = None
    BY <2>2, ReleaseEffect
  <2>5. TypeOK'
    BY <2>2, <2>3, <2>4 DEF TypeOK
  <2>6. CallsKnown' /\ SeatInHand' /\ RowWritten' /\ ExpiredRowLapsed'
    BY <2>2, <2>4, <2>5, RowsOnlyGo DEF TypeOK
  <2>. QED BY <2>2, <2>3, <2>5, <2>6 DEF Inv, SweepKnown
<1>3. ASSUME UnlockUpdate(q)  PROVE Inv'
  <2>. DEFINE call == [unlockReq[q] EXCEPT !.pc = "delete"]
  <2>1. unlockReq[q].seat \in Seats
    BY <1>3 DEF UnlockUpdate, AtUnlock, UnlockKnown
  <2>2. call \in UnlockCalls /\ call.seat \in Seats
    BY <1>0, <2>1 DEF UnlockCalls
  <2>3. /\ UnlockTo(q, call) /\ FreeSeat(unlockReq[q].seat)
        /\ seatLock' = seatLock /\ seat_locks' = seat_locks /\ expired' = expired
        /\ lockReq' = lockReq /\ sweep' = sweep /\ reader' = reader /\ seatCache' = seatCache
        /\ failures' = failures
    BY <1>3 DEF UnlockUpdate
  <2>. HIDE DEF call
  <2>4. UnlockKnown' /\ unlockReq' \in [UnlockRequests -> UnlockCalls]
    BY <2>2, <2>3, UnlockKnownKept
  <2>5. seats' \in [Seats -> SeatStatus]
    BY <2>1, <2>3, FreeSeatType
  <2>6. TypeOK'
    BY <2>3, <2>4, <2>5 DEF TypeOK
  <2>7. CallsKnown' /\ SeatInHand' /\ RowWritten' /\ ExpiredRowLapsed'
    BY <2>3, <2>6, RowsOnlyGo DEF TypeOK
  <2>. QED BY <2>3, <2>4, <2>6, <2>7 DEF Inv, SweepKnown
<1>4. ASSUME UnlockDelete(q)  PROVE Inv'
  <2>. DEFINE s == unlockReq[q].seat
              call == [unlockReq[q] EXCEPT !.seat = None,
                            !.pc = IF unlockReq[q].todo = {} THEN "done" ELSE "release"]
  <2>1. s \in Seats
    BY <1>4 DEF UnlockDelete, AtUnlock, UnlockKnown
  <2>2. call \in UnlockCalls /\ call.pc \notin {"update", "delete"}
    BY <1>0 DEF UnlockCalls
  <2>3. /\ UnlockTo(q, call) /\ (DeleteRow(s) \/ (seat_locks' = seat_locks /\ expired' = expired))
        /\ seats' = seats /\ seatLock' = seatLock
        /\ lockReq' = lockReq /\ sweep' = sweep /\ reader' = reader /\ seatCache' = seatCache
        /\ failures' = failures
    BY <1>4 DEF UnlockDelete
  <2>. HIDE DEF call
  <2>4. UnlockKnown' /\ unlockReq' \in [UnlockRequests -> UnlockCalls]
    BY <2>2, <2>3, UnlockKnownKept
  <2>5. /\ seat_locks' \in [Seats -> LockRequests \union {None}]
        /\ \A x \in Seats : \/ seat_locks'[x] = seat_locks[x]
                            \/ seat_locks'[x] = None /\ x \notin expired'
        /\ expired' \subseteq expired /\ expired' \in SUBSET Seats
    <3>1. CASE DeleteRow(s)
      BY <2>1, <3>1, DeleteRowEffect
    <3>2. CASE seat_locks' = seat_locks /\ expired' = expired
      BY <3>2 DEF TypeOK
    <3>. QED BY <2>3, <3>1, <3>2
  <2>6. TypeOK'
    BY <2>3, <2>4, <2>5 DEF TypeOK
  <2>7. CallsKnown' /\ SeatInHand' /\ RowWritten' /\ ExpiredRowLapsed'
    BY <2>3, <2>5, RowsOnlyGo
  <2>. QED BY <2>3, <2>4, <2>6, <2>7 DEF Inv, SweepKnown
<1>. QED BY <1>1, <1>2, <1>3, <1>4 DEF UnlockStep

(* POST /seats/release-expired keeps the invariant at each of its awaits. *)
LEMMA SweepInv ==
    ASSUME Inv, NEW w \in Sweeps, SweepStep(w)
    PROVE  Inv'
<1>. TypeOK /\ CallsKnown /\ RowWritten /\ SeatInHand /\ SweepKnown /\ UnlockKnown /\ ExpiredRowLapsed
  BY DEF Inv
<1>0. sweep[w] \in SweepCalls
  BY DEF TypeOK
<1>1. ASSUME SweepSelect(w)  PROVE Inv'
  <2>. DEFINE rows == {[seat |-> s, call |-> seat_locks[s]] : s \in expired}
              call == [sweep[w] EXCEPT !.pc = "release", !.rows = rows]
  <2>1. \A s \in expired : s \in Seats /\ seat_locks[s] \in LockRequests
    BY SeatServiceAssumption DEF TypeOK, ExpiredRowLapsed
  <2>2. rows \in SUBSET Rows
    BY <2>1 DEF Rows
  <2>3. SweepTo(w, call)
    BY <1>1 DEF SweepSelect
  <2>. HIDE DEF rows
  <2>4. call \in SweepCalls /\ call.pc = "release"
    BY <1>0, <2>2 DEF SweepCalls
  <2>5. /\ seats' = seats /\ seatLock' = seatLock /\ seat_locks' = seat_locks /\ expired' = expired
        /\ lockReq' = lockReq /\ unlockReq' = unlockReq /\ reader' = reader /\ seatCache' = seatCache
        /\ failures' = failures
    BY <1>1 DEF SweepSelect
  <2>. HIDE DEF call
  <2>6. SweepKnown' /\ sweep' \in [Sweeps -> SweepCalls]
    BY <2>3, <2>4, SweepKnownKept
  <2>7. TypeOK'
    BY <2>5, <2>6 DEF TypeOK
  <2>8. CallsKnown' /\ SeatInHand' /\ RowWritten' /\ ExpiredRowLapsed'
    BY <2>5, <2>7, RowsOnlyGo DEF TypeOK
  <2>. QED BY <2>5, <2>6, <2>7, <2>8 DEF Inv, UnlockKnown
<1>2. ASSUME NEW row \in Rows, SweepRelease(w, row)  PROVE Inv'
  <2>. DEFINE call == [sweep[w] EXCEPT !.pc = "update", !.row = row, !.rows = @ \ {row}]
  <2>1. call \in SweepCalls /\ call.row \in Rows
    BY <1>0 DEF SweepCalls
  <2>2. /\ SweepTo(w, call) /\ ReleaseLock(row.seat, lockReq[row.call].user) /\ row.seat \in Seats
        /\ seats' = seats /\ seat_locks' = seat_locks /\ expired' = expired
        /\ lockReq' = lockReq /\ unlockReq' = unlockReq /\ reader' = reader /\ seatCache' = seatCache
        /\ failures' = failures
    BY <1>2 DEF SweepRelease, Rows
  <2>. HIDE DEF call
  <2>3. SweepKnown' /\ sweep' \in [Sweeps -> SweepCalls]
    BY <2>1, <2>2, SweepKnownKept
  <2>4. /\ seatLock' \in [Seats -> LockRequests \union {None}]
        /\ \A x \in Seats : seatLock'[x] = seatLock[x] \/ seatLock'[x] = None
    BY <2>2, ReleaseEffect
  <2>5. TypeOK'
    BY <2>2, <2>3, <2>4 DEF TypeOK
  <2>6. CallsKnown' /\ SeatInHand' /\ RowWritten' /\ ExpiredRowLapsed'
    BY <2>2, <2>4, <2>5, RowsOnlyGo DEF TypeOK
  <2>. QED BY <2>2, <2>3, <2>5, <2>6 DEF Inv, UnlockKnown
<1>3. ASSUME SweepUpdate(w)  PROVE Inv'
  <2>. DEFINE call == [sweep[w] EXCEPT !.pc = "delete"]
  <2>1. sweep[w].row \in Rows /\ sweep[w].row.seat \in Seats
    BY <1>3 DEF SweepUpdate, AtSweep, SweepKnown, Rows
  <2>2. call \in SweepCalls /\ call.row \in Rows
    BY <1>0, <2>1 DEF SweepCalls
  <2>3. /\ SweepTo(w, call) /\ FreeSeat(sweep[w].row.seat)
        /\ seatLock' = seatLock /\ seat_locks' = seat_locks /\ expired' = expired
        /\ lockReq' = lockReq /\ unlockReq' = unlockReq /\ reader' = reader /\ seatCache' = seatCache
        /\ failures' = failures
    BY <1>3 DEF SweepUpdate
  <2>. HIDE DEF call
  <2>4. SweepKnown' /\ sweep' \in [Sweeps -> SweepCalls]
    BY <2>2, <2>3, SweepKnownKept
  <2>5. seats' \in [Seats -> SeatStatus]
    BY <2>1, <2>3, FreeSeatType
  <2>6. TypeOK'
    BY <2>3, <2>4, <2>5 DEF TypeOK
  <2>7. CallsKnown' /\ SeatInHand' /\ RowWritten' /\ ExpiredRowLapsed'
    BY <2>3, <2>6, RowsOnlyGo DEF TypeOK
  <2>. QED BY <2>3, <2>4, <2>6, <2>7 DEF Inv, UnlockKnown
<1>4. ASSUME SweepDelete(w)  PROVE Inv'
  <2>. DEFINE call == [sweep[w] EXCEPT !.row = None,
                            !.pc = IF sweep[w].rows = {} THEN "idle" ELSE "release"]
  <2>1. sweep[w].row \in Rows /\ sweep[w].row.seat \in Seats
    BY <1>4 DEF SweepDelete, AtSweep, SweepKnown, Rows
  <2>2. call \in SweepCalls /\ call.pc \notin {"update", "delete"}
    BY <1>0 DEF SweepCalls
  <2>3. /\ SweepTo(w, call) /\ DeleteRow(sweep[w].row.seat)
        /\ seats' = seats /\ seatLock' = seatLock
        /\ lockReq' = lockReq /\ unlockReq' = unlockReq /\ reader' = reader /\ seatCache' = seatCache
        /\ failures' = failures
    BY <1>4 DEF SweepDelete
  <2>. HIDE DEF call
  <2>4. SweepKnown' /\ sweep' \in [Sweeps -> SweepCalls]
    BY <2>2, <2>3, SweepKnownKept
  <2>5. /\ seat_locks' \in [Seats -> LockRequests \union {None}]
        /\ \A x \in Seats : \/ seat_locks'[x] = seat_locks[x]
                            \/ seat_locks'[x] = None /\ x \notin expired'
        /\ expired' \subseteq expired /\ expired' \in SUBSET Seats
    BY <2>1, <2>3, DeleteRowEffect
  <2>6. TypeOK'
    BY <2>3, <2>4, <2>5 DEF TypeOK
  <2>7. CallsKnown' /\ SeatInHand' /\ RowWritten' /\ ExpiredRowLapsed'
    BY <2>3, <2>5, RowsOnlyGo
  <2>. QED BY <2>3, <2>4, <2>6, <2>7 DEF Inv, UnlockKnown
<1>. QED BY <1>1, <1>2, <1>3, <1>4 DEF SweepStep

(* The readers, the clock and the other writers touch neither calls nor rows.*)
LEMMA WorldInv ==
    ASSUME Inv,
           \/ \E v \in Readers : ReadQuery(v) \/ ReadFill(v)
           \/ \E s \in Seats : LeaseLapses(s) \/ RowExpires(s)
           \/ CacheLapses \/ OtherWriters
    PROVE  Inv'
<1>. TypeOK /\ CallsKnown /\ RowWritten /\ SeatInHand /\ SweepKnown /\ UnlockKnown /\ ExpiredRowLapsed
  BY DEF Inv
<1>1. /\ lockReq' = lockReq /\ unlockReq' = unlockReq /\ sweep' = sweep
      /\ seat_locks' = seat_locks /\ failures' = failures
  BY DEF ReadQuery, ReadFill, LeaseLapses, RowExpires, CacheLapses, OtherWriters, handlers
<1>2. reader' \in [Readers -> [pc : {"idle", "fill"}, view : SUBSET Seats]]
  BY DEF ReadQuery, ReadFill, LeaseLapses, RowExpires, CacheLapses, OtherWriters, handlers, TypeOK
<1>3. seatCache' \in (SUBSET Seats) \union {None}
  BY DEF ReadQuery, ReadFill, LeaseLapses, RowExpires, CacheLapses, OtherWriters, TypeOK
<1>4. seats' \in [Seats -> SeatStatus]
  BY SeatServiceAssumption
     DEF ReadQuery, ReadFill, LeaseLapses, RowExpires, CacheLapses, OtherWriters, Set, SeatStatus, TypeOK
<1>5. /\ seatLock' \in [Seats -> LockRequests \union {None}]
      /\ \A x \in Seats : seatLock'[x] = seatLock[x] \/ seatLock'[x] = None
  BY DEF ReadQuery, ReadFill, LeaseLapses, RowExpires, CacheLapses, OtherWriters, TypeOK
<1>6. expired' \in SUBSET Seats
  BY DEF ReadQuery, ReadFill, LeaseLapses, RowExpires, CacheLapses, OtherWriters, TypeOK
<1>7. TypeOK'
  BY <1>1, <1>2, <1>3, <1>4, <1>5, <1>6 DEF TypeOK
<1>8. CallsKnown' /\ SeatInHand' /\ RowWritten' /\ SweepKnown' /\ UnlockKnown'
  BY <1>1 DEF CallsKnown, SeatInHand, RowWritten, LockingSeat, SweepKnown, UnlockKnown
<1>9. ExpiredRowLapsed'
  <2>1. CASE \E s \in Seats : RowExpires(s)
    BY <1>1, <2>1 DEF RowExpires, ExpiredRowLapsed
  <2>2. CASE ~ \E s \in Seats : RowExpires(s)
    <3>1. expired' = expired
      BY <2>2 DEF ReadQuery, ReadFill, LeaseLapses, CacheLapses, OtherWriters
    <3>2. expired \subseteq Seats
      BY DEF TypeOK
    <3>. QED BY <1>1, <1>5, <3>1, <3>2 DEF ExpiredRowLapsed
  <2>. QED BY <2>1, <2>2
<1>. QED BY <1>7, <1>8, <1>9 DEF Inv

(* A handler that dies leaves its record in a state no step starts from. *)
LEMMA DeathInv == ASSUME Inv, HandlerDies  PROVE Inv'
<1>. TypeOK /\ CallsKnown /\ RowWritten /\ SeatInHand /\ SweepKnown /\ UnlockKnown /\ ExpiredRowLapsed
  BY DEF Inv
<1>0. /\ seats' = seats /\ seatLock' = seatLock /\ seat_locks' = seat_locks /\ expired' = expired
      /\ reader' = reader /\ seatCache' = seatCache
      /\ failures < MaxFailures /\ failures' = failures + 1
  BY DEF HandlerDies
<1>1. /\ seats' = seats /\ seatLock' = seatLock /\ seat_locks' = seat_locks /\ expired' = expired
      /\ reader' = reader /\ seatCache' = seatCache /\ failures' \in 0 .. MaxFailures
  <2>1. failures \in 0 .. MaxFailures /\ MaxFailures \in Nat
    BY SeatServiceAssumption DEF TypeOK
  <2>. QED BY <1>0, <2>1
<1>2. ASSUME NEW r \in LockRequests, lockReq[r].pc \in {"select", "acquire", "update", "insert"},
             LockTo(r, [lockReq[r] EXCEPT !.pc = "failed", !.seat = None]),
             unlockReq' = unlockReq, sweep' = sweep
      PROVE  Inv'
  <2>. DEFINE call == [lockReq[r] EXCEPT !.pc = "failed", !.seat = None]
  <2>1. lockReq[r] \in LockCalls
    BY DEF TypeOK
  <2>2. call \in LockCalls /\ call.pc = "failed" /\ call.user = lockReq[r].user
        /\ call.todo = lockReq[r].todo
    BY <2>1 DEF LockCalls
  <2>3. LockTo(r, call)
    BY <1>2
  <2>. HIDE DEF call
  <2>4. /\ lockReq' \in [LockRequests -> LockCalls] /\ Others(r) /\ lockReq'[r] = call
    BY <2>2, <2>3, LockToOne DEF Others
  <2>5. TypeOK'
    BY <1>1, <1>2, <2>4 DEF TypeOK
  <2>6. lockReq'[r].user \in Users
    BY <1>2, <2>2, <2>4 DEF CallsKnown
  <2>7. CallsKnown' /\ SeatInHand'
    BY <2>2, <2>4, <2>6, LockKnownKept
  <2>8. RowWritten'
    <3>1. \A x \in Seats : seat_locks[x] = r => x \notin lockReq[r].todo
      BY SeatServiceAssumption DEF RowWritten
    <3>. QED BY <1>1, <2>2, <2>4, <3>1, LockRowKept
  <2>. QED BY <1>1, <1>2, <2>5, <2>7, <2>8 DEF Inv, SweepKnown, UnlockKnown, ExpiredRowLapsed
<1>3. ASSUME NEW q \in UnlockRequests,
             UnlockTo(q, [unlockReq[q] EXCEPT !.pc = "failed", !.seat = None]),
             lockReq' = lockReq, sweep' = sweep
      PROVE  Inv'
  <2>. DEFINE call == [unlockReq[q] EXCEPT !.pc = "failed", !.seat = None]
  <2>1. unlockReq[q] \in UnlockCalls
    BY DEF TypeOK
  <2>2. call \in UnlockCalls /\ call.pc = "failed"
    BY <2>1 DEF UnlockCalls
  <2>3. UnlockTo(q, call)
    BY <1>3
  <2>. HIDE DEF call
  <2>4. UnlockKnown' /\ unlockReq' \in [UnlockRequests -> UnlockCalls]
    BY <2>2, <2>3, UnlockKnownKept
  <2>5. TypeOK'
    BY <1>1, <1>3, <2>4 DEF TypeOK
  <2>6. CallsKnown' /\ SeatInHand' /\ RowWritten' /\ ExpiredRowLapsed'
    BY <1>1, <1>3, <2>5, RowsOnlyGo DEF TypeOK
  <2>. QED BY <1>3, <2>4, <2>5, <2>6 DEF Inv, SweepKnown
<1>4. ASSUME NEW w \in Sweeps, SweepTo(w, [pc |-> "idle", rows |-> {}, row |-> None]),
             lockReq' = lockReq, unlockReq' = unlockReq
      PROVE  Inv'
  <2>. DEFINE call == [pc |-> "idle", rows |-> {}, row |-> None]
  <2>1. call \in SweepCalls /\ call.pc = "idle" /\ SweepTo(w, call)
    BY <1>4 DEF SweepCalls
  <2>. HIDE DEF call
  <2>2. SweepKnown' /\ sweep' \in [Sweeps -> SweepCalls]
    BY <2>1, SweepKnownKept
  <2>3. TypeOK'
    BY <1>1, <1>4, <2>2 DEF TypeOK
  <2>4. CallsKnown' /\ SeatInHand' /\ RowWritten' /\ ExpiredRowLapsed'
    BY <1>1, <1>4, <2>3, RowsOnlyGo DEF TypeOK
  <2>. QED BY <1>4, <2>2, <2>3, <2>4 DEF Inv, UnlockKnown
<1>. QED BY <1>2, <1>3, <1>4 DEF HandlerDies

(* The invariant is kept by every step of the service and of its world. *)
LEMMA InvStep == Inv /\ [Next]_vars => Inv'
<1>1. ASSUME Inv, Next  PROVE Inv'
  <2>1. ASSUME ServiceNext  PROVE Inv'
    BY <1>1, <2>1, LockInv, UnlockInv, SweepInv, WorldInv, DeathInv DEF ServiceNext
  <2>. QED BY <1>1, <2>1, WorldInv DEF Next
<1>2. ASSUME Inv, UNCHANGED vars  PROVE Inv'
  BY <1>2 DEF vars, handlers, Inv, TypeOK, CallsKnown, RowWritten, LockingSeat, SeatInHand,
     SweepKnown, UnlockKnown, ExpiredRowLapsed
<1>. QED BY <1>1, <1>2

-----------------------------------------------------------------------------
(* The seat service's variables keep their types, whatever handlers run,     *)
(* interleave at their awaits and die.                                       *)
THEOREM TypeCorrect == Spec => []TypeOK
<1>1. Inv => TypeOK
  BY DEF Inv
<1>. QED BY InitInv, InvStep, <1>1, PTL DEF Spec

(* A row past its expires_at is never the row of a running lease, for any    *)
(* number of buyers, sweeps and seats: the upsert that takes an old row over *)
(* renews its expiry too, so the sweep can only ever read lapsed holds.      *)
THEOREM ExpiredRowsLapsed == Spec => []ExpiredRowLapsed
<1>1. Inv => ExpiredRowLapsed
  BY DEF Inv
<1>. QED BY InitInv, InvStep, <1>1, PTL DEF Spec

(* A seat the handlers name exists, and they write it under its status only. *)
LEMMA StepKeepsContract == Inv /\ ServiceNext => [SeatHold]_seats
<1>. SUFFICES ASSUME Inv, ServiceNext  PROVE SeatHold \/ seats' = seats
  OBVIOUS
<1>1. ASSUME NEW r \in LockRequests, LockStep(r)  PROVE SeatHold \/ seats' = seats
  <2>1. CASE LockUpdate(r)
    <3>1. lockReq[r].seat \in Seats
      BY <2>1 DEF LockUpdate, AtLock, Inv, CallsKnown
    <3>. QED BY <2>1, <3>1 DEF LockUpdate, LockSeat, SeatHold
  <2>2. CASE ~ LockUpdate(r)
    BY <1>1, <2>2 DEF LockStep, LockSelect, LockAcquire, LockInsert, LockReply
  <2>. QED BY <2>1, <2>2
<1>2. ASSUME NEW q \in UnlockRequests, UnlockStep(q)  PROVE SeatHold \/ seats' = seats
  <2>1. CASE UnlockUpdate(q)
    <3>1. unlockReq[q].seat \in Seats
      BY <2>1 DEF UnlockUpdate, AtUnlock, Inv, UnlockKnown
    <3>. QED BY <2>1, <3>1 DEF UnlockUpdate, FreeSeat, SeatHold
  <2>2. CASE ~ UnlockUpdate(q)
    BY <1>2, <2>2 DEF UnlockStep, UnlockRelease, UnlockDelete
  <2>. QED BY <2>1, <2>2
<1>3. ASSUME NEW w \in Sweeps, SweepStep(w)  PROVE SeatHold \/ seats' = seats
  <2>1. CASE SweepUpdate(w)
    <3>1. sweep[w].row.seat \in Seats
      BY <2>1 DEF SweepUpdate, AtSweep, Inv, SweepKnown, Rows
    <3>. QED BY <2>1, <3>1 DEF SweepUpdate, FreeSeat, SeatHold
  <2>2. CASE ~ SweepUpdate(w)
    BY <1>3, <2>2 DEF SweepStep, SweepSelect, SweepRelease, SweepDelete
  <2>. QED BY <2>1, <2>2
<1>4. ASSUME \/ \E r \in LockRequests, u \in Users, asked \in (SUBSET Seats) \ {{}} : LockCall(r, u, asked)
             \/ \E q \in UnlockRequests, u \in Users, asked \in (SUBSET Seats) \ {{}} : UnlockCall(q, u, asked)
             \/ \E v \in Readers : ReadQuery(v) \/ ReadFill(v)
             \/ HandlerDies
      PROVE  seats' = seats
  BY <1>4 DEF LockCall, UnlockCall, ReadQuery, ReadFill, HandlerDies
<1>. QED BY <1>1, <1>2, <1>3, <1>4 DEF ServiceNext

(* The seat service's half of the contract on the `seats` table, for every   *)
(* instance: stale locks, unlocks and sweeps exchange AVAILABLE and LOCKED   *)
(* and never touch a seat that has been reserved or sold meanwhile.          *)
THEOREM ContractKept == Spec => KeepsContract
<1>1. Inv /\ [Next]_vars => [ServiceNext => [SeatHold]_seats]_vars
  BY StepKeepsContract
<1>. QED BY InitInv, InvStep, <1>1, PTL DEF Spec, KeepsContract
=============================================================================
