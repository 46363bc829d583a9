------------------------- MODULE WaitingRoomProofs -------------------------
(* The waiting room for every set of users and of calls, every MAX_ACTIVE    *)
(* and every number of upsets.                                               *)
EXTENDS WaitingRoom, FiniteSetTheorems, TLAPS

(* A call that is under way has a user. *)
CallsKnown ==
    /\ \A j \in Joins : joinReq[j].pc # "idle" => joinReq[j].user \in Buyers
    /\ \A a \in Admits : admitReq[a].pc # "idle" => admitReq[a].user \in Buyers

Inv == RoomTypeOK /\ CallsKnown /\ ActiveBounded /\ WaitingKept

USE WaitingRoomAssumption

-----------------------------------------------------------------------------
(* The operators of the model *)

(* A position is a number, whether or not the user is in the set. *)
LEMMA PositionIsNumber ==
    ASSUME RoomTypeOK, NEW u \in Buyers
    PROVE  Position(u) \in Nat
<1>1. {v \in Members : waiting[v] < waiting[u]} \in SUBSET Buyers
  BY DEF Members
<1>2. Cardinality({v \in Members : waiting[v] < waiting[u]}) \in Nat
  BY <1>1, FS_Subset, FS_CardinalityType
<1>. QED BY <1>2 DEF Position

(* A new score is a number and never the 0 of a user who is not in the set.  *)
LEMMA NowIsScore ==
    ASSUME RoomTypeOK, NEW now \in Now
    PROVE  now \in Nat \ {0}
<1>. DEFINE scores == {1} \union {waiting[u] : u \in Members}
            Latest == {n \in scores : \A v \in Members : waiting[v] <= n}
<1>1. scores \subseteq Nat \ {0}
  BY DEF Members, RoomTypeOK
<1>2. now \in Latest \/ \E n \in Latest : now = n + 1
  BY DEF Now
<1>3. Latest \subseteq Nat \ {0}
  BY <1>1
<1>4. \A n \in Nat \ {0} : n + 1 \in Nat \ {0}
  OBVIOUS
<1>. HIDE DEF scores, Latest
<1>. QED BY <1>2, <1>3, <1>4

(* What a step of one join does to the table of joins. *)
LEMMA JoinToOne ==
    ASSUME RoomTypeOK, NEW j \in Joins, NEW u \in Buyers \union {Nobody}, NEW place \in Nat,
           NEW pc \in JoinPc,
           JoinTo(j, pc, u, place)
    PROVE  /\ joinReq' \in [Joins -> JoinCalls]
           /\ joinReq'[j].pc = pc /\ joinReq'[j].user = u
           /\ \A i \in Joins : i # j => joinReq'[i] = joinReq[i]
BY DEF RoomTypeOK, JoinTo, JoinCalls

(* What a step of one admit-next does to the table of admissions. *)
LEMMA AdmitToOne ==
    ASSUME RoomTypeOK, NEW a \in Admits, NEW u \in Buyers \union {Nobody},
           NEW pc \in AdmitPc, AdmitTo(a, pc, u)
    PROVE  /\ admitReq' \in [Admits -> AdmitCalls]
           /\ admitReq'[a].pc = pc /\ admitReq'[a].user = u
           /\ \A b \in Admits : b # a => admitReq'[b] = admitReq[b]
BY DEF RoomTypeOK, AdmitTo, AdmitCalls

(* The joins that were promised a place are some of the joins. *)
LEMMA PromisedFinite ==
    /\ IsFiniteSet(Promised) /\ Cardinality(Promised) \in Nat
    /\ Cardinality(Promised) <= Cardinality(Joins) /\ Cardinality(Joins) \in Nat
BY FS_Subset, FS_CardinalityType DEF Promised

-----------------------------------------------------------------------------
(* The initial state has no calls and nobody waiting. *)
LEMMA InitInv == RoomInit => Inv
<1>. SUFFICES ASSUME RoomInit  PROVE Inv
  OBVIOUS
<1>a. /\ [pc |-> "idle", user |-> Nobody, place |-> 0] \in JoinCalls
      /\ [pc |-> "idle", user |-> Nobody] \in AdmitCalls
  BY DEF JoinCalls, AdmitCalls, JoinPc, AdmitPc
<1>b. joinReq \in [Joins -> JoinCalls] /\ admitReq \in [Admits -> AdmitCalls]
  BY <1>a DEF RoomInit
<1>c. activeTtl \in BOOLEAN
  BY DEF RoomInit
<1>d. upsets \in 0 .. MaxUpsets
  BY DEF RoomInit
<1>1. RoomTypeOK
  BY <1>b, <1>c, <1>d DEF RoomInit, RoomTypeOK, Status
<1>2. CallsKnown /\ WaitingKept
  BY DEF RoomInit, CallsKnown, WaitingKept
<1>3. Promised = {} /\ active = 0 /\ extra = 0
  BY DEF RoomInit, Promised, AtJoin
<1>4. ActiveBounded
  BY <1>3, FS_EmptySet, PromisedFinite DEF ActiveBounded
<1>. QED BY <1>1, <1>2, <1>4 DEF Inv

(* A step of one join does to the promised places what its new pc says. *)
LEMMA PromisedAfter ==
    ASSUME RoomTypeOK, NEW j \in Joins, NEW u \in Buyers \union {Nobody}, NEW place \in Nat,
           NEW pc \in JoinPc,
           JoinTo(j, pc, u, place)
    PROVE  /\ pc = "incr" => /\ Promised' = Promised \union {j}
                             /\ Cardinality(Promised') <= Cardinality(Joins)
           /\ pc # "incr" => /\ Promised' = Promised \ {j}
                             /\ Cardinality(Promised') =
                                  IF AtJoin(j, "incr") THEN Cardinality(Promised) - 1
                                                       ELSE Cardinality(Promised)
           /\ Cardinality(Promised') \in Nat
<1>1. /\ joinReq'[j].pc = pc
      /\ \A i \in Joins : i # j => joinReq'[i] = joinReq[i]
  BY JoinToOne
<1>2. IF pc = "incr" THEN Promised' = Promised \union {j} ELSE Promised' = Promised \ {j}
  BY <1>1 DEF Promised, AtJoin
<1>3. j \in Promised <=> AtJoin(j, "incr")
  BY DEF Promised
<1>4. Promised' \in SUBSET Joins
  BY DEF Promised
<1>. QED BY <1>2, <1>3, <1>4, PromisedFinite, FS_RemoveElement, FS_Subset, FS_CardinalityType

-----------------------------------------------------------------------------
(* POST /waiting-room/:eventId/join keeps every part. *)

LEMMA JoinReadInv ==
    ASSUME Inv, NEW j \in Joins, NEW u \in Buyers, JoinRead(j, u)
    PROVE  Inv'
<1>. DEFINE pc == IF HasRoom THEN "incr" ELSE "zadd"
<1>. USE DEF Inv
<1>1. /\ JoinTo(j, pc, u, 0) /\ AtJoin(j, "idle")
      /\ pc = "incr" => active < MaxActive
      /\ pc \in JoinPc
  BY DEF JoinRead, HasRoom, JoinPc
<1>2. UNCHANGED <<counterVars, waiting, admitReq, pageVars, upsets, decided>>
  BY DEF JoinRead
<1>. HIDE DEF pc
<1>3. RoomTypeOK'
  BY <1>1, <1>2, JoinToOne DEF RoomTypeOK, counterVars, pageVars
<1>4. CallsKnown'
  BY <1>1, <1>2, JoinToOne DEF CallsKnown
<1>5. ActiveBounded'
  BY <1>1, <1>2, PromisedAfter, PromisedFinite DEF ActiveBounded, RoomTypeOK, counterVars, AtJoin
<1>6. WaitingKept'
  BY <1>2 DEF WaitingKept, counterVars, Members
<1>. QED BY <1>3, <1>4, <1>5, <1>6

LEMMA JoinIncrInv ==
    ASSUME Inv, NEW j \in Joins, JoinIncr(j)
    PROVE  Inv'
<1>. DEFINE u == joinReq[j].user
<1>. USE DEF Inv
<1>1. u \in Buyers /\ AtJoin(j, "incr") /\ JoinTo(j, "expire", u, 0) /\ "expire" \in JoinPc
  BY DEF JoinIncr, AtJoin, CallsKnown, JoinPc
<1>2. /\ active' = active + 1
      /\ decided' = [decided EXCEPT ![u] = "admitted"]
      /\ UNCHANGED <<activeTtl, extra, waiting, admitReq, pageVars, upsets>>
  BY DEF JoinIncr
<1>. HIDE DEF u
<1>3. RoomTypeOK'
  BY <1>1, <1>2, JoinToOne DEF RoomTypeOK, pageVars, Status
<1>4. CallsKnown'
  BY <1>1, <1>2, JoinToOne DEF CallsKnown
<1>5. ActiveBounded'
  BY <1>1, <1>2, PromisedAfter, PromisedFinite DEF ActiveBounded, RoomTypeOK
<1>6. WaitingKept'
  BY <1>1, <1>2 DEF WaitingKept, Members, RoomTypeOK
<1>. QED BY <1>3, <1>4, <1>5, <1>6

LEMMA JoinExpireInv ==
    ASSUME Inv, NEW j \in Joins, JoinExpire(j)
    PROVE  Inv'
<1>. USE DEF Inv
<1>1. /\ joinReq[j].user \in Buyers /\ ~ AtJoin(j, "incr")
      /\ JoinTo(j, "reply", joinReq[j].user, 0) /\ "reply" \in JoinPc
  BY DEF JoinExpire, AtJoin, CallsKnown, JoinPc
<1>2. /\ activeTtl' \in BOOLEAN
      /\ UNCHANGED <<active, extra, waiting, admitReq, pageVars, upsets, decided>>
  BY DEF JoinExpire, RoomTypeOK
<1>3. RoomTypeOK'
  BY <1>1, <1>2, JoinToOne DEF RoomTypeOK, pageVars
<1>4. CallsKnown'
  BY <1>1, <1>2, JoinToOne DEF CallsKnown
<1>5. ActiveBounded'
  BY <1>1, <1>2, PromisedAfter DEF ActiveBounded
<1>6. WaitingKept'
  BY <1>2 DEF WaitingKept, Members
<1>. QED BY <1>3, <1>4, <1>5, <1>6

LEMMA JoinZaddInv ==
    ASSUME Inv, NEW j \in Joins, JoinZadd(j)
    PROVE  Inv'
<1>. DEFINE u == joinReq[j].user
<1>. USE DEF Inv
<1>1. u \in Buyers /\ ~ AtJoin(j, "incr") /\ JoinTo(j, "zrank", u, 0) /\ "zrank" \in JoinPc
  BY DEF JoinZadd, AtJoin, CallsKnown, JoinPc
<1>2. /\ decided' = [decided EXCEPT ![u] = "waiting"]
      /\ UNCHANGED <<counterVars, admitReq, pageVars, upsets>>
  BY DEF JoinZadd
<1>3. PICK now \in Nat \ {0} : waiting' = [waiting EXCEPT ![u] = now]
  BY NowIsScore DEF JoinZadd
<1>. HIDE DEF u
<1>4. RoomTypeOK'
  BY <1>1, <1>2, <1>3, JoinToOne DEF RoomTypeOK, counterVars, pageVars, Status
<1>5. CallsKnown'
  BY <1>1, <1>2, JoinToOne DEF CallsKnown
<1>6. ActiveBounded'
  BY <1>1, <1>2, PromisedAfter DEF ActiveBounded, counterVars
<1>7. WaitingKept'
  BY <1>1, <1>2, <1>3 DEF WaitingKept, Members, RoomTypeOK
<1>. QED BY <1>4, <1>5, <1>6, <1>7

(* The two steps that only report: ZRANK and the reply. *)
LEMMA JoinReportInv ==
    ASSUME Inv, NEW j \in Joins, JoinRank(j) \/ JoinReply(j)
    PROVE  Inv'
<1>. USE DEF Inv
<1>1. PICK pc \in {"reply", "idle"}, u \in Buyers \union {Nobody}, place \in Nat :
        JoinTo(j, pc, u, place) /\ (pc = "reply" => u \in Buyers)
  <2>1. CASE JoinRank(j)
    <3>1. joinReq[j].user \in Buyers
      BY <2>1 DEF JoinRank, AtJoin, CallsKnown
    <3>. QED BY <2>1, <3>1, PositionIsNumber DEF JoinRank
  <2>2. CASE JoinReply(j)
    BY <2>2 DEF JoinReply
  <2>. QED BY <2>1, <2>2
<1>a. pc \in JoinPc /\ pc # "incr"
  BY DEF JoinPc
<1>2. /\ ~ AtJoin(j, "incr") /\ queueStatus' \in [Buyers -> Status]
      /\ UNCHANGED <<counterVars, waiting, admitReq, inRoom, events, upsets, decided>>
  BY DEF JoinRank, JoinReply, AtJoin, RoomTypeOK, Status, pageVars
<1>3. RoomTypeOK'
  BY <1>1, <1>a, <1>2, JoinToOne DEF RoomTypeOK, counterVars
<1>4. CallsKnown'
  BY <1>1, <1>a, <1>2, JoinToOne DEF CallsKnown
<1>5. ActiveBounded'
  BY <1>1, <1>a, <1>2, PromisedAfter DEF ActiveBounded, counterVars
<1>6. WaitingKept'
  BY <1>2 DEF WaitingKept, counterVars, Members
<1>. QED BY <1>3, <1>4, <1>5, <1>6

-----------------------------------------------------------------------------
(* POST /waiting-room/:eventId/admit-next keeps every part. *)

(* ZRANGE and ZREM: a user on their way out is in the hand of the call.      *)
LEMMA AdmitTakeInv ==
    ASSUME Inv, NEW a \in Admits, AdmitRem(a) \/ \E u \in Buyers : AdmitRange(a, u)
    PROVE  Inv'
<1>. USE DEF Inv
<1>1. /\ UNCHANGED <<counterVars, joinReq, pageVars, upsets, decided>>
  BY DEF AdmitRange, AdmitRem
<1>2. PICK u \in Buyers, pc \in AdmitPc : /\ AdmitTo(a, pc, u) /\ pc # "idle"
                                      /\ \/ admitReq[a].pc = "idle" /\ waiting' = waiting
                                         \/ /\ admitReq[a].pc = "zrem" /\ pc = "incr"
                                            /\ waiting' = [waiting EXCEPT ![u] = 0]
  BY DEF AdmitRange, AdmitRem, Dropped, CallsKnown, AdmitPc
<1>3. RoomTypeOK'
  BY <1>1, <1>2, AdmitToOne DEF RoomTypeOK, counterVars, pageVars
<1>4. CallsKnown'
  BY <1>1, <1>2, AdmitToOne DEF CallsKnown
<1>5. ActiveBounded'
  BY <1>1 DEF ActiveBounded, Promised, AtJoin, counterVars
<1>6. WaitingKept'
  BY <1>1, <1>2, AdmitToOne DEF WaitingKept, Members, RoomTypeOK
<1>. QED BY <1>3, <1>4, <1>5, <1>6

LEMMA AdmitIncrInv ==
    ASSUME Inv, NEW a \in Admits, AdmitIncr(a)
    PROVE  Inv'
<1>. DEFINE u == admitReq[a].user
<1>. USE DEF Inv
<1>1. u \in Buyers /\ AdmitTo(a, "idle", Nobody) /\ "idle" \in AdmitPc
  BY DEF AdmitIncr, CallsKnown, AdmitPc
<1>2. /\ active' = active + 1 /\ extra' = extra + 1
      /\ decided' = [decided EXCEPT ![u] = "admitted"] /\ events' \in SUBSET Buyers
      /\ UNCHANGED <<activeTtl, waiting, joinReq, queueStatus, inRoom, upsets>>
  BY <1>1 DEF AdmitIncr, CountAdmitted, RoomTypeOK
<1>3. \A b \in Admits : b # a => admitReq'[b] = admitReq[b]
  BY <1>1, AdmitToOne
<1>4. WaitingKept'
  BY <1>1, <1>2, <1>3 DEF WaitingKept, Members, RoomTypeOK
<1>. HIDE DEF u
<1>5. RoomTypeOK'
  BY <1>1, <1>2, AdmitToOne DEF RoomTypeOK, Status
<1>6. CallsKnown'
  BY <1>1, <1>2, AdmitToOne DEF CallsKnown
<1>7. ActiveBounded'
  BY <1>2, PromisedFinite DEF ActiveBounded, Promised, AtJoin, RoomTypeOK
<1>. QED BY <1>4, <1>5, <1>6, <1>7

LEMMA AdmitDiesInv ==
    ASSUME Inv, NEW a \in Admits, AdmitDies(a)
    PROVE  Inv'
<1>. USE DEF Inv
<1>1. /\ admitReq[a].user \in Buyers /\ AdmitTo(a, "dead", admitReq[a].user)
      /\ "dead" \in AdmitPc
  BY DEF AdmitDies, CallsKnown, AdmitPc
<1>2. /\ upsets' \in 0 .. MaxUpsets
      /\ UNCHANGED <<counterVars, waiting, joinReq, pageVars, decided>>
  BY DEF AdmitDies, RoomTypeOK
<1>3. RoomTypeOK'
  BY <1>1, <1>2, AdmitToOne DEF RoomTypeOK, counterVars, pageVars
<1>4. CallsKnown'
  BY <1>1, <1>2, AdmitToOne DEF CallsKnown
<1>5. ActiveBounded'
  BY <1>2 DEF ActiveBounded, Promised, AtJoin, counterVars
<1>6. WaitingKept'
  BY <1>1, <1>2, AdmitToOne DEF WaitingKept, Members, RoomTypeOK
<1>. QED BY <1>3, <1>4, <1>5, <1>6

-----------------------------------------------------------------------------
(* The counter's expiry starts the count and what is known of it over. *)
LEMMA CounterLapsesInv ==
    ASSUME Inv, CounterLapses
    PROVE  Inv'
<1>. USE DEF Inv
<1>1. /\ active' = 0 /\ extra' = 0
      /\ UNCHANGED <<waiting, joinReq, admitReq, pageVars, upsets, decided>>
  BY DEF CounterLapses
<1>2. activeTtl' \in BOOLEAN
  BY DEF CounterLapses
<1>3. RoomTypeOK'
  BY <1>1, <1>2 DEF RoomTypeOK, pageVars
<1>4. CallsKnown' /\ WaitingKept'
  BY <1>1 DEF CallsKnown, WaitingKept, Members
<1>5. ActiveBounded'
  BY <1>1, PromisedFinite DEF ActiveBounded, Promised, AtJoin
<1>. QED BY <1>3, <1>4, <1>5

(* What happens to a page and its socket changes nothing in the service. *)
LEMMA PageInv ==
    ASSUME Inv, NEW u \in Buyers, Receive(u) \/ SocketDrop(u) \/ Reopen(u)
    PROVE  Inv'
<1>. USE DEF Inv
<1>1. UNCHANGED <<counterVars, waiting, joinReq, admitReq, decided>>
  BY DEF Receive, SocketDrop, Reopen
<1>2. /\ upsets' \in 0 .. MaxUpsets
      /\ queueStatus' \in [Buyers -> Status]
      /\ inRoom' \in SUBSET Buyers /\ events' \in SUBSET Buyers
  BY DEF Receive, SocketDrop, Reopen, RoomTypeOK, Status
<1>3. RoomTypeOK'
  BY <1>1, <1>2 DEF RoomTypeOK, counterVars
<1>4. /\ CallsKnown' /\ WaitingKept' /\ ActiveBounded'
  BY <1>1 DEF CallsKnown, WaitingKept, Members, ActiveBounded, Promised, AtJoin,
             counterVars
<1>. QED BY <1>3, <1>4

(* Every step of the specification keeps the invariant. *)
LEMMA InvStep == Inv /\ [RoomNext]_roomVars => Inv'
<1>. SUFFICES ASSUME Inv, [RoomNext]_roomVars  PROVE Inv'
  OBVIOUS
<1>1. ASSUME NEW j \in Joins, NEW u \in Buyers, JoinRead(j, u)  PROVE Inv'
  BY <1>1, JoinReadInv
<1>2. ASSUME NEW j \in Joins, JoinStep(j)  PROVE Inv'
  BY <1>2, JoinIncrInv, JoinExpireInv, JoinZaddInv, JoinReportInv DEF JoinStep
<1>3. ASSUME NEW a \in Admits, NEW u \in Buyers, AdmitRange(a, u)  PROVE Inv'
  BY <1>3, AdmitTakeInv
<1>4. ASSUME NEW a \in Admits, AdmitRem(a) \/ AdmitIncr(a) \/ AdmitDies(a)  PROVE Inv'
  BY <1>4, AdmitTakeInv, AdmitIncrInv, AdmitDiesInv
<1>5. CASE CounterLapses
  BY <1>5, CounterLapsesInv
<1>6. ASSUME NEW u \in Buyers, Receive(u) \/ SocketDrop(u) \/ Reopen(u)  PROVE Inv'
  BY <1>6, PageInv
<1>7. CASE UNCHANGED roomVars
  BY <1>7 DEF roomVars, counterVars, pageVars, Inv, RoomTypeOK, CallsKnown, ActiveBounded,
             WaitingKept, Promised, AtJoin, Members
<1>. QED BY <1>1, <1>2, <1>3, <1>4, <1>5, <1>6, <1>7 DEF RoomNext

LEMMA Invariance == RoomSpec => []Inv
BY InitInv, InvStep, PTL DEF RoomSpec

-----------------------------------------------------------------------------
(* The counter, the set and the calls in flight keep their types. *)
THEOREM TypeCorrect == RoomSpec => []RoomTypeOK
BY Invariance, PTL DEF Inv

(* However many joins overlap and whatever lapses between their calls, the   *)
(* count goes past MAX_ACTIVE by less than the number of joins that can be   *)
(* in flight, apart from what admit-next adds without looking.               *)
THEOREM CountIsBounded == RoomSpec => []ActiveBounded
BY Invariance, PTL DEF Inv

(* Nobody drops out of the queue, except in the hands of an admit-next.      *)
THEOREM NobodyDropsOut == RoomSpec => []WaitingKept
BY Invariance, PTL DEF Inv
=============================================================================
