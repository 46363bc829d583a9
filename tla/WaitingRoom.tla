---------------------------- MODULE WaitingRoom ----------------------------
(* The waiting room of one event: in services/seat-service a Redis counter   *)
(* of admitted buyers, with a TTL, and a sorted set of those who wait,       *)
(* scored with the time they joined; on the event page what a buyer is told. *)
(* The handlers are split at each Redis call.  Nothing ever decrements the   *)
(* counter: only its expiry does.  Join's reply and the event of the         *)
(* admission travel apart (HTTP and Socket.IO), so either may come first.    *)
EXTENDS Integers, FiniteSets

CONSTANTS Buyers,
          Joins,        \* concurrent calls of join; a page may send several
          Admits,       \* concurrent calls of admit-next
          MaxActive,    \* WAITING_ROOM_MAX_ACTIVE
          MaxUpsets,    \* bound: pages opened again, connections lost, calls that die
          Nobody

ASSUME WaitingRoomAssumption ==
    /\ IsFiniteSet(Joins) /\ IsFiniteSet(Buyers) /\ Nobody \notin Buyers
    /\ MaxActive \in Nat \ {0} /\ MaxUpsets \in Nat

VARIABLES active,       \* queue:<event>:active_users; no key counts as 0
          activeTtl,    \* the key has an expiry
          waiting,      \* queue:<event>:waiting, scores; 0: not a member
          joinReq, admitReq,    \* handlers in flight
          queueStatus,  \* what the page of each user shows
          inRoom,       \* users whose page's socket is in the room user:<id>
          events,       \* users with a queue:admitted on its way to their page
          upsets,
          decided,      \* history: what the room last decided for a user
          extra         \* history: increments by admit-next since the counter started

counterVars == <<active, activeTtl, extra>>
pageVars == <<queueStatus, inRoom, events>>
roomVars == <<counterVars, waiting, joinReq, admitReq, pageVars, upsets, decided>>

Status == {"none", "waiting", "admitted"}
JoinPc == {"idle", "incr", "expire", "zadd", "zrank", "reply"}
AdmitPc == {"idle", "zrem", "incr", "dead"}
JoinCalls == [pc : JoinPc, user : Buyers \union {Nobody}, place : Nat]
AdmitCalls == [pc : AdmitPc, user : Buyers \union {Nobody}]

RoomTypeOK ==
    /\ active \in Nat /\ extra \in Nat
    /\ activeTtl \in BOOLEAN
    /\ waiting \in [Buyers -> Nat]
    /\ joinReq \in [Joins -> JoinCalls] /\ admitReq \in [Admits -> AdmitCalls]
    /\ queueStatus \in [Buyers -> Status] /\ decided \in [Buyers -> Status]
    /\ inRoom \in SUBSET Buyers /\ events \in SUBSET Buyers
    /\ upsets \in 0 .. MaxUpsets

RoomInit ==
    /\ active = 0 /\ extra = 0
    /\ activeTtl = FALSE
    /\ waiting = [u \in Buyers |-> 0]
    /\ joinReq = [j \in Joins |-> [pc |-> "idle", user |-> Nobody, place |-> 0]]
    /\ admitReq = [a \in Admits |-> [pc |-> "idle", user |-> Nobody]]
    /\ queueStatus = [u \in Buyers |-> "none"] /\ decided = [u \in Buyers |-> "none"]
    /\ inRoom = Buyers /\ events = {}
    /\ upsets = 0

Members == {u \in Buyers : waiting[u] # 0}

(* ZRANK, from 1; 0 for a user who is not in the set.  This is also the      *)
(* reply of GET position, which calls such a user `admitted`.                *)
Position(u) == IF u \in Members
               THEN 1 + Cardinality({v \in Members : waiting[v] < waiting[u]})
               ELSE 0

(* ZRANGE 0 0; scores of one millisecond are ordered by name, any order here *)
First == {u \in Members : \A v \in Members : waiting[u] <= waiting[v]}

(* Date.now, which never runs back; only how scores compare is kept of it.   *)
Now == LET Latest == {n \in {1} \union {waiting[u] : u \in Members} : \A v \in Members : waiting[v] <= n}
       IN  Latest \union {n + 1 : n \in Latest}

-----------------------------------------------------------------------------
(* POST /waiting-room/:eventId/join *)

AtJoin(j, pc) == joinReq[j].pc = pc
JoinTo(j, pc, u, place) == joinReq' = [joinReq EXCEPT ![j] = [pc |-> pc, user |-> u, place |-> place]]

(* Slip: one place too many. *)
HasRoom_OffByOne == active <= MaxActive
HasRoom == active < MaxActive

(* joinWaitingRoom: the button is there until the page has a status, so a    *)
(* second click before the reply sends a second join.                        *)
JoinOffered(u) == queueStatus[u] = "none"

JoinRead(j, u) ==
    /\ JoinOffered(u) /\ AtJoin(j, "idle")
    /\ JoinTo(j, IF HasRoom THEN "incr" ELSE "zadd", u, 0)
    /\ UNCHANGED <<counterVars, waiting, admitReq, pageVars, upsets, decided>>

JoinIncr(j) ==
    /\ AtJoin(j, "incr")
    /\ LET u == joinReq[j].user
       IN  /\ decided' = [decided EXCEPT ![u] = "admitted"]
           /\ JoinTo(j, "expire", u, 0)
    /\ active' = active + 1
    /\ UNCHANGED <<activeTtl, extra, waiting, admitReq, pageVars, upsets>>

(* EXPIRE 3600, on whatever key there is by now *)
JoinExpire(j) ==
    /\ AtJoin(j, "expire")
    /\ activeTtl' = (activeTtl \/ active > 0)
    /\ JoinTo(j, "reply", joinReq[j].user, 0)
    /\ UNCHANGED <<active, extra, waiting, admitReq, pageVars, upsets, decided>>

(* ZADD with score Date.now: a user who is in the set moves to its end.      *)
JoinZadd(j) ==
    /\ AtJoin(j, "zadd")
    /\ LET u == joinReq[j].user
       IN  /\ \E now \in Now : waiting' = [waiting EXCEPT ![u] = now]
           /\ decided' = [decided EXCEPT ![u] = "waiting"]
           /\ JoinTo(j, "zrank", u, 0)
    /\ UNCHANGED <<counterVars, admitReq, pageVars, upsets>>

(* (position ?? 0) + 1, also when the user was admitted in the meantime *)
JoinRank(j) ==
    /\ AtJoin(j, "zrank")
    /\ LET u == joinReq[j].user
       IN  JoinTo(j, "reply", u, IF u \in Members THEN Position(u) ELSE 1)
    /\ UNCHANGED <<counterVars, waiting, admitReq, pageVars, upsets, decided>>

(* The page shows what it is told, whatever it showed. *)
JoinReply(j) ==
    /\ AtJoin(j, "reply")
    /\ queueStatus' = [queueStatus EXCEPT ![joinReq[j].user] =
            IF joinReq[j].place = 0 THEN "admitted" ELSE "waiting"]
    /\ JoinTo(j, "idle", Nobody, 0)
    /\ UNCHANGED <<counterVars, waiting, admitReq, inRoom, events, upsets, decided>>

JoinStep(j) == JoinIncr(j) \/ JoinExpire(j) \/ JoinZadd(j) \/ JoinRank(j) \/ JoinReply(j)

-----------------------------------------------------------------------------
(* POST /waiting-room/:eventId/admit-next *)

AdmitTo(a, pc, user) == admitReq' = [admitReq EXCEPT ![a] = [pc |-> pc, user |-> user]]

AdmitRange(a, u) ==
    /\ admitReq[a].pc = "idle" /\ u \in First
    /\ AdmitTo(a, "zrem", u)
    /\ UNCHANGED <<counterVars, waiting, joinReq, pageVars, upsets, decided>>

(* Slip: it drops whoever is first by now (ZREMRANGEBYRANK 0 0). *)
Dropped_First(a) == IF First = {} THEN admitReq[a].user ELSE CHOOSE u \in First : TRUE
Dropped(a) == admitReq[a].user

(* ZREM by name; how many members it removed is not looked at.               *)
AdmitRem(a) ==
    /\ admitReq[a].pc = "zrem"
    /\ waiting' = [waiting EXCEPT ![Dropped(a)] = 0]
    /\ AdmitTo(a, "incr", admitReq[a].user)
    /\ UNCHANGED <<counterVars, joinReq, pageVars, upsets, decided>>

(* Slip: an admission is taken for a place that has become free (DECR). *)
CountAdmitted_Down == active' = active - 1
CountAdmitted == active' = active + 1

(* INCR, without MAX_ACTIVE and without EXPIRE; queue:admitted goes to the   *)
(* room of the user, whoever is in it now.                                   *)
AdmitIncr(a) ==
    /\ admitReq[a].pc = "incr"
    /\ LET u == admitReq[a].user
       IN  /\ decided' = [decided EXCEPT ![u] = "admitted"]
           /\ events' = events \union ({u} \intersect inRoom)
    /\ CountAdmitted /\ extra' = extra + 1
    /\ AdmitTo(a, "idle", Nobody)
    /\ UNCHANGED <<activeTtl, waiting, joinReq, queueStatus, inRoom, upsets>>

(* The call dies at an await.  Between ZREM and INCR it takes the user with it. *)
AdmitDies(a) ==
    /\ upsets < MaxUpsets /\ upsets' = upsets + 1
    /\ admitReq[a].pc \in {"zrem", "incr"}
    /\ AdmitTo(a, "dead", admitReq[a].user)
    /\ UNCHANGED <<counterVars, waiting, joinReq, pageVars, decided>>

(* The TTL runs out: the count starts over, whoever is still inside.         *)
CounterLapses ==
    /\ activeTtl
    /\ active' = 0 /\ extra' = 0 /\ activeTtl' = FALSE
    /\ UNCHANGED <<waiting, joinReq, admitReq, pageVars, upsets, decided>>

-----------------------------------------------------------------------------
(* The page's socket *)

Receive(u) ==
    /\ u \in events
    /\ queueStatus' = [queueStatus EXCEPT ![u] = "admitted"]
    /\ events' = events \ {u}
    /\ UNCHANGED <<counterVars, waiting, joinReq, admitReq, inRoom, upsets, decided>>

(* The connection breaks.  socket.io connects again by itself, but nothing   *)
(* sends join:user again, and what was emitted meanwhile is gone.            *)
SocketDrop(u) ==
    /\ upsets < MaxUpsets /\ upsets' = upsets + 1
    /\ u \in inRoom
    /\ inRoom' = inRoom \ {u} /\ events' = events \ {u}
    /\ UNCHANGED <<counterVars, waiting, joinReq, admitReq, queueStatus, decided>>

(* The page is opened again, with a new socket that sends join:user: the page *)
(* has forgotten everything, the service nothing.                             *)
Reopen(u) ==
    /\ upsets < MaxUpsets /\ upsets' = upsets + 1
    /\ \A j \in Joins : joinReq[j].user # u
    /\ queueStatus' = [queueStatus EXCEPT ![u] = "none"]
    /\ inRoom' = inRoom \union {u} /\ events' = events \ {u}
    /\ UNCHANGED <<counterVars, waiting, joinReq, admitReq, decided>>

RoomNext ==
    \/ \E j \in Joins, u \in Buyers : JoinRead(j, u)
    \/ \E j \in Joins : JoinStep(j)
    \/ \E a \in Admits, u \in Buyers : AdmitRange(a, u)
    \/ \E a \in Admits : AdmitRem(a) \/ AdmitIncr(a) \/ AdmitDies(a)
    \/ CounterLapses
    \/ \E u \in Buyers : Receive(u) \/ SocketDrop(u) \/ Reopen(u)

RoomSpec == RoomInit /\ [][RoomNext]_roomVars

-----------------------------------------------------------------------------
(* Properties *)

(* MAX_ACTIVE is checked before it is used: joins that overlap go past it,   *)
(* but never by more than the joins in flight at once, less one; beyond that *)
(* only admit-next raises the count, which does not look at MAX_ACTIVE.      *)
Promised == {j \in Joins : AtJoin(j, "incr")}
ActiveBounded == active + Cardinality(Promised) < MaxActive + Cardinality(Joins) + extra

(* Nobody drops out of the queue: a buyer put into it and not admitted since *)
(* is in the set, or an admit-next has just taken exactly this buyer (and    *)
(* has, unless it died, still to admit them).                                *)
WaitingKept == \A u \in Buyers :
    decided[u] = "waiting" /\ u \notin Members =>
        \E a \in Admits : admitReq[a].user = u /\ admitReq[a].pc \in {"incr", "dead"}
=============================================================================
