------------------------------ MODULE Seating ------------------------------
(* POST /events/:id/seats/generate of services/event-service, called from    *)
(* the seating page: one INSERT per seat, each a statement of its own, then  *)
(* a COUNT and a SET of stock:<event>, which has no TTL and no reader.       *)
EXTENDS Naturals, FiniteSets

CONSTANTS Generators,   \* calls of generate, of one admin or of several
          Plan,         \* how many seats a call is to insert
          NoStock

(* There are finitely many calls, so one of them plans the most seats.       *)
ASSUME SeatingAssumption ==
    Plan \in [Generators -> Nat] /\ \E h \in Generators : \A g \in Generators : Plan[g] <= Plan[h]

VARIABLES event,        \* the row of the event is there
          seatRows,     \* its seats, numbered in the order of the two loops
          stock,
          generator     \* pc; next: the seat to insert; count: what COUNT returned

seatingVars == <<event, seatRows, stock, generator>>

MostSeats == CHOOSE n \in {Plan[g] : g \in Generators} : \A g \in Generators : Plan[g] <= n

SeatingTypeOK ==
    /\ event \in BOOLEAN
    /\ seatRows \subseteq 1 .. MostSeats
    /\ stock \in 0 .. MostSeats \union {NoStock}
    /\ generator \in [Generators -> [pc : {"idle", "insert", "set", "done", "failed", "dead"},
                                     next : 1 .. MostSeats + 1, count : 0 .. MostSeats]]

SeatingInit ==
    /\ event = TRUE /\ seatRows = {} /\ stock = NoStock
    /\ generator = [g \in Generators |-> [pc |-> "idle", next |-> 1, count |-> 0]]

AtGenerator(g, pc) == generator[g].pc = pc
Generating(g, pc, next, count) ==
    generator' = [generator EXCEPT ![g] = [pc |-> pc, next |-> next, count |-> count]]

GenerateSeats(g) ==
    /\ AtGenerator(g, "idle")
    /\ Generating(g, "insert", 1, 0)
    /\ UNCHANGED <<event, seatRows, stock>>

(* ON CONFLICT DO NOTHING: the seat of another call stays as it is.          *)
(* The COUNT at the end is of AVAILABLE seats: buyers may have taken some.   *)
(* Slips: the clause is missing; the inner loop goes one seat too far.       *)
Accepted_NoConflict(seat) == event /\ seat \notin seatRows
Accepted(seat) == event
Planned_Long(g) == 1 .. Plan[g] + 1
Planned(g) == 1 .. Plan[g]

InsertSeat(g) ==
    /\ AtGenerator(g, "insert")
    /\ LET seat == generator[g].next
       IN  IF seat \notin Planned(g)
           THEN /\ \E left \in 0 .. Cardinality(seatRows) : Generating(g, "set", seat, left)
                /\ UNCHANGED seatRows
           ELSE IF Accepted(seat) THEN Generating(g, "insert", seat + 1, 0) /\ seatRows' = seatRows \union {seat}
           ELSE Generating(g, "failed", seat, 0) /\ UNCHANGED seatRows
    /\ UNCHANGED <<event, stock>>

(* The count may be an old one by now. *)
SetStock(g) ==
    /\ AtGenerator(g, "set")
    /\ stock' = generator[g].count
    /\ Generating(g, "done", generator[g].next, generator[g].count)
    /\ UNCHANGED <<event, seatRows>>

GenerateDies(g) ==
    /\ AtGenerator(g, "insert") \/ AtGenerator(g, "set")
    /\ Generating(g, "dead", generator[g].next, 0)
    /\ UNCHANGED <<event, seatRows, stock>>

(* DELETE /events/:id takes the seats with it, not the key.                  *)
DeleteEvent ==
    /\ event /\ event' = FALSE /\ seatRows' = {}
    /\ UNCHANGED <<stock, generator>>

SeatingNext ==
    \/ \E g \in Generators : GenerateSeats(g) \/ InsertSeat(g) \/ SetStock(g) \/ GenerateDies(g)
    \/ DeleteEvent

-----------------------------------------------------------------------------
(* Properties *)

(* Calls that overlap, repeat one that died half-way or differ in size:      *)
(* whoever is told that the seats are generated has all of its own, and a    *)
(* call is refused only when the event is gone.                              *)
GenerationWhole == \A g \in Generators :
    /\ AtGenerator(g, "done") /\ event => 1 .. Plan[g] \subseteq seatRows
    /\ AtGenerator(g, "failed") => ~ event
=============================================================================
