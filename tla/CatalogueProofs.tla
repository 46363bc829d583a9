-------------------------- MODULE CatalogueProofs --------------------------
(* Catalogue for any number of readers, writers, generators and pages: what  *)
(* an old cached event waits for, what a finished generation has inserted,   *)
(* and where the pager leads.                                                *)
EXTENDS AdminFormProofs

(* Each part keeps to its own variables. *)
LEMMA OnePart == ASSUME [Next]_vars
                 PROVE  /\ CacheNext \/ UNCHANGED cacheVars
                        /\ SeatingNext \/ UNCHANGED seatingVars
                        /\ ListNext \/ UNCHANGED listVars
  BY DEF Next, vars, cacheVars, seatingVars, listVars, formVars

-----------------------------------------------------------------------------
(* The cache *)

Entries == [row : Versions, venue : 0 .. MaxVenue, late : BOOLEAN, there : BOOLEAN]
Visits == [pc : {"idle", "query", "fill"}, key : Keys,
           seen : [row : Versions, venue : 0 .. MaxVenue]]
Writes == [pc : {"idle", "detail", "list", "venue"}, dead : BOOLEAN]

LEMMA CacheTypeInit == ASSUME Init PROVE CacheTypeOK
  BY EventCacheAssumption
  DEF Init, CacheInit, CacheTypeOK, Versions, Gone, Empty, Keys, NotReading

LEMMA SnapshotType == ASSUME CacheTypeOK PROVE Snapshot \in [row : Versions, venue : 0 .. MaxVenue]
  BY DEF CacheTypeOK, Snapshot

LEMMA RowType == ASSUME CacheTypeOK, NEW w, WriteEvent(w) PROVE row' \in Versions
  BY EventCacheAssumption DEF CacheTypeOK, WriteEvent, Versions, Gone

(* What a key, a reader and a writer hold keeps its type.                    *)
LEMMA CacheTypeStep == ASSUME CacheTypeOK, CacheNext \/ UNCHANGED cacheVars PROVE CacheTypeOK'
<1>e. Empty \in Entries
  BY EventCacheAssumption DEF Empty, Entries, Versions, Gone
<1>n. NotReading \in Visits
  BY EventCacheAssumption DEF NotReading, Visits, Versions, Gone, Keys
<1>t. /\ row \in Versions /\ venue \in 0 .. MaxVenue
      /\ cache \in [Keys -> Entries]
      /\ reader \in [Readers -> Visits]
      /\ writer \in [Writers -> Writes]
      /\ deaths \in 0 .. MaxDeaths
  BY DEF CacheTypeOK, Entries, Visits, Writes
<1>1. ASSUME NEW r \in Readers, NEW key \in Keys, ReadMiss(r, key) PROVE CacheTypeOK'
  <2>1. [pc |-> "query", key |-> key, seen |-> NotReading.seen] \in Visits
    BY <1>n DEF Visits, NotReading
  <2>2. reader' \in [Readers -> Visits]
    BY <1>1, <1>t, <2>1 DEF ReadMiss, Reading
  <2>q. QED
    BY <1>1, <1>t, <2>2 DEF ReadMiss, CacheTypeOK, Entries, Visits, Writes
<1>2. ASSUME NEW r \in Readers, ReadQuery(r) PROVE CacheTypeOK'
  <2>1. [pc |-> "fill", key |-> reader[r].key, seen |-> Snapshot] \in Visits
    BY <1>t, SnapshotType DEF Visits
  <2>2. reader' \in [Readers -> Visits]
    BY <1>2, <1>t, <1>n, <2>1 DEF ReadQuery, Reading
  <2>q. QED
    BY <1>2, <1>t, <2>2 DEF ReadQuery, CacheTypeOK, Entries, Visits, Writes
<1>3. ASSUME NEW r \in Readers, ReadFill(r) PROVE CacheTypeOK'
  <2> DEFINE seen == reader[r].seen
  <2> DEFINE entry == [row |-> seen.row, venue |-> seen.venue, late |-> seen.row # row, there |-> TRUE]
  <2>1. seen.row \in Versions /\ seen.venue \in 0 .. MaxVenue /\ reader[r].key \in Keys
    BY <1>t DEF Visits
  <2>2. entry \in Entries
    <3>1. (seen.row # row) \in BOOLEAN OBVIOUS
    <3>q. QED BY <2>1, <3>1 DEF Entries
  <2>3. cache' = [cache EXCEPT ![reader[r].key] = entry] /\ reader' = [reader EXCEPT ![r] = NotReading]
    BY <1>3 DEF ReadFill
  <2> HIDE DEF entry
  <2>4. cache' \in [Keys -> Entries] /\ reader' \in [Readers -> Visits]
    BY <1>t, <1>n, <2>1, <2>2, <2>3
  <2>q. QED
    BY <1>3, <1>t, <2>4 DEF ReadFill, CacheTypeOK, Entries, Visits, Writes
<1>4. ASSUME NEW key \in Keys, Expire(key) PROVE CacheTypeOK'
  <2>1. cache' \in [Keys -> Entries]
    BY <1>4, <1>t, <1>e DEF Expire
  <2>q. QED
    BY <1>4, <1>t, <2>1 DEF Expire, CacheTypeOK, Entries, Visits, Writes
<1>5. ASSUME NEW w \in Writers, WriteEvent(w) PROVE CacheTypeOK'
  <2>1. writer' \in [Writers -> Writes]
    BY <1>5, <1>t DEF WriteEvent, Writing, Writes
  <2>q. QED
    BY <1>5, <1>t, <2>1, RowType DEF WriteEvent, CacheTypeOK, Entries, Visits, Writes
<1>6. ASSUME NEW w \in Writers, Invalidate(w) PROVE CacheTypeOK'
  <2>1. writer' \in [Writers -> Writes]
    BY <1>6, <1>t DEF Invalidate, Writing, AfterDetail, Writes
  <2>2. cache' \in [Keys -> Entries]
    BY <1>6, <1>t, <1>e DEF Invalidate
  <2>q. QED
    BY <1>6, <1>t, <2>1, <2>2 DEF Invalidate, CacheTypeOK, Entries, Visits, Writes
<1>7. ASSUME NEW w \in Writers, WriteDies(w) PROVE CacheTypeOK'
  <2>1. writer' \in [Writers -> Writes]
    BY <1>7, <1>t DEF WriteDies, Writes
  <2>2. deaths' \in 0 .. MaxDeaths
    BY <1>7, <1>t, EventCacheAssumption DEF WriteDies
  <2>q. QED
    BY <1>7, <1>t, <2>1, <2>2 DEF WriteDies, CacheTypeOK, Entries, Visits, Writes
<1>8. ASSUME NEW w \in Writers, VenueCheck(w) \/ VenueDelete(w) PROVE CacheTypeOK'
  <2>1. writer' \in [Writers -> Writes]
    BY <1>8, <1>t DEF VenueCheck, VenueDelete, Writing, Writes
  <2>2. venue' \in 0 .. MaxVenue
    BY <1>8, <1>t, EventCacheAssumption DEF VenueCheck, VenueDelete
  <2>q. QED
    BY <1>8, <1>t, <2>1, <2>2 DEF VenueCheck, VenueDelete, CacheTypeOK, Entries, Visits, Writes
<1>9. CASE WriteVenue
  BY <1>9, <1>t, EventCacheAssumption DEF WriteVenue, CacheTypeOK, Entries, Visits, Writes
<1>10. CASE UNCHANGED cacheVars
  BY <1>10, <1>t DEF cacheVars, CacheTypeOK, Entries, Visits, Writes
<1>. QED
  BY <1>1, <1>2, <1>3, <1>4, <1>5, <1>6, <1>7, <1>8, <1>9, <1>10 DEF CacheNext

(* The writers that an old entry may be waiting for. *)
Pending(w, key) == writer[w].pc = "detail" \/ (writer[w].pc = "list" /\ key = "list")

LEMMA OldInit == ASSUME Init PROVE OldIsAccounted
  BY DEF Init, CacheInit, OldIsAccounted, Empty

(* One step: a DEL clears the key it was waited for, a SETEX of an old event *)
(* marks it late, and a new write waits for both keys.                       *)
LEMMA OldStep == ASSUME CacheTypeOK, OldIsAccounted, CacheNext \/ UNCHANGED cacheVars
                 PROVE  OldIsAccounted'
<1>t. /\ cache \in [Keys -> Entries]
      /\ reader \in [Readers -> Visits]
      /\ writer \in [Writers -> Writes]
  BY DEF CacheTypeOK, Entries, Visits, Writes
<1>i. ASSUME NEW key \in Keys, cache[key].there, ~ cache[key].late, cache[key].row # row
      PROVE  \E w \in Writers : Pending(w, key)
  BY <1>i DEF OldIsAccounted, Pending
<1>s. SUFFICES ASSUME NEW key \in Keys,
                      cache'[key].there, ~ cache'[key].late, cache'[key].row # row'
               PROVE  \E w \in Writers : Pending(w, key)'
  BY DEF OldIsAccounted, Pending
<1>1. CASE \/ \E r \in Readers, k \in Keys : ReadMiss(r, k)
           \/ \E r \in Readers : ReadQuery(r)
           \/ WriteVenue
           \/ UNCHANGED cacheVars
  BY <1>1, <1>s, <1>i DEF ReadMiss, ReadQuery, WriteVenue, cacheVars, Pending
<1>2. ASSUME NEW r \in Readers, ReadFill(r) PROVE \E w \in Writers : Pending(w, key)'
  <2>. DEFINE seen == reader[r].seen
              entry == [row |-> seen.row, venue |-> seen.venue, late |-> seen.row # row, there |-> TRUE]
  <2>1. cache' = [cache EXCEPT ![reader[r].key] = entry] /\ row' = row /\ writer' = writer
    BY <1>2 DEF ReadFill
  <2>2. key # reader[r].key
    <3>1. SUFFICES ASSUME key = reader[r].key PROVE FALSE
      OBVIOUS
    <3>2. cache'[key] = entry
      BY <2>1, <3>1, <1>t
    <3>3. entry.late = (seen.row # row) /\ entry.row = seen.row
      OBVIOUS
    <3>. QED BY <3>2, <3>3, <2>1, <1>s
  <2>3. cache'[key] = cache[key]
    BY <2>1, <2>2, <1>t
  <2>. QED BY <2>1, <2>3, <1>s, <1>i DEF Pending
<1>3. ASSUME NEW k \in Keys, Expire(k) PROVE \E w \in Writers : Pending(w, key)'
  BY <1>3, <1>s, <1>t, <1>i DEF Expire, Empty, Pending
<1>4. ASSUME NEW w \in Writers, WriteEvent(w) PROVE \E v \in Writers : Pending(v, key)'
  BY <1>4, <1>t DEF WriteEvent, Writing, Pending, Writes
<1>5. ASSUME NEW w \in Writers, Invalidate(w) PROVE \E v \in Writers : Pending(v, key)'
  <2>1. CASE writer[w].pc = "detail"
    <3>1. writer'[w].pc = "list" /\ cache' = [cache EXCEPT !["detail"] = Empty]
      BY <1>5, <2>1, <1>t DEF Invalidate, Writing, AfterDetail, Writes
    <3>2. key = "list"
      BY <3>1, <1>s, <1>t DEF Empty, Keys
    <3>. QED BY <3>1, <3>2 DEF Pending
  <2>2. CASE writer[w].pc = "list"
    <3>1. /\ cache' = [cache EXCEPT !["list"] = Empty] /\ row' = row
          /\ \A v \in Writers : v # w => writer'[v] = writer[v]
      BY <1>5, <2>2, <1>t DEF Invalidate, Writing
    <3>2. key = "detail" /\ cache'[key] = cache[key]
      BY <3>1, <1>s, <1>t DEF Empty, Keys
    <3>3. PICK v \in Writers : Pending(v, key)
      BY <3>1, <3>2, <1>s, <1>i
    <3>. QED BY <2>2, <3>1, <3>2, <3>3 DEF Pending
  <2>. QED BY <1>5, <2>1, <2>2 DEF Invalidate
<1>6. ASSUME NEW w \in Writers, WriteDies(w) PROVE \E v \in Writers : Pending(v, key)'
  <2>1. cache' = cache /\ row' = row /\ \A v \in Writers : writer'[v].pc = writer[v].pc
    BY <1>6, <1>t DEF WriteDies, Writes
  <2>. QED BY <2>1, <1>s, <1>i DEF Pending
<1>7. ASSUME NEW w \in Writers, VenueCheck(w) \/ VenueDelete(w) PROVE \E v \in Writers : Pending(v, key)'
  <2>1. /\ cache' = cache /\ row' = row /\ writer[w].pc \in {"idle", "venue"}
        /\ \A v \in Writers : v # w => writer'[v] = writer[v]
    BY <1>7, <1>t DEF VenueCheck, VenueDelete, Writing, Free
  <2>2. PICK v \in Writers : Pending(v, key)
    BY <2>1, <1>s, <1>i
  <2>. QED BY <2>1, <2>2 DEF Pending
<1>. QED BY <1>1, <1>2, <1>3, <1>4, <1>5, <1>6, <1>7 DEF CacheNext

LEMMA CacheInvariance == Spec => [](CacheTypeOK /\ OldIsAccounted)
<1>1. CacheTypeOK /\ OldIsAccounted /\ [Next]_vars => (CacheTypeOK /\ OldIsAccounted)'
  BY OnePart, CacheTypeStep, OldStep
<1>. QED BY <1>1, CacheTypeInit, OldInit, PTL DEF Spec

(* However many readers and writers overlap, and whoever dies: a key that    *)
(* holds an old event waits for a DEL of invalidateEventCache, or a reader   *)
(* put the old event back.                                                   *)
THEOREM OldAccounted == Spec => []OldIsAccounted
BY CacheInvariance, PTL

-----------------------------------------------------------------------------
(* The generation of seats *)

GeneratorPc == {"idle", "insert", "set", "done", "failed", "dead"}
Calls == [pc : GeneratorPc, next : Nat, count : Nat]

(* The seats before the one to insert are there, unless the event is gone.   *)
SeatingInv ==
    /\ event \in BOOLEAN
    /\ generator \in [Generators -> Calls]
    /\ IsFiniteSet(seatRows)
    /\ \A g \in Generators :
        /\ generator[g].next \in 1 .. Plan[g] + 1
        /\ AtGenerator(g, "insert") /\ event => 1 .. generator[g].next - 1 \subseteq seatRows
        /\ AtGenerator(g, "set") /\ event => 1 .. Plan[g] \subseteq seatRows
    /\ GenerationWhole

LEMMA SeatingInitInv == ASSUME Init PROVE SeatingInv
  BY SeatingAssumption, FS_EmptySet DEF Init, SeatingInit, SeatingInv, GenerationWhole, AtGenerator, Calls, GeneratorPc

(* What a step of one call does to the table of calls. *)
LEMMA GeneratingOne ==
    ASSUME NEW g \in Generators, NEW pc \in GeneratorPc, NEW next \in Nat, NEW count \in Nat,
           generator \in [Generators -> Calls],
           Generating(g, pc, next, count)
    PROVE  /\ generator' \in [Generators -> Calls]
           /\ generator'[g].pc = pc /\ generator'[g].next = next /\ generator'[g].count = count
           /\ \A h \in Generators : h # g => generator'[h] = generator[h]
  BY DEF Generating, Calls

(* A call that moves on keeps the invariant of the others when no seat is    *)
(* taken away, and its own when it has what its new pc asks for.             *)
LEMMA SeatingMove ==
    ASSUME SeatingInv, event' = event, seatRows \subseteq seatRows', IsFiniteSet(seatRows'),
           NEW g \in Generators, generator' \in [Generators -> Calls],
           \A h \in Generators : h # g => generator'[h] = generator[h],
           generator'[g].next \in 1 .. Plan[g] + 1,
           AtGenerator(g, "insert")' /\ event => 1 .. generator'[g].next - 1 \subseteq seatRows',
           AtGenerator(g, "set")' /\ event => 1 .. Plan[g] \subseteq seatRows',
           AtGenerator(g, "done")' /\ event => 1 .. Plan[g] \subseteq seatRows',
           AtGenerator(g, "failed")' => ~ event
    PROVE  SeatingInv'
<1>1. ASSUME NEW h \in Generators
      PROVE  /\ generator'[h].next \in 1 .. Plan[h] + 1
             /\ AtGenerator(h, "insert")' /\ event => 1 .. generator'[h].next - 1 \subseteq seatRows'
             /\ AtGenerator(h, "set")' /\ event => 1 .. Plan[h] \subseteq seatRows'
             /\ AtGenerator(h, "done")' /\ event => 1 .. Plan[h] \subseteq seatRows'
             /\ AtGenerator(h, "failed")' => ~ event
  <2>1. CASE h = g
    BY <2>1
  <2>2. CASE h # g
    <3>1. generator'[h] = generator[h]
      BY <2>2
    <3>. QED BY <3>1 DEF SeatingInv, GenerationWhole, AtGenerator
  <2>. QED BY <2>1, <2>2
<1>. QED BY <1>1 DEF SeatingInv, GenerationWhole

LEMMA SeatingStep == ASSUME SeatingInv, SeatingNext \/ UNCHANGED seatingVars PROVE SeatingInv'
<1>t. generator \in [Generators -> Calls] /\ IsFiniteSet(seatRows) /\ event \in BOOLEAN
  BY DEF SeatingInv
<1>p. \A g \in Generators : Plan[g] \in Nat /\ generator[g].next \in Nat /\ generator[g].count \in Nat
  BY <1>t, SeatingAssumption DEF Calls
<1>1. ASSUME NEW g \in Generators, GenerateSeats(g) PROVE SeatingInv'
  <2>1. event' = event /\ seatRows' = seatRows /\ Generating(g, "insert", 1, 0)
    BY <1>1 DEF GenerateSeats
  <2>2. /\ generator' \in [Generators -> Calls] /\ generator'[g].pc = "insert" /\ generator'[g].next = 1
        /\ \A h \in Generators : h # g => generator'[h] = generator[h]
    BY <2>1, <1>t, GeneratingOne DEF GeneratorPc
  <2>3. 1 \in 1 .. Plan[g] + 1 /\ 1 .. 1 - 1 \subseteq seatRows
    BY <1>p
  <2>. QED BY <2>1, <2>2, <2>3, <1>t, SeatingMove DEF AtGenerator
<1>2. ASSUME NEW g \in Generators, InsertSeat(g) PROVE SeatingInv'
  <2>. DEFINE seat == generator[g].next
  <2>0. event' = event /\ generator[g].pc = "insert" /\ seat \in 1 .. Plan[g] + 1
        /\ (event => 1 .. seat - 1 \subseteq seatRows)
    BY <1>2 DEF InsertSeat, SeatingInv, AtGenerator
  <2>1. CASE seat \notin 1 .. Plan[g]
    <3>0. Cardinality(seatRows) \in Nat
      BY <1>t, FS_CardinalityType
    <3>1. seatRows' = seatRows /\ \E left \in 0 .. Cardinality(seatRows) : Generating(g, "set", seat, left)
      BY <1>2, <2>1 DEF InsertSeat, Planned
    <3>2. PICK left \in Nat : Generating(g, "set", seat, left)
      BY <3>0, <3>1
    <3>3. /\ generator' \in [Generators -> Calls] /\ generator'[g].pc = "set" /\ generator'[g].next = seat
          /\ \A h \in Generators : h # g => generator'[h] = generator[h]
      BY <3>2, <1>t, <1>p, GeneratingOne DEF GeneratorPc
    <3>4. seat - 1 = Plan[g]
      BY <2>0, <2>1, <1>p
    <3>. QED BY <2>0, <3>1, <3>3, <3>4, <1>t, SeatingMove DEF AtGenerator
  <2>2. CASE seat \in 1 .. Plan[g] /\ event
    <3>1. Generating(g, "insert", seat + 1, 0) /\ seatRows' = seatRows \union {seat}
      BY <1>2, <2>2 DEF InsertSeat, Planned, Accepted
    <3>2. /\ generator' \in [Generators -> Calls] /\ generator'[g].pc = "insert" /\ generator'[g].next = seat + 1
          /\ \A h \in Generators : h # g => generator'[h] = generator[h]
      BY <3>1, <1>t, <1>p, GeneratingOne DEF GeneratorPc
    <3>3. IsFiniteSet(seatRows')
      BY <3>1, <1>t, FS_AddElement
    <3>4. 1 .. (seat + 1) - 1 \subseteq seatRows' /\ seat + 1 \in 1 .. Plan[g] + 1
      BY <2>0, <2>2, <3>1, <1>p
    <3>. QED BY <2>0, <3>1, <3>2, <3>3, <3>4, SeatingMove DEF AtGenerator
  <2>3. CASE seat \in 1 .. Plan[g] /\ ~ event
    <3>1. Generating(g, "failed", seat, 0) /\ seatRows' = seatRows
      BY <1>2, <2>3 DEF InsertSeat, Planned, Accepted
    <3>2. /\ generator' \in [Generators -> Calls] /\ generator'[g].pc = "failed" /\ generator'[g].next = seat
          /\ \A h \in Generators : h # g => generator'[h] = generator[h]
      BY <3>1, <1>t, <1>p, GeneratingOne DEF GeneratorPc
    <3>. QED BY <2>0, <2>3, <3>1, <3>2, <1>t, SeatingMove DEF AtGenerator
  <2>. QED BY <2>1, <2>2, <2>3, <1>t
<1>3. ASSUME NEW g \in Generators, SetStock(g) PROVE SeatingInv'
  <2>1. /\ event' = event /\ seatRows' = seatRows /\ generator[g].pc = "set"
        /\ Generating(g, "done", generator[g].next, generator[g].count)
    BY <1>3 DEF SetStock, AtGenerator
  <2>2. /\ generator' \in [Generators -> Calls] /\ generator'[g].pc = "done" /\ generator'[g].next = generator[g].next
        /\ \A h \in Generators : h # g => generator'[h] = generator[h]
    BY <2>1, <1>t, <1>p, GeneratingOne DEF GeneratorPc
  <2>3. generator[g].next \in 1 .. Plan[g] + 1 /\ (event => 1 .. Plan[g] \subseteq seatRows)
    BY <2>1 DEF SeatingInv, AtGenerator
  <2>. QED BY <2>1, <2>2, <2>3, <1>t, SeatingMove DEF AtGenerator
<1>4. ASSUME NEW g \in Generators, GenerateDies(g) PROVE SeatingInv'
  <2>1. event' = event /\ seatRows' = seatRows /\ Generating(g, "dead", generator[g].next, 0)
    BY <1>4 DEF GenerateDies
  <2>2. /\ generator' \in [Generators -> Calls] /\ generator'[g].pc = "dead" /\ generator'[g].next = generator[g].next
        /\ \A h \in Generators : h # g => generator'[h] = generator[h]
    BY <2>1, <1>t, <1>p, GeneratingOne DEF GeneratorPc
  <2>3. generator[g].next \in 1 .. Plan[g] + 1
    BY DEF SeatingInv
  <2>. QED BY <2>1, <2>2, <2>3, <1>t, SeatingMove DEF AtGenerator
<1>5. CASE DeleteEvent
  <2>1. event' = FALSE /\ seatRows' = {} /\ generator' = generator
    BY <1>5 DEF DeleteEvent
  <2>2. IsFiniteSet(seatRows')
    BY <2>1, FS_EmptySet
  <2>. QED BY <2>1, <2>2 DEF SeatingInv, GenerationWhole, AtGenerator
<1>6. CASE UNCHANGED seatingVars
  BY <1>6 DEF seatingVars, SeatingInv, GenerationWhole, AtGenerator
<1>. QED BY <1>1, <1>2, <1>3, <1>4, <1>5, <1>6 DEF SeatingNext

LEMMA SeatingInvariance == Spec => []SeatingInv
<1>1. SeatingInv /\ [Next]_vars => SeatingInv'
  BY OnePart, SeatingStep
<1>. QED BY <1>1, SeatingInitInv, PTL DEF Spec

(* Whatever the sizes of the plans and however many calls overlap or die:    *)
(* a call that answered has all of its seats in the table, as long as the    *)
(* event is there.                                                           *)
THEOREM GeneratedWhole == Spec => []GenerationWhole
BY SeatingInvariance, PTL DEF SeatingInv

(* The seats, the counts and the stock are bounded by the largest plan.      *)
SeatingBounds ==
    /\ seatRows \subseteq 1 .. MostSeats /\ stock \in 0 .. MostSeats \union {NoStock}
    /\ \A g \in Generators : generator[g].count \in 0 .. MostSeats

LEMMA MostSeatsMost == MostSeats \in Nat /\ \A g \in Generators : Plan[g] <= MostSeats
<1>. DEFINE Plans == {Plan[g] : g \in Generators}
            Largest(n) == \A g \in Generators : Plan[g] <= n
<1>1. \E n \in Plans : Largest(n)
  BY SeatingAssumption
<1>2. MostSeats \in Plans /\ Largest(MostSeats)
  <2>1. MostSeats = CHOOSE n \in Plans : Largest(n)
    BY DEF MostSeats
  <2>. HIDE DEF Plans, Largest
  <2>. QED BY <1>1, <2>1
<1>. QED BY <1>2, SeatingAssumption

LEMMA BoundsBegin == ASSUME Init PROVE SeatingBounds
  BY MostSeatsMost DEF Init, SeatingInit, SeatingBounds

LEMMA SeatingBoundsStep ==
    ASSUME SeatingInv, SeatingBounds, SeatingNext \/ UNCHANGED seatingVars
    PROVE  SeatingBounds'
<1>0. generator \in [Generators -> Calls] /\ \A g \in Generators : Plan[g] \in Nat /\ Plan[g] <= MostSeats
  BY SeatingAssumption, MostSeatsMost DEF SeatingInv
<1>m. MostSeats \in Nat
  BY MostSeatsMost
(* A call that moves on, with a count within the bound *)
<1>1. ASSUME NEW g \in Generators, NEW pc \in GeneratorPc, NEW next \in Nat, NEW count \in 0 .. MostSeats,
             Generating(g, pc, next, count), seatRows' \subseteq 1 .. MostSeats,
             stock' \in 0 .. MostSeats \union {NoStock}
      PROVE  SeatingBounds'
  <2>1. count \in Nat
    BY <1>m
  <2>2. /\ generator'[g].count = count
        /\ \A h \in Generators : h # g => generator'[h] = generator[h]
    BY <1>0, <1>1, <2>1, GeneratingOne
  <2>. QED BY <1>1, <2>2 DEF SeatingBounds
<1>c. Cardinality(seatRows) \in 0 .. MostSeats
  <2>1. IsFiniteSet(1 .. MostSeats) /\ Cardinality(1 .. MostSeats) = MostSeats
    BY <1>m, FS_Interval
  <2>2. seatRows \in SUBSET (1 .. MostSeats)
    BY DEF SeatingBounds
  <2>3. IsFiniteSet(seatRows) /\ Cardinality(seatRows) <= Cardinality(1 .. MostSeats)
    BY <2>1, <2>2, FS_Subset
  <2>4. Cardinality(seatRows) \in Nat
    BY <2>3, FS_CardinalityType
  <2>. QED BY <1>m, <2>1, <2>3, <2>4
<1>z. 0 \in 0 .. MostSeats
  BY <1>m
<1>2. ASSUME NEW g \in Generators, GenerateSeats(g)  PROVE SeatingBounds'
  <2>1. Generating(g, "insert", 1, 0) /\ UNCHANGED <<stock, seatRows>>
    BY <1>2 DEF GenerateSeats
  <2>2. "insert" \in GeneratorPc
    BY DEF GeneratorPc
  <2>3. seatRows' \subseteq 1 .. MostSeats /\ stock' \in 0 .. MostSeats \union {NoStock}
    BY <2>1 DEF SeatingBounds
  <2>. QED BY <1>1, <1>z, <2>1, <2>2, <2>3
<1>3. ASSUME NEW g \in Generators, InsertSeat(g)  PROVE SeatingBounds'
  <2>0. /\ generator[g].next \in Nat /\ generator[g].next + 1 \in Nat /\ UNCHANGED stock
        /\ 1 .. Plan[g] \subseteq 1 .. MostSeats
    BY <1>0, <1>m, <1>3 DEF Calls, InsertSeat
  <2>1. CASE generator[g].next \notin Planned(g)
    <3>1. PICK left \in 0 .. Cardinality(seatRows) : Generating(g, "set", generator[g].next, left)
      BY <1>3, <2>1 DEF InsertSeat
    <3>2. seatRows' = seatRows
      BY <1>3, <2>1 DEF InsertSeat
    <3>3. left \in 0 .. MostSeats
      BY <1>c, <1>m
    <3>. QED BY <1>1, <2>0, <3>1, <3>2, <3>3 DEF SeatingBounds, GeneratorPc
  <2>2. CASE generator[g].next \in Planned(g) /\ Accepted(generator[g].next)
    <3>1. /\ Generating(g, "insert", generator[g].next + 1, 0)
          /\ seatRows' = seatRows \union {generator[g].next}
      BY <1>3, <2>2 DEF InsertSeat
    <3>2. seatRows' \subseteq 1 .. MostSeats
      BY <2>0, <2>2, <3>1 DEF Planned, SeatingBounds
    <3>. QED BY <1>m, <1>1, <2>0, <3>1, <3>2 DEF SeatingBounds, GeneratorPc
  <2>3. CASE generator[g].next \in Planned(g) /\ ~ Accepted(generator[g].next)
    <3>1. Generating(g, "failed", generator[g].next, 0) /\ UNCHANGED seatRows
      BY <1>3, <2>3 DEF InsertSeat
    <3>. QED BY <1>m, <1>1, <2>0, <3>1 DEF SeatingBounds, GeneratorPc
  <2>. QED BY <2>1, <2>2, <2>3
<1>4. ASSUME NEW g \in Generators, SetStock(g)  PROVE SeatingBounds'
  <2>1. generator[g].next \in Nat /\ generator[g].count \in 0 .. MostSeats
    BY <1>0 DEF Calls, SeatingBounds
  <2>. QED BY <1>1, <1>4, <2>1 DEF SetStock, SeatingBounds, GeneratorPc
<1>5. ASSUME NEW g \in Generators, GenerateDies(g)  PROVE SeatingBounds'
  <2>1. generator[g].next \in Nat
    BY <1>0 DEF Calls
  <2>2. Generating(g, "dead", generator[g].next, 0) /\ UNCHANGED <<stock, seatRows>>
    BY <1>5 DEF GenerateDies
  <2>3. "dead" \in GeneratorPc
    BY DEF GeneratorPc
  <2>4. seatRows' \subseteq 1 .. MostSeats /\ stock' \in 0 .. MostSeats \union {NoStock}
    BY <2>2 DEF SeatingBounds
  <2>. QED BY <1>1, <1>z, <2>1, <2>2, <2>3, <2>4
<1>6. CASE DeleteEvent \/ UNCHANGED seatingVars
  BY <1>6 DEF DeleteEvent, seatingVars, SeatingBounds
<1>. QED BY <1>2, <1>3, <1>4, <1>5, <1>6 DEF SeatingNext

LEMMA SeatingTypes == ASSUME SeatingInv, SeatingBounds PROVE SeatingTypeOK
<1>1. ASSUME NEW g \in Generators
      PROVE  /\ generator[g] \in Calls /\ generator[g].next \in 1 .. MostSeats + 1
             /\ generator[g].count \in 0 .. MostSeats
  BY SeatingAssumption, MostSeatsMost DEF SeatingInv, SeatingBounds
<1>. QED BY <1>1 DEF SeatingInv, SeatingBounds, SeatingTypeOK, Calls, GeneratorPc

-----------------------------------------------------------------------------
(* The pager *)

(* renderPageNumbers, for every number of pages and every page of them.      *)
LEMMA PagerLeads == ASSUME NEW total \in Nat \ {0}, NEW p \in 1 .. total PROVE PagerLeadsOn(p, total)
<1>1. CASE total <= 5
  BY <1>1 DEF PagerLeadsOn, PageNumbers, MaxVisible
<1>2. CASE total > 5 /\ p <= 2
  BY <1>2 DEF PagerLeadsOn, PageNumbers, MaxVisible, EllipsisBefore, EllipsisAfter, From, To, Most
<1>3. CASE total > 5 /\ p > 2 /\ p >= total - 1
  BY <1>3 DEF PagerLeadsOn, PageNumbers, MaxVisible, EllipsisBefore, EllipsisAfter, From, To, Least
<1>4. CASE total > 5 /\ p > 2 /\ p < total - 1
  BY <1>4 DEF PagerLeadsOn, PageNumbers, MaxVisible, EllipsisBefore, EllipsisAfter, From, To, Most, Least
<1>. QED BY <1>1, <1>2, <1>3, <1>4

(* Whatever pager is shown, also one of fewer pages than the present page.   *)
LEMMA OfferedIsPage == ASSUME NEW total \in Nat \ {0}, NEW p \in Nat \ {0}
                       PROVE  PageNumbers(p, total) \subseteq 1 .. total
<1>1. CASE total <= 5
  BY <1>1 DEF PageNumbers, MaxVisible
<1>2. CASE total > 5
  <2>1. From(p, total) \in Nat \ {0} /\ To(p, total) \in Int /\ To(p, total) <= total
    BY <1>2 DEF From, To, Most, Least
  <2>. QED BY <1>2, <2>1 DEF PageNumbers, MaxVisible
<1>. QED BY <1>1, <1>2

LEMMA MostPagesMost == MostPages \in Nat \ {0} /\ \A f \in Filters : Size[f] + 1 <= MostPages
<1>. DEFINE Totals == {Size[f] + 1 : f \in Filters}
            Largest(n) == \A f \in Filters : Size[f] + 1 <= n
<1>0. \A f \in Filters : Size[f] \in Nat /\ Size[f] + 1 \in Nat \ {0}
  BY ListPagesAssumption
<1>1. \E n \in Totals : Largest(n)
  BY <1>0, ListPagesAssumption
<1>2. MostPages \in Totals /\ Largest(MostPages)
  <2>1. MostPages = CHOOSE n \in Totals : Largest(n)
    BY DEF MostPages
  <2>. HIDE DEF Totals, Largest
  <2>. QED BY <1>1, <2>1
<1>. QED BY <1>0, <1>2

(* There are no more pages than rows, but for the one page of an empty list. *)
LEMMA PagesOfRows == ASSUME NEW rows \in Nat PROVE PagesOf(rows) \in Nat \ {0} /\ PagesOf(rows) <= Most(1, rows)
<1>. DEFINE q == (rows + Limit - 1) \div Limit
<1>1. q \in Int /\ Limit * q <= rows + Limit - 1
  BY ListPagesAssumption
<1>2. q <= rows
  <2>1. SUFFICES ASSUME q >= rows + 1  PROVE FALSE
    BY <1>1
  <2>2. Limit * q >= Limit * (rows + 1)
    BY <1>1, <2>1, ListPagesAssumption
  <2>3. Limit * (rows + 1) = Limit * rows + Limit /\ Limit * rows >= rows
    BY ListPagesAssumption
  <2>. QED BY <1>1, <2>2, <2>3, ListPagesAssumption
<1>. HIDE DEF q
<1>. QED BY <1>1, <1>2 DEF PagesOf, Most, q

(* A row more never makes fewer pages.                                       *)
LEMMA PagesGrow == ASSUME NEW rows \in Nat PROVE PagesOf(rows) <= PagesOf(rows + 1)
<1>. DEFINE q == (rows + Limit - 1) \div Limit
            next == (rows + 1 + Limit - 1) \div Limit
<1>1. /\ q \in Int /\ Limit * q <= rows + Limit - 1
      /\ next \in Int /\ rows + 1 + Limit - 1 < Limit * (next + 1)
  BY ListPagesAssumption
<1>2. q <= next
  <2>1. SUFFICES ASSUME q >= next + 1  PROVE FALSE
    BY <1>1
  <2>2. Limit * q >= Limit * (next + 1)
    BY <1>1, <2>1, ListPagesAssumption
  <2>3. Limit * q \in Int /\ Limit * (next + 1) \in Int
    BY <1>1, ListPagesAssumption
  <2>. HIDE DEF q, next
  <2>. QED BY <1>1, <2>2, <2>3, ListPagesAssumption
<1>. HIDE DEF q, next
<1>. QED BY <1>1, <1>2 DEF PagesOf, Most, q, next

LEMMA PagesOfType == ASSUME NEW f \in Filters, NEW rows \in Nat, rows <= Size[f] + 1 PROVE PagesOf(rows) \in Pages
<1>1. PagesOf(rows) \in Nat \ {0} /\ PagesOf(rows) <= Most(1, rows)
  BY PagesOfRows
<1>2. Size[f] \in Nat /\ Size[f] + 1 <= MostPages /\ MostPages \in Nat \ {0}
  BY MostPagesMost, ListPagesAssumption
<1>. QED BY <1>1, <1>2 DEF Most, Pages

(* A filter gets one row more than it has to begin with, and then no more.   *)
Asked == [pc : {"idle", "sent", "served"}, page : Pages, filter : Filters, total : Pages]
Replies == [page : Pages, filter : Filters, newest : BOOLEAN]
Paging == ListTypeOK /\ \A f \in Filters : size[f] <= Size[f] + 1

LEMMA FirstPage == 1 \in Pages
  BY MostPagesMost DEF Pages

LEMMA ReplyType == ASSUME NEW p \in Pages, NEW f \in Filters, NEW new \in BOOLEAN
                   PROVE  Reply(p, f, new) \in Replies
  BY FirstPage DEF Reply, Replies

LEMMA SendType == ASSUME Paging, NEW r \in Requests, NEW p \in Pages, NEW f \in Filters, Load(r, p, f)
                  PROVE  request' \in [Requests -> Asked] /\ newest' \in Requests /\ shown' \in Replies
<1>1. Sent(p, f) \in Asked
  BY FirstPage DEF Sent, Asked
<1>2. request \in [Requests -> Asked] /\ shown \in Replies
  BY DEF Paging, ListTypeOK, Asked, Replies
<1>3. Outdated \in Replies
  BY <1>2, FirstPage, ReplyType DEF Outdated, Replies
<1>. QED BY <1>1, <1>2, <1>3 DEF Load

LEMMA IdleType == ASSUME Filters # {} PROVE NoRequest \in Asked
<1>1. (CHOOSE f \in Filters : TRUE) \in Filters
  OBVIOUS
<1>. QED BY <1>1, FirstPage DEF NoRequest, Asked

LEMMA PagingInit == ASSUME Init PROVE Paging
<1>0. 1 \in Pages
  BY FirstPage
<1>1. filter \in Filters /\ newest \in Requests /\ admin \in BOOLEAN
  BY DEF Init, ListInit
<1>2. [pc |-> "sent", page |-> 1, filter |-> filter, total |-> 1] \in Asked /\ NoRequest \in Asked
  BY <1>0, <1>1, IdleType DEF Asked
<1>3. request \in [Requests -> Asked]
  BY <1>2 DEF Init, ListInit
<1>4. size = Size /\ Size \in [Filters -> Nat] /\ 0 \in 0 .. MaxUpsets
  BY ListPagesAssumption DEF Init, ListInit
<1>5. \A f \in Filters : size[f] <= Size[f] + 1
  BY <1>4
<1>6. shown \in Replies
  BY <1>0, <1>1 DEF Init, ListInit, Replies
<1>7. /\ page = 1 /\ totalPages = 1 /\ writing = {} /\ upsets = 0 /\ shrunk = {} /\ stray = FALSE
  BY DEF Init, ListInit
<1>. QED BY <1>0, <1>1, <1>3, <1>4, <1>5, <1>6, <1>7 DEF Paging, ListTypeOK, Asked, Replies

LEMMA PagingStep == ASSUME Paging, ListNext \/ UNCHANGED listVars PROVE Paging'
<1>0. 1 \in Pages
  BY FirstPage
<1>t. /\ admin \in BOOLEAN /\ page \in Pages /\ filter \in Filters /\ totalPages \in Pages
      /\ size \in [Filters -> Nat] /\ request \in [Requests -> Asked]
      /\ newest \in Requests /\ shown \in Replies
      /\ writing \in SUBSET [page : Pages, filter : Filters]
      /\ upsets \in 0 .. MaxUpsets /\ shrunk \subseteq Filters /\ stray \in BOOLEAN
      /\ \A f \in Filters : size[f] <= Size[f] + 1
  BY DEF Paging, ListTypeOK, Asked, Replies
<1>u. ASSUME Upset  PROVE upsets' \in 0 .. MaxUpsets
  BY <1>t, <1>u, ListPagesAssumption DEF Upset
<1>n. NoRequest \in Asked
  BY <1>t, IdleType
<1>o. Outdated \in Replies
  BY <1>0, <1>t, ReplyType DEF Outdated, Replies
<1>1. ASSUME NEW f \in Filters, ChooseFilter(f) PROVE Paging'
  <2>1. /\ page' = 1 /\ filter' = f /\ stray' = FALSE
        /\ UNCHANGED <<admin, totalPages, size, writing, upsets, shrunk>>
    BY <1>1 DEF ChooseFilter, PageAfterFilter
  <2>2. Sent(page, f) \in Asked /\ Sent(1, f) \in Asked
    BY <1>0, <1>t DEF Sent, Asked
  <2>3. request' \in [Requests -> Asked] /\ newest' \in Requests /\ shown' \in Replies
    <3>1. CASE page' = page
      BY <1>1, <1>t, <3>1, SendType DEF ChooseFilter
    <3>2. CASE page' # page
      <4>1. PICK r, again \in Unsent :
                /\ request' = [request EXCEPT ![r] = Sent(page, f), ![again] = Sent(1, f)]
                /\ newest' = again /\ shown' = Outdated
        BY <1>1, <2>1, <3>2 DEF ChooseFilter
      <4>. QED BY <1>t, <1>o, <4>1, <2>2 DEF Unsent
    <3>. QED BY <3>1, <3>2
  <2>. QED BY <1>0, <1>t, <2>1, <2>3 DEF Paging, ListTypeOK, Asked, Replies
<1>2. ASSUME NEW p \in Pages, ClickPage(p) PROVE Paging'
  <2>1. request' \in [Requests -> Asked] /\ newest' \in Requests /\ shown' \in Replies
    BY <1>2, <1>t, SendType DEF ClickPage
  <2>2. page' = p /\ stray' \in BOOLEAN /\ UNCHANGED <<admin, filter, totalPages, size, writing, upsets, shrunk>>
    BY <1>2, <1>t DEF ClickPage
  <2>. QED BY <1>t, <2>1, <2>2 DEF Paging, ListTypeOK, Asked, Replies
<1>3. ASSUME NEW r \in Requests, Serve(r) PROVE Paging'
  <2>1. PagesOf(size[request[r].filter]) \in Pages
    BY <1>t, PagesOfType DEF Asked
  <2>2. request' \in [Requests -> Asked]
    BY <1>3, <1>t, <2>1 DEF Serve, Asked
  <2>. QED BY <1>3, <1>t, <2>2 DEF Serve, Paging, ListTypeOK, Asked, Replies
<1>4. ASSUME NEW r \in Requests, Answer(r) PROVE Paging'
  <2>1. request' \in [Requests -> Asked] /\ totalPages' \in Pages
    BY <1>4, <1>t, <1>n DEF Answer, Asked
  <2>2. shown' \in Replies
    BY <1>4, <1>t, ReplyType DEF Answer, Asked
  <2>. QED BY <1>4, <1>t, <2>1, <2>2 DEF Answer, Paging, ListTypeOK, Asked, Replies
<1>5. ASSUME NEW r \in Requests, LoadFails(r) PROVE Paging'
  <2>1. request' \in [Requests -> Asked] /\ totalPages' \in Pages /\ shown' \in Replies
    BY <1>0, <1>5, <1>t, <1>n, <1>o DEF LoadFails
  <2>. QED BY <1>5, <1>t, <1>u, <2>1 DEF LoadFails, Paging, ListTypeOK, Asked, Replies
<1>6. ASSUME NEW f \in Filters, RowMoves(f) PROVE Paging'
  <2>0. size[f] \in Nat /\ Size[f] \in Nat /\ size[f] <= Size[f] + 1
    BY <1>t, ListPagesAssumption
  <2>1. /\ size' \in [Filters -> Nat] /\ \A g \in Filters : size'[g] <= Size[g] + 1
        /\ shrunk' \subseteq Filters
    <3>1. CASE size[f] > 0 /\ size' = [size EXCEPT ![f] = @ - 1] /\ shrunk' = shrunk \union {f}
      <4>1. size[f] - 1 \in Nat /\ size[f] - 1 <= Size[f] + 1 /\ size' = [size EXCEPT ![f] = size[f] - 1]
        BY <1>t, <3>1, <2>0
      <4>. QED BY <1>t, <3>1, <4>1
    <3>2. CASE size[f] <= Size[f] /\ size' = [size EXCEPT ![f] = @ + 1] /\ UNCHANGED shrunk
      <4>1. size[f] + 1 \in Nat /\ size[f] + 1 <= Size[f] + 1 /\ size' = [size EXCEPT ![f] = size[f] + 1]
        BY <1>t, <3>2, <2>0
      <4>. QED BY <1>t, <3>2, <4>1
    <3>. QED BY <1>6, <3>1, <3>2 DEF RowMoves
  <2>. QED BY <1>6, <1>t, <1>u, <2>1 DEF RowMoves, Paging, ListTypeOK, Asked, Replies
<1>7. CASE ClickWrite
  <2>1. writing' \in SUBSET [page : Pages, filter : Filters]
    BY <1>7, <1>t DEF ClickWrite
  <2>. QED BY <1>7, <1>t, <2>1 DEF ClickWrite, Paging, ListTypeOK, Asked, Replies
<1>8. ASSUME NEW d \in writing, WriteDone(d) PROVE Paging'
  <2>1. d.page \in Pages /\ d.filter \in Filters
    BY <1>t
  <2>2. request' \in [Requests -> Asked] /\ newest' \in Requests /\ shown' \in Replies
    BY <1>8, <2>1, SendType DEF WriteDone
  <2>. QED BY <1>8, <1>t, <2>2 DEF WriteDone, Paging, ListTypeOK, Asked, Replies
<1>9. ASSUME NEW d \in writing, WriteFails(d) PROVE Paging'
  BY <1>9, <1>t DEF WriteFails, Paging, ListTypeOK, Asked, Replies
<1>10. CASE UNCHANGED listVars
  BY <1>10, <1>t DEF listVars, Paging, ListTypeOK, Asked, Replies
<1>. QED BY <1>1, <1>2, <1>3, <1>4, <1>5, <1>6, <1>7, <1>8, <1>9, <1>10 DEF ListNext

LEMMA PagingInvariance == Spec => []Paging
<1>1. Paging /\ [Next]_vars => Paging'
  BY OnePart, PagingStep
<1>. QED BY <1>1, PagingInit, PTL DEF Spec

(* For any lists, in every state of the page, and so while the pager is the  *)
(* one of an old filter: as long as the present page is one of its pages,    *)
(* the pager leads on.                                                       *)
THEOREM PagerLeadsEverywhere == Spec => []PagerSound
<1>1. Paging => PagerSound
  BY MostPagesMost, PagerLeads DEF Paging, ListTypeOK, PagerSound, Pages
<1>. QED BY <1>1, PagingInvariance, PTL

(* As long as no row has left a filter, no count of its pages, in flight or  *)
(* on screen, is too high; the present page is one of its own unless the     *)
(* pager of another was used, and so the newest reply knows of it.           *)
CountsHold ==
    /\ \A r \in Requests : request[r].pc = "served" /\ request[r].filter \notin shrunk
            => request[r].total <= PagesOf(size[request[r].filter])
    /\ shown.filter \notin shrunk => totalPages <= PagesOf(size[shown.filter])

NewestIsPresent == request[newest].page = page /\ request[newest].filter = filter

PageInv ==
    /\ CountsHold
    /\ page <= PagesOf(size[filter]) \/ stray \/ filter \in shrunk
    /\ request[newest].pc = "served" /\ NewestIsPresent
            => page <= request[newest].total \/ stray \/ filter \in shrunk
    /\ PageExists

LEMMA PageInitInv == ASSUME Init PROVE PageInv
<1>1. filter \in Filters /\ newest \in Requests /\ size[filter] \in Nat
  BY ListPagesAssumption DEF Init, ListInit
<1>2. PagesOf(size[filter]) \in Nat \ {0}
  BY <1>1, PagesOfRows
<1>. QED BY <1>1, <1>2 DEF Init, ListInit, NoRequest, PageInv, CountsHold, PageExists, ShownIsPresent

(* What a request that is sent leaves as it was                              *)
LEMMA SendOutdates ==
    ASSUME Paging, NEW r \in Requests, NEW p, NEW f, Load(r, p, f)
    PROVE  /\ shown'.filter = shown.filter /\ ~ shown'.newest /\ request'[newest'].pc = "sent"
           /\ \A s \in Requests : request'[s] = request[s] \/ request'[s].pc = "sent"
  BY DEF Load, Outdated, Reply, Sent, Paging, ListTypeOK

LEMMA PageStep == ASSUME Paging, PageInv, ListNext \/ UNCHANGED listVars PROVE PageInv'
<1>t. /\ page \in Nat \ {0} /\ filter \in Filters /\ totalPages \in Nat \ {0}
      /\ request \in [Requests -> Asked] /\ newest \in Requests /\ shown \in Replies
      /\ size \in [Filters -> Nat] /\ stray \in BOOLEAN
  BY MostPagesMost DEF Paging, ListTypeOK, Asked, Pages, Replies
<1>c. \A f \in Filters : PagesOf(size[f]) \in Nat \ {0}
  BY <1>t, PagesOfRows
<1>s. ASSUME shown'.filter = shown.filter, ~ shown'.newest, request'[newest'].pc = "sent",
             \A s \in Requests : request'[s] = request[s] \/ request'[s].pc = "sent",
             UNCHANGED <<totalPages, size, shrunk>>,
             page' <= PagesOf(size[filter']) \/ stray' \/ filter' \in shrunk
      PROVE  PageInv'
  <2>1. CountsHold'
    BY <1>s DEF PageInv, CountsHold
  <2>. QED BY <1>s, <2>1 DEF PageInv, PageExists, ShownIsPresent
<1>1. ASSUME NEW f \in Filters, ChooseFilter(f) PROVE PageInv'
  <2>1. page' = 1 /\ filter' = f /\ UNCHANGED <<totalPages, size, shrunk>>
    BY <1>1 DEF ChooseFilter, PageAfterFilter
  <2>2. /\ shown'.filter = shown.filter /\ ~ shown'.newest /\ request'[newest'].pc = "sent"
        /\ \A s \in Requests : request'[s] = request[s] \/ request'[s].pc = "sent"
    <3>1. CASE page' = page
      BY <1>1, <3>1, SendOutdates DEF ChooseFilter
    <3>2. CASE page' # page
      <4>1. PICK r, again \in Unsent :
                /\ request' = [request EXCEPT ![r] = Sent(page, f), ![again] = Sent(page', f)]
                /\ newest' = again /\ shown' = Outdated
        BY <1>1, <3>2 DEF ChooseFilter
      <4>. QED BY <1>t, <4>1 DEF Sent, Unsent, Outdated, Reply
    <3>. QED BY <3>1, <3>2
  <2>. QED BY <1>c, <1>s, <2>1, <2>2
<1>2. ASSUME NEW p \in Pages, ClickPage(p) PROVE PageInv'
  <2>1. /\ page' = p /\ UNCHANGED <<filter, totalPages, size, shrunk>>
        /\ stray' = (stray \/ shown.filter # filter)
        /\ \/ p \in PageNumbers(page, totalPages)
           \/ p = page - 1 /\ page > 1
           \/ p = page + 1 /\ page < totalPages
    BY <1>2 DEF ClickPage
  <2>2. PICK r \in Requests : Load(r, p, filter)
    BY <1>2 DEF ClickPage
  <2>3. p <= PagesOf(size[filter]) \/ stray' \/ filter \in shrunk
    <3>. SUFFICES ASSUME ~ stray, shown.filter = filter, filter \notin shrunk  PROVE p <= PagesOf(size[filter])
      BY <2>1
    <3>1. p <= totalPages \/ p <= page
      BY <1>t, <2>1, OfferedIsPage
    <3>2. totalPages <= PagesOf(size[filter]) /\ page <= PagesOf(size[filter])
      BY DEF PageInv, CountsHold
    <3>. QED BY <1>t, <1>c, <3>1, <3>2, MostPagesMost DEF Pages
  <2>. QED BY <1>s, <2>1, <2>2, <2>3, SendOutdates
<1>3. ASSUME NEW r \in Requests, Serve(r) PROVE PageInv'
  <2>1. /\ request' = [request EXCEPT ![r].pc = "served", ![r].total = PagesOf(size[request[r].filter])]
        /\ UNCHANGED <<page, filter, totalPages, size, newest, shown, shrunk, stray>>
    BY <1>3 DEF Serve
  <2>2. /\ request'[r].filter = request[r].filter /\ request'[r].page = request[r].page
        /\ request'[r].total = PagesOf(size[request[r].filter]) /\ request[r].filter \in Filters
        /\ \A s \in Requests : s # r => request'[s] = request[s]
    BY <1>t, <2>1 DEF Asked
  <2>3. CountsHold'
    <3>1. PagesOf(size[request[r].filter]) <= PagesOf(size[request[r].filter])
      BY <1>c, <2>2
    <3>2. ASSUME NEW s \in Requests, request'[s].pc = "served", request'[s].filter \notin shrunk
          PROVE  request'[s].total <= PagesOf(size[request'[s].filter])
      BY <2>2, <3>1, <3>2 DEF PageInv, CountsHold
    <3>. QED BY <2>1, <3>2 DEF PageInv, CountsHold
  <2>4. PageExists'
    BY <2>1 DEF PageInv, PageExists, ShownIsPresent
  <2>. QED BY <1>t, <2>1, <2>2, <2>3, <2>4 DEF PageInv, NewestIsPresent
<1>4. ASSUME NEW r \in Requests, Answer(r) PROVE PageInv'
  <2>1. /\ request[r].pc = "served" /\ totalPages' = request[r].total
        /\ shown' = Reply(request[r].page, request[r].filter, r = newest)
        /\ request' = [request EXCEPT ![r] = NoRequest]
        /\ UNCHANGED <<page, filter, size, newest, shrunk, stray>>
    BY <1>4 DEF Answer
  <2>2. /\ shown'.filter = request[r].filter
        /\ shown'.newest => r = newest /\ shown'.page = request[r].page
    BY <2>1 DEF Reply
  <2>3. \A s \in Requests : request'[s] = request[s] \/ request'[s].pc = "idle"
    BY <1>t, <2>1 DEF NoRequest
  <2>4. CountsHold'
    BY <2>1, <2>2, <2>3 DEF PageInv, CountsHold
  <2>5. PageExists'
    <3>. SUFFICES ASSUME ShownIsPresent'  PROVE page <= request[r].total \/ stray \/ filter \in shrunk
      BY <2>1 DEF PageExists
    <3>1. r = newest /\ request[r].page = page /\ request[r].filter = filter
      BY <2>1, <2>2 DEF ShownIsPresent
    <3>. QED BY <2>1, <3>1 DEF PageInv, NewestIsPresent
  <2>. QED BY <1>t, <2>1, <2>3, <2>4, <2>5 DEF PageInv, NewestIsPresent
<1>5. ASSUME NEW r \in Requests, LoadFails(r) PROVE PageInv'
  <2>1. /\ request' = [request EXCEPT ![r] = NoRequest]
        /\ UNCHANGED <<page, filter, size, newest, shrunk, stray>>
        /\ UNCHANGED <<totalPages, shown>> \/ (totalPages' = 1 /\ shown' = Outdated)
    BY <1>5 DEF LoadFails
  <2>2. \A s \in Requests : request'[s] = request[s] \/ request'[s].pc = "idle"
    BY <1>t, <2>1 DEF NoRequest
  <2>3. shown'.filter = shown.filter /\ shown.filter \in Filters /\ (shown'.newest => UNCHANGED <<totalPages, shown>>)
    BY <1>t, <2>1 DEF Outdated, Reply, Replies
  <2>4. CountsHold'
    BY <1>c, <1>t, <2>1, <2>2, <2>3 DEF PageInv, CountsHold
  <2>5. PageExists'
    BY <2>1, <2>3 DEF PageInv, PageExists, ShownIsPresent
  <2>. QED BY <1>t, <2>1, <2>2, <2>4, <2>5 DEF PageInv, NewestIsPresent
<1>6. ASSUME NEW f \in Filters, RowMoves(f) PROVE PageInv'
  <2>1. UNCHANGED <<page, filter, totalPages, request, newest, shown, stray>>
    BY <1>6 DEF RowMoves
  <2>2. /\ shrunk \subseteq shrunk'
        /\ \A g \in Filters : g \in shrunk' \/ PagesOf(size[g]) <= PagesOf(size'[g])
    <3>1. CASE size' = [size EXCEPT ![f] = @ - 1] /\ shrunk' = shrunk \union {f}
      BY <1>t, <1>c, <3>1
    <3>2. CASE size' = [size EXCEPT ![f] = @ + 1] /\ UNCHANGED shrunk
      <4>1. size'[f] = size[f] + 1 /\ \A g \in Filters : g # f => size'[g] = size[g]
        BY <1>t, <3>2
      <4>2. PagesOf(size[f]) <= PagesOf(size[f] + 1)
        BY <1>t, PagesGrow
      <4>. QED BY <1>c, <3>2, <4>1, <4>2
    <3>. QED BY <1>6, <3>1, <3>2 DEF RowMoves
  <2>3. \A g \in Filters : size'[g] \in Nat
    BY <1>6, <1>t, ListPagesAssumption DEF RowMoves
  <2>4. \A g \in Filters : PagesOf(size'[g]) \in Nat
    BY <2>3, PagesOfRows
  <2>5. CountsHold'
    BY <1>t, <1>c, <2>1, <2>2, <2>4, MostPagesMost DEF PageInv, CountsHold, Asked, Replies, Pages
  <2>6. PageExists'
    BY <2>1, <2>2 DEF PageInv, PageExists, ShownIsPresent
  <2>7. page <= PagesOf(size'[filter]) \/ stray \/ filter \in shrunk'
    BY <1>t, <1>c, <2>2, <2>4 DEF PageInv
  <2>. QED BY <2>1, <2>2, <2>5, <2>6, <2>7 DEF PageInv, NewestIsPresent
<1>7. CASE ClickWrite \/ (\E d \in writing : WriteFails(d)) \/ UNCHANGED listVars
  <2>1. UNCHANGED <<page, filter, totalPages, size, request, newest, shown, shrunk, stray>>
    BY <1>7 DEF ClickWrite, WriteFails, listVars
  <2>. QED BY <2>1 DEF PageInv, CountsHold, NewestIsPresent, PageExists, ShownIsPresent
<1>8. ASSUME NEW d \in writing, WriteDone(d) PROVE PageInv'
  <2>1. UNCHANGED <<page, filter, totalPages, size, shrunk, stray>>
    BY <1>8 DEF WriteDone
  <2>2. PICK r \in Requests : Load(r, d.page, d.filter)
    BY <1>8 DEF WriteDone
  <2>3. page <= PagesOf(size[filter]) \/ stray \/ filter \in shrunk
    BY DEF PageInv
  <2>. QED BY <1>s, <2>1, <2>2, <2>3, SendOutdates
<1>. QED BY <1>1, <1>2, <1>3, <1>4, <1>5, <1>6, <1>7, <1>8 DEF ListNext

(* For any lists, any number of requests in flight, failed or overtaken, and *)
(* whoever writes: when the newest reply is shown, for the present page and  *)
(* filter, it is no empty page past the end, unless rows have left this      *)
(* filter or a page of another filter's pager was chosen.                    *)
THEOREM PageIsThere == Spec => []PageExists
<1>1. PageInv /\ Paging /\ [Next]_vars => PageInv'
  BY OnePart, PageStep
<1>2. PageInv => PageExists
  BY DEF PageInv
<1>. QED BY <1>1, <1>2, PageInitInv, PagingInvariance, PTL DEF Spec

-----------------------------------------------------------------------------
(* The four parts together *)

(* Type correctness of the catalogue: whatever the bounds of its parts.      *)
THEOREM CatalogueTyped == Spec => []TypeOK
<1>1. SeatingInv /\ SeatingBounds /\ [Next]_vars => SeatingBounds'
  BY OnePart, SeatingBoundsStep
<1>2. Spec => []SeatingBounds
  BY <1>1, BoundsBegin, SeatingInvariance, PTL DEF Spec
<1>3. SeatingInv /\ SeatingBounds /\ Paging /\ FormTypeOK /\ CacheTypeOK => TypeOK
  BY SeatingTypes DEF TypeOK, Paging
<1>. QED BY <1>2, <1>3, CacheInvariance, SeatingInvariance, PagingInvariance, FormInvariance, PTL
=============================================================================
