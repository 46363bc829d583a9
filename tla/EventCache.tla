----------------------------- MODULE EventCache -----------------------------
(* services/event-service: one event, its venue, and the two Redis keys that *)
(* cache it, event:<id> and events:list.  Readers fill a key they miss;      *)
(* writers of the event delete both keys after their statement, one await    *)
(* each; writers of the venue delete neither.  Rows are kept as versions.    *)
EXTENDS Naturals, FiniteSets

CONSTANTS Readers, Writers,
          MaxVersion,   \* bound: versions of the event's row
          MaxVenue,     \* bound: versions of the venue's row
          MaxDeaths     \* bound: writers that die between their awaits

ASSUME EventCacheAssumption ==
    MaxVersion \in Nat \ {0} /\ MaxVenue \in Nat \ {0} /\ MaxDeaths \in Nat

VARIABLES row,          \* version of the event; 0: not created, Gone: deleted
          venue,        \* version of its venue; 0: deleted
          cache,        \* what a key holds, with whether it was old when stored
          reader,       \* GET /events and GET /events/:id in flight
          writer,       \* requests of the admin panel in flight
          deaths

cacheVars == <<row, venue, cache, reader, writer, deaths>>

Gone == MaxVersion + 1
Versions == 0 .. Gone
Keys == {"detail", "list"}
Empty == [row |-> 0, venue |-> 0, late |-> FALSE, there |-> FALSE]
Snapshot == [row |-> row, venue |-> venue]
NotReading == [pc |-> "idle", key |-> "list", seen |-> [row |-> 0, venue |-> 0]]

CacheTypeOK ==
    /\ row \in Versions /\ venue \in 0 .. MaxVenue
    /\ cache \in [Keys -> [row : Versions, venue : 0 .. MaxVenue, late : BOOLEAN, there : BOOLEAN]]
    /\ reader \in [Readers -> [pc : {"idle", "query", "fill"}, key : Keys,
                               seen : [row : Versions, venue : 0 .. MaxVenue]]]
    /\ writer \in [Writers -> [pc : {"idle", "detail", "list", "venue"}, dead : BOOLEAN]]
    /\ deaths \in 0 .. MaxDeaths

CacheInit ==
    /\ row = 0 /\ venue = 1
    /\ cache = [k \in Keys |-> Empty]
    /\ reader = [r \in Readers |-> NotReading]
    /\ writer = [w \in Writers |-> [pc |-> "idle", dead |-> FALSE]]
    /\ deaths = 0

Live == row \in 1 .. MaxVersion

-----------------------------------------------------------------------------
(* Readers *)

Reading(r, pc, key, seen) == reader' = [reader EXCEPT ![r] = [pc |-> pc, key |-> key, seen |-> seen]]

(* A key that is there is served and nothing changes, but refresh=1 passes   *)
(* by the list.  Lists with a page or a filter are never cached.             *)
ReadMiss(r, key) ==
    /\ reader[r].pc = "idle"
    /\ cache[key].there => key = "list"
    /\ Reading(r, "query", key, NotReading.seen)
    /\ UNCHANGED <<row, venue, cache, writer, deaths>>

(* SELECT; an event that is not there is a 404, and not cached               *)
ReadQuery(r) ==
    /\ reader[r].pc = "query"
    /\ IF reader[r].key = "detail" /\ ~ Live
       THEN reader' = [reader EXCEPT ![r] = NotReading]
       ELSE Reading(r, "fill", reader[r].key, Snapshot)
    /\ UNCHANGED <<row, venue, cache, writer, deaths>>

(* SETEX, 120 s or 60 s, whatever has happened to the row meanwhile          *)
ReadFill(r) ==
    /\ reader[r].pc = "fill"
    /\ LET seen == reader[r].seen
       IN  cache' = [cache EXCEPT ![reader[r].key] =
            [row |-> seen.row, venue |-> seen.venue, late |-> seen.row # row, there |-> TRUE]]
    /\ reader' = [reader EXCEPT ![r] = NotReading]
    /\ UNCHANGED <<row, venue, writer, deaths>>

(* Slip: the list is stored with SET, that is without a TTL. *)
Lapses_DetailOnly(key) == key = "detail" /\ cache[key].there
Lapses(key) == cache[key].there

Expire(key) ==
    /\ Lapses(key)
    /\ cache' = [cache EXCEPT ![key] = Empty]
    /\ UNCHANGED <<row, venue, reader, writer, deaths>>

-----------------------------------------------------------------------------
(* Writers *)

Free(w) == writer[w].pc = "idle"
Writing(w, pc) == writer' = [writer EXCEPT ![w].pc = pc]

(* POST /events, PUT /events/:id and its banner, DELETE.  A PUT that finds no *)
(* row is a 404 before the caches; the event's venue has to exist.           *)
WriteEvent(w) ==
    /\ Free(w) /\ Writing(w, "detail")
    /\ \/ row < MaxVersion /\ venue > 0 /\ row' = row + 1
       \/ row > 0 /\ row' = Gone
    /\ UNCHANGED <<venue, cache, reader, deaths>>

(* invalidateEventCache.  Slip: the second key is forgotten.                 *)
AfterDetail_Done == "idle"
AfterDetail == "list"

Invalidate(w) ==
    /\ ~ writer[w].dead
    /\ \/ /\ writer[w].pc = "detail" /\ Writing(w, AfterDetail)
          /\ cache' = [cache EXCEPT !["detail"] = Empty]
       \/ /\ writer[w].pc = "list" /\ Writing(w, "idle")
          /\ cache' = [cache EXCEPT !["list"] = Empty]
    /\ UNCHANGED <<row, venue, reader, deaths>>

WriteDies(w) ==
    /\ deaths < MaxDeaths /\ deaths' = deaths + 1
    /\ writer[w].pc \in {"detail", "list"} /\ ~ writer[w].dead
    /\ writer' = [writer EXCEPT ![w].dead = TRUE]
    /\ UNCHANGED <<row, venue, cache, reader>>

(* PUT /admin/venues/:id *)
WriteVenue ==
    /\ venue \in 1 .. MaxVenue - 1 /\ venue' = venue + 1
    /\ UNCHANGED <<row, cache, reader, writer, deaths>>

(* DELETE /admin/venues/:id counts the events of the venue before it deletes *)
(* it; one that was created in between makes the statement fail (foreign key). *)
VenueCheck(w) ==
    /\ Free(w) /\ venue > 0 /\ ~ Live
    /\ Writing(w, "venue")
    /\ UNCHANGED <<row, venue, cache, reader, deaths>>

VenueDelete(w) ==
    /\ writer[w].pc = "venue" /\ Writing(w, "idle")
    /\ venue' = IF Live THEN venue ELSE 0
    /\ UNCHANGED <<row, cache, reader, deaths>>

CacheNext ==
    \/ \E r \in Readers, key \in Keys : ReadMiss(r, key)
    \/ \E r \in Readers : ReadQuery(r) \/ ReadFill(r)
    \/ \E key \in Keys : Expire(key)
    \/ \E w \in Writers : \/ WriteEvent(w) \/ Invalidate(w) \/ WriteDies(w)
                          \/ VenueCheck(w) \/ VenueDelete(w)
    \/ WriteVenue

(* Requests that were started run on unless they die, and seconds pass.      *)
CacheFairness ==
    /\ \A r \in Readers : WF_cacheVars(ReadQuery(r) \/ ReadFill(r))
    /\ \A w \in Writers : WF_cacheVars(Invalidate(w) \/ VenueDelete(w))
    /\ \A key \in Keys : WF_cacheVars(Expire(key))

-----------------------------------------------------------------------------
(* Properties *)

(* A cached event that is not the row's is waiting for its DEL, or its DEL   *)
(* died with the writer, or a reader that had queried before the write put   *)
(* it back: there is no other way to serve an old event.                     *)
OldIsAccounted == \A key \in Keys :
    cache[key].there /\ ~ cache[key].late /\ cache[key].row # row =>
        \E w \in Writers : writer[w].pc = "detail" \/ (writer[w].pc = "list" /\ key = "list")

(* Late fills, lost DELs and venue edits that invalidate nothing all heal:   *)
(* once the writes have stopped, both keys hold the present event and venue  *)
(* or nothing, for good.                                                     *)
CachesCatchUp == <>[] \A key \in Keys :
    cache[key].there => cache[key].row = row /\ cache[key].venue = venue
=============================================================================
