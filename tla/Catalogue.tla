----------------------------- MODULE Catalogue -----------------------------
(* The catalogue of events: the cache of services/event-service, the         *)
(* generation of seats, a list page and the form of an admin page.  The four *)
(* share no state, so a behaviour is about one of them, chosen at the start, *)
(* and starts the others in one of the ways they may start.                  *)
EXTENDS EventCache, Seating, ListPages, AdminForm

VARIABLE part

vars == <<part, cacheVars, seatingVars, listVars, formVars>>

TypeOK == CacheTypeOK /\ SeatingTypeOK /\ ListTypeOK /\ FormTypeOK

Init ==
    /\ part \in {"cache", "seating", "list", "form"}
    /\ CacheInit /\ SeatingInit /\ ListInit /\ FormInit
    /\ part # "list" => filter = CHOOSE f \in Filters : TRUE
    /\ part # "list" => ~ admin
    /\ part # "list" => newest = CHOOSE r \in Requests : TRUE
    /\ part # "form" => entity = CHOOSE e \in Entities : TRUE

Next ==
    \/ part = "cache" /\ CacheNext /\ UNCHANGED <<part, seatingVars, listVars, formVars>>
    \/ part = "seating" /\ SeatingNext /\ UNCHANGED <<part, cacheVars, listVars, formVars>>
    \/ part = "list" /\ ListNext /\ UNCHANGED <<part, cacheVars, seatingVars, formVars>>
    \/ part = "form" /\ FormNext /\ UNCHANGED <<part, cacheVars, seatingVars, listVars>>

Spec == Init /\ [][Next]_vars /\ (part = "cache" => CacheFairness)
=============================================================================
