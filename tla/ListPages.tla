----------------------------- MODULE ListPages -----------------------------
(* A list with a filter and a pager: the events page, and events and venues  *)
(* of the admin panel.  A change of the filter sends a request with the old  *)
(* page and then, when the page has been set back, one with page 1; replies  *)
(* come in any order and the last to come is shown.  On the admin panel a    *)
(* save or a delete is followed by a load, with the page and filter of the   *)
(* moment it was clicked.  Rows come under a filter and leave it by those    *)
(* writes, by writes from elsewhere and, under the filter of the status, by  *)
(* the time of day; requests fail.                                           *)
EXTENDS Pager, FiniteSets

CONSTANTS Filters,
          Size,         \* rows there are under each filter to begin with
          Limit,        \* rows on a page
          Requests,     \* bound: requests for the list in flight
          MaxUpsets     \* bound: rows that come under a filter or leave it, loads that fail

(* There are finitely many filters, so the rows of one are the most.         *)
ASSUME ListPagesAssumption ==
    /\ Size \in [Filters -> Nat] /\ \E h \in Filters : \A f \in Filters : Size[f] <= Size[h]
    /\ Limit \in Nat \ {0} /\ MaxUpsets \in Nat

VARIABLES admin,        \* a list of the admin panel, or the events page
          page, filter, totalPages,
          size,         \* rows there are now
          request,      \* requests in flight; total: totalPages answered, 0: not yet
          newest,       \* the request sent last
          shown,        \* history: page and filter of the reply shown, and whether it is the newest's
          writing,      \* the save or delete in flight, with the page and filter it loads again
          upsets,
          shrunk,       \* history: filters a row has left
          stray         \* history: since the page was set to 1, a page was chosen in the
                        \* pager of another filter
listVars == <<admin, page, filter, totalPages, size, request, newest, shown, writing, upsets, shrunk, stray>>

(* Bound: a filter gets at most one row more than it has to begin with.      *)
MostPages == CHOOSE n \in {Size[f] + 1 : f \in Filters} : \A f \in Filters : Size[f] + 1 <= n
Pages == 1 .. MostPages
NoRequest == [pc |-> "idle", page |-> 1, filter |-> CHOOSE f \in Filters : TRUE, total |-> 1]

ListTypeOK ==
    /\ admin \in BOOLEAN
    /\ page \in Pages /\ filter \in Filters /\ totalPages \in Pages
    /\ size \in [Filters -> Nat]
    /\ request \in [Requests -> [pc : {"idle", "sent", "served"}, page : Pages, filter : Filters, total : Pages]]
    /\ newest \in Requests
    /\ shown \in [page : Pages, filter : Filters, newest : BOOLEAN]
    /\ writing \in SUBSET [page : Pages, filter : Filters]
    /\ upsets \in 0 .. MaxUpsets /\ shrunk \subseteq Filters /\ stray \in BOOLEAN

(* Math.ceil(total / limit) of the service, and `|| 1` of the page           *)
PagesOf(rows) == Most(1, (rows + Limit - 1) \div Limit)

ListInit ==
    /\ admin \in BOOLEAN
    /\ page = 1 /\ totalPages = 1
    /\ filter \in Filters
    /\ size = Size
    /\ newest \in Requests
    /\ request = [r \in Requests |-> IF r = newest
            THEN [pc |-> "sent", page |-> 1, filter |-> filter, total |-> 1] ELSE NoRequest]
    /\ shown = [page |-> 1, filter |-> filter, newest |-> FALSE]
    /\ writing = {} /\ upsets = 0 /\ shrunk = {} /\ stray = FALSE

Sent(p, f) == [pc |-> "sent", page |-> p, filter |-> f, total |-> 1]
Upset == upsets < MaxUpsets /\ upsets' = upsets + 1
Unsent == {r \in Requests : request[r].pc = "idle"}
(* Of a reply that was not the newest's, only the filter is remembered.      *)
Reply(p, f, new) == [page |-> IF new THEN p ELSE 1, filter |-> f, newest |-> new]
Outdated == Reply(1, shown.filter, FALSE)

-----------------------------------------------------------------------------
Load(r, p, f) ==
    /\ r \in Unsent
    /\ request' = [request EXCEPT ![r] = Sent(p, f)]
    /\ newest' = r /\ shown' = Outdated

(* Slip: a change of the filter leaves the page. *)
PageAfterFilter_Kept == page
PageAfterFilter == 1

(* The effects of a change of the filter (or of the search, 300 ms after the *)
(* last key): the first still has the old page.                              *)
ChooseFilter(f) ==
    /\ f # filter /\ filter' = f
    /\ page' = PageAfterFilter
    /\ IF page' = page
       THEN \E r \in Requests : Load(r, page, f)
       ELSE \E r, again \in Unsent :
            /\ r # again
            /\ request' = [request EXCEPT ![r] = Sent(page, f), ![again] = Sent(page', f)]
            /\ newest' = again /\ shown' = Outdated
    /\ stray' = FALSE
    /\ UNCHANGED <<admin, totalPages, size, writing, upsets, shrunk>>

(* The pager, with its arrows, is there when there are several pages; until  *)
(* the reply to a change of the filter it is the one of the old filter.      *)
ClickPage(p) ==
    /\ totalPages > 1 /\ p # page
    /\ \/ p \in PageNumbers(page, totalPages)
       \/ p = page - 1 /\ page > 1
       \/ p = page + 1 /\ page < totalPages
    /\ page' = p
    /\ \E r \in Requests : Load(r, p, filter)
    /\ stray' = (stray \/ shown.filter # filter)
    /\ UNCHANGED <<admin, filter, totalPages, size, writing, upsets, shrunk>>

(* COUNT and SELECT with LIMIT and OFFSET, at some moment on the way         *)
Serve(r) ==
    /\ request[r].pc = "sent"
    /\ request' = [request EXCEPT ![r].pc = "served", ![r].total = PagesOf(size[request[r].filter])]
    /\ UNCHANGED <<admin, page, filter, totalPages, size, newest, shown, writing, upsets, shrunk, stray>>

Answer(r) ==
    /\ request[r].pc = "served"
    /\ totalPages' = request[r].total
    /\ shown' = Reply(request[r].page, request[r].filter, r = newest)
    /\ request' = [request EXCEPT ![r] = NoRequest]
    /\ UNCHANGED <<admin, page, filter, size, newest, writing, upsets, shrunk, stray>>

(* No reply, or an error: the events page takes it for an empty list of one  *)
(* page, the admin panel leaves list and pager as they are.                  *)
LoadFails(r) ==
    /\ request[r].pc # "idle" /\ Upset
    /\ request' = [request EXCEPT ![r] = NoRequest]
    /\ IF admin THEN UNCHANGED <<totalPages, shown>> ELSE totalPages' = 1 /\ shown' = Outdated
    /\ UNCHANGED <<admin, page, filter, size, newest, writing, shrunk, stray>>

(* A row comes under a filter or leaves it: by a write of this page or of    *)
(* another client, or by the time of day.  A write that moves a row from     *)
(* under one filter to under another is two such steps.                      *)
RowMoves(f) ==
    /\ Upset
    /\ \/ /\ size[f] > 0 /\ size' = [size EXCEPT ![f] = @ - 1]
          /\ shrunk' = shrunk \union {f}
       \/ /\ size[f] <= Size[f] /\ size' = [size EXCEPT ![f] = @ + 1]
          /\ UNCHANGED shrunk
    /\ UNCHANGED <<admin, page, filter, totalPages, request, newest, shown, writing, stray>>

(* The form is submitted, or confirm() answered.  Neither holds up the page  *)
(* for long: a dialog can be closed while it saves.  Its rows move before    *)
(* the reply, if at all.  Bound: one write at a time.                        *)
ClickWrite ==
    /\ admin /\ writing = {}
    /\ writing' = {[page |-> page, filter |-> filter]}
    /\ UNCHANGED <<admin, page, filter, totalPages, size, request, newest, shown, upsets, shrunk, stray>>

WriteDone(d) ==
    /\ d \in writing /\ writing' = writing \ {d}
    /\ \E r \in Requests : Load(r, d.page, d.filter)
    /\ UNCHANGED <<admin, page, filter, totalPages, size, upsets, shrunk, stray>>

(* An error, or only the answer is lost: no load after it *)
WriteFails(d) ==
    /\ d \in writing /\ writing' = writing \ {d}
    /\ UNCHANGED <<admin, page, filter, totalPages, size, request, newest, shown, upsets, shrunk, stray>>

ListNext ==
    \/ \E f \in Filters : ChooseFilter(f)
    \/ \E p \in Pages : ClickPage(p)
    \/ \E r \in Requests : Serve(r) \/ Answer(r) \/ LoadFails(r)
    \/ \E f \in Filters : RowMoves(f)
    \/ ClickWrite
    \/ \E d \in writing : WriteDone(d) \/ WriteFails(d)

-----------------------------------------------------------------------------
(* Properties *)

(* What the pager of the present state offers leads everywhere. *)
PagerSound == page <= totalPages => PagerLeadsOn(page, totalPages)

(* Shown is the reply to the last request, which was for the present page    *)
(* and filter: then the page is one of the list's, and it is no empty page   *)
(* past the end (where the pager itself may be gone), unless rows have left  *)
(* the list of this filter or the pager of another filter was used.  Earlier *)
(* requests may still be in flight, and others may have failed.              *)
ShownIsPresent == shown = [page |-> page, filter |-> filter, newest |-> TRUE]
PageExists == ShownIsPresent => page <= totalPages \/ stray \/ filter \in shrunk
=============================================================================
