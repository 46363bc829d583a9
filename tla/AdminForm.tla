----------------------------- MODULE AdminForm -----------------------------
(* The table and the dialog of an admin page: events, venues or users.  The  *)
(* dialog is filled from a row of the list on screen, its save sends the     *)
(* whole form, and the answer closes whatever dialog is open by then and     *)
(* loads the list again; an error does neither.  Of a row's fields one is    *)
(* kept: an event's description, a venue's address, a user's password.       *)
EXTENDS Naturals, FiniteSets

CONSTANTS Entities,     \* the pages: of "events", "venues" and "users"
          Rows,         \* ids; a deleted one is not used again
          Texts,        \* what the field may hold, apart from Blank
          Blank, NoRow,
          MaxSent,      \* bound: saves and deletes in flight
          MaxFetches,   \* bound: loads of the list in flight
          MaxOpened,    \* bound: dialogs opened
          MaxExtras     \* bound: loads by search, filter and page, answers lost,
                        \* loads that fail and writes from elsewhere

ASSUME AdminFormAssumption ==
    /\ Entities \subseteq {"events", "venues", "users"}
    /\ NoRow \notin Rows /\ Blank \notin Texts
    /\ IsFiniteSet(Rows) /\ {"none", "gone"} \intersect (Texts \union {Blank}) = {}
    /\ MaxSent \in Nat /\ MaxFetches \in Nat /\ MaxOpened \in Nat
    /\ MaxExtras \in Nat

VARIABLES entity,       \* the page
          table,        \* the rows of the service's table
          list,         \* the rows on screen; stale: history, see Missed
          fetches,      \* loads in flight, with the rows the service has read;
                        \* newest: it was sent last
          dialog,       \* opened: which dialog it is
          saving,
          sent,         \* saves and deletes in flight; opened: history, by which dialog
          made,         \* history: rows each dialog has created
          unsure,       \* history: dialogs of which an answer was lost
          extras

formVars == <<entity, table, list, fetches, dialog, saving, sent, made, unsure, extras>>

Fields == Texts \union {Blank}
Tables == [Rows -> Fields \union {"none", "gone"}]
Closed == [open |-> FALSE, editing |-> NoRow, form |-> Blank, opened |-> 0]
NoRows == [r \in Rows |-> "none"]

FormTypeOK ==
    /\ entity \in Entities
    /\ table \in Tables
    /\ list \in [rows : Tables, stale : BOOLEAN, newest : BOOLEAN]
    /\ fetches \subseteq [pc : {"sent", "read"}, rows : Tables, stale : BOOLEAN, newest : BOOLEAN]
    /\ dialog \in [open : BOOLEAN, editing : Rows \union {NoRow}, form : Fields,
                   opened : 0 .. MaxOpened]
    /\ saving \in BOOLEAN
    /\ sent \subseteq [pc : {"sent", "done", "unheard"}, op : {"post", "put", "delete"},
                       row : Rows \union {NoRow}, form : Fields,
                       opened : 0 .. MaxOpened]
    /\ made \in [1 .. MaxOpened -> 0 .. Cardinality(Rows)]
    /\ unsure \subseteq 1 .. MaxOpened
    /\ extras \in 0 .. MaxExtras

(* The page has sent its first load.                                         *)
FormInit ==
    /\ entity \in Entities
    /\ table = NoRows
    /\ fetches = {[pc |-> "sent", rows |-> NoRows, stale |-> FALSE, newest |-> TRUE]}
    /\ list = [rows |-> NoRows, stale |-> FALSE, newest |-> FALSE]
    /\ dialog = Closed /\ saving = FALSE
    /\ sent = {}
    /\ made = [o \in 1 .. MaxOpened |-> 0] /\ unsure = {} /\ extras = 0

Extra == extras < MaxExtras /\ extras' = extras + 1

In(rows) == {r \in Rows : rows[r] \in Fields}

-----------------------------------------------------------------------------
(* The list: loadEvents, loadVenues, loadUsers *)

LoadAgain ==
    /\ Cardinality(fetches) < MaxFetches
    /\ fetches' = {[f EXCEPT !.newest = FALSE] : f \in fetches} \union
        {[pc |-> "sent", rows |-> NoRows, stale |-> FALSE, newest |-> TRUE]}
    /\ list' = [list EXCEPT !.newest = FALSE]

(* Search, filters and page of the events and the venues; the users page     *)
(* searches what it has.                                                     *)
Reload ==
    /\ entity # "users" /\ LoadAgain
    /\ Extra
    /\ UNCHANGED <<entity, table, dialog, saving, sent, made, unsure>>

ReadRows(f) ==
    /\ f.pc = "sent"
    /\ fetches' = (fetches \ {f}) \union {[f EXCEPT !.pc = "read", !.rows = table]}
    /\ UNCHANGED <<entity, table, list, dialog, saving, sent, made, unsure, extras>>

ShowRows(f) ==
    /\ f.pc = "read"
    /\ list' = [rows |-> f.rows, stale |-> f.stale, newest |-> f.newest]
    /\ fetches' = fetches \ {f}
    /\ UNCHANGED <<entity, table, dialog, saving, sent, made, unsure, extras>>

(* A load that fails leaves the rows that are there.                         *)
FetchFails(f) ==
    /\ Extra
    /\ fetches' = fetches \ {f}
    /\ UNCHANGED <<entity, table, list, dialog, saving, sent, made, unsure>>

(* A write the page hears nothing of: rows read before it are stale.         *)
Missed ==
    /\ list' = [list EXCEPT !.stale = TRUE]
    /\ fetches' = {[f EXCEPT !.stale = f.pc = "read"] : f \in fetches}

-----------------------------------------------------------------------------
(* The dialog *)

Opened(editing, form) ==
    /\ ~ dialog.open /\ dialog.opened < MaxOpened
    /\ dialog' = [open |-> TRUE, editing |-> editing, form |-> form,
                  opened |-> dialog.opened + 1]
    /\ UNCHANGED <<entity, table, list, fetches, saving, sent, made, unsure, extras>>

OpenCreateDialog == Opened(NoRow, Blank)

(* A password is never shown.                                                *)
OpenEditDialog(r) ==
    r \in In(list.rows) /\ Opened(r, IF entity = "users" THEN Blank ELSE list.rows[r])

UpdateField(text) ==
    /\ dialog.open /\ text # dialog.form
    /\ dialog' = [dialog EXCEPT !.form = text]
    /\ UNCHANGED <<entity, table, list, fetches, saving, sent, made, unsure, extras>>

(* Nobody sees the form of a closed dialog again: both openers fill it anew. *)
Shut == dialog' = [dialog EXCEPT !.open = FALSE, !.form = Blank]

CloseDialog ==
    /\ dialog.open /\ Shut
    /\ UNCHANGED <<entity, table, list, fetches, saving, sent, made, unsure, extras>>

-----------------------------------------------------------------------------
(* saveEvent, saveVenue, saveUser and the deletes *)

Request(op, row, form, opened) ==
    /\ Cardinality(sent) < MaxSent
    /\ sent' = sent \union {[pc |-> "sent", op |-> op, row |-> row, form |-> form,
                             opened |-> opened]}
    /\ UNCHANGED <<entity, table, list, fetches, dialog, made, unsure, extras>>

(* The button is disabled while a save is in flight, whichever dialog it was *)
(* pressed in; a new user needs a password.  Slip: it is not disabled.       *)
Submittable_Always == dialog.open
Submittable == dialog.open /\ ~ saving

Save ==
    /\ Submittable
    /\ entity = "users" /\ dialog.editing = NoRow => dialog.form # Blank
    /\ Request(IF dialog.editing = NoRow THEN "post" ELSE "put", dialog.editing,
               dialog.form, dialog.opened)
    /\ saving' = TRUE

(* toEventPayload throws within the try when the dates are missing or in the *)
(* wrong order: saving is set and reset, and the dialog stays as it is.      *)

(* confirm() was answered yes; the admin's own account cannot be chosen.     *)
ClickRemove(r) ==
    /\ ~ dialog.open /\ r \in In(list.rows)
    /\ Request("delete", r, Blank, 0)
    /\ UNCHANGED saving

(* What a PUT makes of the field: an empty one is left out of the request by *)
(* the events and the users page, and sent as null by the venues page.       *)
Stored(old, form) == IF form = Blank /\ entity # "venues" THEN old ELSE form

Unused == {r \in Rows : table[r] = "none"}

(* PUT and DELETE of a missing row are 404, but DELETE /events succeeds.      *)
Written(q) ==
    \/ /\ q.op = "post"
       /\ Unused # {} /\ table' = [table EXCEPT ![CHOOSE r \in Unused : TRUE] = q.form]
       /\ made' = [made EXCEPT ![q.opened] = @ + 1]
    \/ /\ q.op = "put" /\ q.row \in In(table)
       /\ table' = [table EXCEPT ![q.row] = Stored(@, q.form)]
       /\ UNCHANGED made
    \/ /\ q.op = "delete" /\ (q.row \in In(table) \/ entity = "events")
       /\ table' = [table EXCEPT ![q.row] = "gone"]
       /\ UNCHANGED made

Over(q) == sent' = sent \ {q}
Goes(q, pc, form) == sent' = (sent \ {q}) \union {[q EXCEPT !.pc = pc, !.form = form]}

(* The service's statement.  Nobody waits for one that is unheard.           *)
Write(q) ==
    /\ \/ q.pc = "sent" /\ Goes(q, "done", Blank) /\ UNCHANGED <<list, fetches>>
       \/ q.pc = "unheard" /\ Over(q) /\ Missed
    /\ Written(q)
    /\ UNCHANGED <<entity, dialog, saving, unsure, extras>>

(* finally: setSaving(false).                                                *)
Finally(q) == saving' = (saving /\ q.op = "delete")

(* Slip: a delete does not load the list.                                    *)
LoadsAfter_Save(op) == op # "delete"
LoadsAfter(op) == TRUE

Succeed(q) ==
    /\ q.pc = "done" /\ Over(q) /\ Finally(q)
    /\ IF q.op = "delete" THEN UNCHANGED dialog ELSE Shut
    /\ IF LoadsAfter(q.op) THEN LoadAgain ELSE UNCHANGED <<fetches, list>>
    /\ UNCHANGED <<entity, table, made, unsure, extras>>

(* 400, 404, 409 and the 500 of a statement that fails: nothing is written.  *)
(* The events' 500 after it, when Redis does not DEL, is an answer lost.     *)
Refuse(q) ==
    /\ q.pc \in {"sent", "unheard"} /\ Over(q)
    /\ IF q.pc = "sent" THEN Finally(q) ELSE UNCHANGED saving
    /\ UNCHANGED <<entity, table, list, fetches, dialog, made, unsure, extras>>

(* The connection breaks before the statement or after it: the page takes it *)
(* for an error, and the service goes on.                                    *)
AnswerLost(q) ==
    /\ Extra
    /\ \/ q.pc = "sent" /\ Goes(q, "unheard", q.form) /\ UNCHANGED <<list, fetches>>
       \/ q.pc = "done" /\ Over(q) /\ Missed
    /\ Finally(q)
    /\ unsure' = IF q.op = "delete" THEN unsure ELSE unsure \union {q.opened}
    /\ UNCHANGED <<entity, table, dialog, made>>

(* Another admin, or a registration.                                         *)
OtherWrite(r) ==
    /\ Extra
    /\ \/ table[r] # "gone" /\ \E v \in Fields : v # table[r] /\ table' = [table EXCEPT ![r] = v]
       \/ table[r] \in Fields /\ table' = [table EXCEPT ![r] = "gone"]
    /\ Missed
    /\ UNCHANGED <<entity, dialog, saving, sent, made, unsure>>

FormNext ==
    \/ Reload
    \/ \E f \in fetches : ReadRows(f) \/ ShowRows(f) \/ FetchFails(f)
    \/ OpenCreateDialog \/ CloseDialog \/ Save
    \/ \E r \in Rows : OpenEditDialog(r) \/ ClickRemove(r) \/ OtherWrite(r)
    \/ \E text \in Fields : UpdateField(text)
    \/ \E q \in sent : Write(q) \/ Refuse(q) \/ Succeed(q) \/ AnswerLost(q)

-----------------------------------------------------------------------------
(* Properties *)

(* A dialog creates one row, though its button is pressed again, unless an   *)
(* answer was lost: then the admin is told that it failed and may repeat it. *)
CreatesOnce == \A o \in 1 .. MaxOpened : made[o] > 1 => o \in unsure

(* Nothing in flight, and the rows on screen are the newest load's: then     *)
(* they are the table's, so that the next dialog is filled with what is      *)
(* there, unless somebody else wrote or an answer was lost since.            *)
Quiet == sent = {} /\ fetches = {}
ShowsTable == Quiet /\ list.newest /\ ~ list.stale => list.rows = table
=============================================================================
