--------------------------- MODULE AdminFormProofs ---------------------------
(* The form of an admin page for any rows, texts and bounds: how often a     *)
(* dialog creates a row, and when the rows on screen are the table's.        *)
EXTENDS Catalogue, FiniteSetTheorems, TLAPS

LEMMA FormPart == ASSUME [Next]_vars PROVE FormNext \/ UNCHANGED formVars
  BY DEF Next, vars, formVars

(* The types the arguments below need; how many rows a dialog may have made  *)
(* is no part of them.                                                       *)
Snapshots == [pc : {"sent", "read"}, rows : Tables, stale : BOOLEAN, newest : BOOLEAN]
Requested == [pc : {"sent", "done", "unheard"}, op : {"post", "put", "delete"},
              row : Rows \union {NoRow}, form : Fields, opened : 0 .. MaxOpened]
Dialogs == [open : BOOLEAN, editing : Rows \union {NoRow}, form : Fields, opened : 0 .. MaxOpened]
Lists == [rows : Tables, stale : BOOLEAN, newest : BOOLEAN]

Typed ==
    /\ table \in Tables /\ list \in Lists
    /\ fetches \subseteq Snapshots /\ sent \subseteq Requested
    /\ dialog \in Dialogs /\ saving \in BOOLEAN
    /\ made \in [1 .. MaxOpened -> Nat]

LEMMA TypedInit == ASSUME FormInit PROVE Typed
<1>1. NoRows \in Tables
  BY DEF NoRows, Tables
<1>2. Closed \in Dialogs
  BY AdminFormAssumption DEF Closed, Dialogs, Fields
<1>3. made \in [1 .. MaxOpened -> Nat]
  BY DEF FormInit
<1>4. fetches \subseteq Snapshots
  <2>1. [pc |-> "sent", rows |-> NoRows, stale |-> FALSE, newest |-> TRUE] \in Snapshots
    BY <1>1 DEF Snapshots
  <2>q. QED BY <2>1 DEF FormInit
<1>5. list \in Lists
  BY <1>1 DEF FormInit, Lists
<1>. QED
  BY <1>1, <1>2, <1>3, <1>4, <1>5 DEF FormInit, Typed

(* A load that is sent, and one whose marks change, keep their type.         *)
LEMMA LoadType == ASSUME Typed, LoadAgain
                  PROVE  fetches' \subseteq Snapshots /\ list' \in Lists
<1>1. NoRows \in Tables
  BY DEF NoRows, Tables
<1>2. [pc |-> "sent", rows |-> NoRows, stale |-> FALSE, newest |-> TRUE] \in Snapshots
  BY <1>1 DEF Snapshots
<1>3. \A f \in fetches : [f EXCEPT !.newest = FALSE] \in Snapshots
  BY DEF Typed, Snapshots
<1>. QED
  BY <1>2, <1>3 DEF LoadAgain, Typed, Lists

LEMMA MissedType == ASSUME Typed, Missed
                    PROVE  fetches' \subseteq Snapshots /\ list' \in Lists
<1>1. \A f \in fetches : [f EXCEPT !.stale = f.pc = "read"] \in Snapshots
  BY DEF Typed, Snapshots
<1>. QED
  BY <1>1 DEF Missed, Typed, Lists

LEMMA WrittenType == ASSUME Typed, NEW q \in sent, Written(q)
                     PROVE  table' \in Tables /\ made' \in [1 .. MaxOpened -> Nat]
<1>1. q \in Requested /\ table \in Tables /\ made \in [1 .. MaxOpened -> Nat]
  BY DEF Typed
<1>2. q.form \in Fields
  BY <1>1 DEF Requested
<1>3. CASE q.op = "post" /\ Unused # {} /\ table' = [table EXCEPT ![CHOOSE r \in Unused : TRUE] = q.form]
           /\ made' = [made EXCEPT ![q.opened] = @ + 1]
  <2> DEFINE fresh == CHOOSE r \in Unused : TRUE
  <2>1. table' \in Tables
    <3>1. table' = [table EXCEPT ![fresh] = q.form]
      BY <1>3
    <3> HIDE DEF fresh
    <3>q. QED BY <1>1, <1>2, <3>1 DEF Tables
  <2>2. made' \in [1 .. MaxOpened -> Nat]
    <3>1. made' = [made EXCEPT ![q.opened] = made[q.opened] + 1]
      BY <1>3
    <3>2. \A o \in 1 .. MaxOpened : made[o] \in Nat /\ made[o] + 1 \in Nat
      BY <1>1
    <3>q. QED BY <1>1, <3>1, <3>2
  <2>q. QED BY <2>1, <2>2
<1>4. CASE q.op = "put" /\ q.row \in In(table) /\ table' = [table EXCEPT ![q.row] = Stored(@, q.form)]
           /\ UNCHANGED made
  <2>1. q.row \in Rows /\ table[q.row] \in Fields
    BY <1>4 DEF In
  <2>2. Stored(table[q.row], q.form) \in Fields
    BY <2>1, <1>2 DEF Stored
  <2>q. QED BY <1>1, <1>4, <2>1, <2>2 DEF Tables
<1>5. CASE q.op = "delete" /\ table' = [table EXCEPT ![q.row] = "gone"] /\ UNCHANGED made
  BY <1>1, <1>5 DEF Tables
<1>. QED
  BY <1>3, <1>4, <1>5 DEF Written

(* What Over and Goes leave in flight.                                       *)
LEMMA GoesType == ASSUME Typed, NEW q \in sent, NEW pc \in {"done", "unheard"}, NEW form \in Fields,
                         Goes(q, pc, form)
                  PROVE  sent' \subseteq Requested
<1>1. [q EXCEPT !.pc = pc, !.form = form] \in Requested
  BY DEF Typed, Requested
<1>. QED BY <1>1 DEF Goes, Typed

LEMMA TypedStep == ASSUME Typed, FormNext \/ UNCHANGED formVars PROVE Typed'
<1>b. Blank \in Fields BY DEF Fields
<1>1. CASE Reload
  BY <1>1, LoadType DEF Reload, Typed
<1>2. ASSUME NEW f \in fetches, ReadRows(f) PROVE Typed'
  <2>1. [f EXCEPT !.pc = "read", !.rows = table] \in Snapshots
    BY DEF Typed, Snapshots
  <2>q. QED BY <1>2, <2>1 DEF ReadRows, Typed
<1>3. ASSUME NEW f \in fetches, ShowRows(f) PROVE Typed'
  <2>1. [rows |-> f.rows, stale |-> f.stale, newest |-> f.newest] \in Lists
    BY DEF Typed, Snapshots, Lists
  <2>q. QED BY <1>3, <2>1 DEF ShowRows, Typed
<1>4. ASSUME NEW f \in fetches, FetchFails(f) PROVE Typed'
  BY <1>4 DEF FetchFails, Typed
<1>5. ASSUME NEW editing \in Rows \union {NoRow}, NEW form \in Fields,
             Opened(editing, form)
      PROVE  Typed'
  <2>1. dialog.opened + 1 \in 0 .. MaxOpened
    BY <1>5, AdminFormAssumption DEF Opened, Typed, Dialogs
  <2>2. dialog' \in Dialogs
    BY <1>5, <2>1 DEF Opened, Dialogs
  <2>q. QED BY <1>5, <2>2 DEF Opened, Typed
<1>6. CASE OpenCreateDialog
  BY <1>5, <1>6, <1>b DEF OpenCreateDialog
<1>7. ASSUME NEW r \in Rows, OpenEditDialog(r) PROVE Typed'
  <2>1. (IF entity = "users" THEN Blank ELSE list.rows[r]) \in Fields
    BY <1>7, <1>b DEF OpenEditDialog, In
  <2>q. QED BY <1>5, <1>7, <2>1 DEF OpenEditDialog
<1>8. ASSUME NEW text \in Fields, UpdateField(text) PROVE Typed'
  BY <1>8 DEF UpdateField, Typed, Dialogs
<1>9. ASSUME Shut PROVE dialog' \in Dialogs
  BY <1>9, <1>b DEF Shut, Typed, Dialogs
<1>10. CASE CloseDialog
  BY <1>9, <1>10 DEF CloseDialog, Typed
<1>11. CASE Save
  <2>1. [pc |-> "sent", op |-> IF dialog.editing = NoRow THEN "post" ELSE "put", row |-> dialog.editing,
         form |-> dialog.form, opened |-> dialog.opened] \in Requested
    BY DEF Typed, Dialogs, Requested
  <2>q. QED BY <1>11, <2>1 DEF Save, Request, Typed
<1>12. ASSUME NEW r \in Rows, ClickRemove(r) PROVE Typed'
  <2>1. [pc |-> "sent", op |-> "delete", row |-> r, form |-> Blank, opened |-> 0] \in Requested
    BY <1>b, AdminFormAssumption DEF Requested
  <2>q. QED BY <1>12, <2>1 DEF ClickRemove, Request, Typed
<1>13. ASSUME NEW q \in sent, Write(q) PROVE Typed'
  <2>1. table' \in Tables /\ made' \in [1 .. MaxOpened -> Nat]
    BY <1>13, WrittenType DEF Write
  <2>2. CASE q.pc = "sent" /\ Goes(q, "done", Blank) /\ UNCHANGED <<list, fetches>>
    <3>1. sent' \subseteq Requested BY <2>2, <1>b, GoesType
    <3>q. QED BY <1>13, <2>1, <2>2, <3>1 DEF Write, Typed
  <2>3. CASE q.pc = "unheard" /\ Over(q) /\ Missed
    BY <1>13, <2>1, <2>3, MissedType DEF Write, Over, Typed
  <2>q. QED BY <1>13, <2>2, <2>3 DEF Write
<1>f. ASSUME NEW q, Finally(q) PROVE saving' \in BOOLEAN
  BY <1>f DEF Finally
<1>14. ASSUME NEW q \in sent, Succeed(q) PROVE Typed'
  <2>1. fetches' \subseteq Snapshots /\ list' \in Lists
    BY <1>14, LoadType DEF Succeed, LoadsAfter
  <2>2. dialog' \in Dialogs
    BY <1>14, <1>9 DEF Succeed, Typed
  <2>q. QED BY <1>14, <1>f, <2>1, <2>2 DEF Succeed, Over, Typed
<1>15. ASSUME NEW q \in sent, Refuse(q) PROVE Typed'
  BY <1>15, <1>f DEF Refuse, Over, Typed
<1>16. ASSUME NEW q \in sent, AnswerLost(q) PROVE Typed'
  <2>1. q.form \in Fields BY DEF Typed, Requested
  <2>2. CASE q.pc = "sent" /\ Goes(q, "unheard", q.form) /\ UNCHANGED <<list, fetches>>
    <3>1. sent' \subseteq Requested BY <2>2, <2>1, GoesType
    <3>q. QED BY <1>16, <1>f, <2>2, <3>1 DEF AnswerLost, Typed
  <2>3. CASE q.pc = "done" /\ Over(q) /\ Missed
    BY <1>16, <1>f, <2>3, MissedType DEF AnswerLost, Over, Typed
  <2>q. QED BY <1>16, <2>2, <2>3 DEF AnswerLost
<1>17. ASSUME NEW r \in Rows, OtherWrite(r) PROVE Typed'
  <2>1. table' \in Tables BY <1>17 DEF OtherWrite, Typed, Tables
  <2>q. QED BY <1>17, <2>1, MissedType DEF OtherWrite, Typed
<1>18. CASE UNCHANGED formVars
  BY <1>18 DEF formVars, Typed
<1>. QED
  BY <1>1, <1>2, <1>3, <1>4, <1>6, <1>7, <1>8, <1>10, <1>11, <1>12, <1>13, <1>14, <1>15, <1>16, <1>17, <1>18
  DEF FormNext

-----------------------------------------------------------------------------
(* When the rows on screen are the table's *)

(* Rows read that are not stale are the table's, unless a write of this page *)
(* has been made since, whose answer will load the list again.               *)
Current(rows) == rows = table \/ \E q \in sent : q.pc = "done"

NewestCurrent ==
    /\ \A f \in fetches : f.pc = "read" /\ f.newest /\ ~ f.stale => Current(f.rows)
    /\ list.newest /\ ~ list.stale => Current(list.rows)

LEMMA CurrentInit == ASSUME FormInit PROVE NewestCurrent
  BY DEF FormInit, NewestCurrent

LEMMA CurrentStep == ASSUME Typed, NewestCurrent, FormNext \/ UNCHANGED formVars
                     PROVE  NewestCurrent'
<1>s. ASSUME UNCHANGED <<table, list, fetches>>,
             \A q \in sent : q.pc = "done" => q \in sent'
      PROVE  NewestCurrent'
  BY <1>s DEF NewestCurrent, Current
<1>l. ASSUME LoadAgain PROVE NewestCurrent'
  <2>1. ~ list'.newest
    BY <1>l DEF LoadAgain, Typed, Lists
  <2>2. ASSUME NEW g \in fetches' PROVE g.pc = "sent" \/ ~ g.newest
    <3>1. CASE g = [pc |-> "sent", rows |-> NoRows, stale |-> FALSE, newest |-> TRUE]
      BY <3>1
    <3>2. ASSUME NEW f \in fetches, g = [f EXCEPT !.newest = FALSE] PROVE ~ g.newest
      BY <3>2 DEF Typed, Snapshots
    <3>q. QED BY <1>l, <3>1, <3>2 DEF LoadAgain
  <2>q. QED BY <2>1, <2>2 DEF NewestCurrent
<1>m. ASSUME Missed PROVE NewestCurrent'
  <2>1. list'.stale
    BY <1>m DEF Missed, Typed, Lists
  <2>2. ASSUME NEW g \in fetches' PROVE g.pc = "read" => g.stale
    <3>1. PICK f \in fetches : g = [f EXCEPT !.stale = f.pc = "read"]
      BY <1>m DEF Missed
    <3>q. QED BY <3>1 DEF Typed, Snapshots
  <2>q. QED BY <2>1, <2>2 DEF NewestCurrent
<1>1. CASE Reload
  BY <1>1, <1>l DEF Reload
<1>2. ASSUME NEW f \in fetches, ReadRows(f) PROVE NewestCurrent'
  <2> DEFINE read == [f EXCEPT !.pc = "read", !.rows = table]
  <2>1. read.rows = table
    BY DEF Typed, Snapshots
  <2>2. \A g \in fetches' : g = read \/ g \in fetches
    BY <1>2 DEF ReadRows
  <2>3. UNCHANGED <<table, list, sent>>
    BY <1>2 DEF ReadRows
  <2> HIDE DEF read
  <2>q. QED BY <2>1, <2>2, <2>3 DEF NewestCurrent, Current
<1>3. ASSUME NEW f \in fetches, ShowRows(f) PROVE NewestCurrent'
  BY <1>3 DEF ShowRows, NewestCurrent, Current
<1>4. ASSUME NEW f \in fetches, FetchFails(f) PROVE NewestCurrent'
  BY <1>4 DEF FetchFails, NewestCurrent, Current
<1>5. CASE OpenCreateDialog \/ CloseDialog \/ (\E r \in Rows : OpenEditDialog(r))
           \/ (\E text \in Fields : UpdateField(text))
  BY <1>5, <1>s DEF OpenCreateDialog, CloseDialog, OpenEditDialog, UpdateField, Opened
<1>6. CASE Save \/ \E r \in Rows : ClickRemove(r)
  BY <1>6, <1>s DEF Save, ClickRemove, Request
<1>7. ASSUME NEW q \in sent, Write(q) PROVE NewestCurrent'
  <2>1. CASE q.pc = "sent" /\ Goes(q, "done", Blank) /\ UNCHANGED <<list, fetches>>
    <3> DEFINE done == [q EXCEPT !.pc = "done", !.form = Blank]
    <3>1. done.pc = "done" /\ done \in sent'
      BY <2>1 DEF Goes, Typed, Requested
    <3> HIDE DEF done
    <3>q. QED BY <2>1, <3>1 DEF NewestCurrent, Current
  <2>q. QED BY <1>7, <1>m, <2>1 DEF Write
<1>8. ASSUME NEW q \in sent, Succeed(q) PROVE NewestCurrent'
  BY <1>8, <1>l DEF Succeed, LoadsAfter
<1>9. ASSUME NEW q \in sent, Refuse(q) PROVE NewestCurrent'
  BY <1>9, <1>s DEF Refuse, Over
<1>10. ASSUME NEW q \in sent, AnswerLost(q) PROVE NewestCurrent'
  <2>1. CASE q.pc = "sent" /\ Goes(q, "unheard", q.form) /\ UNCHANGED <<list, fetches>>
    BY <1>10, <1>s, <2>1 DEF AnswerLost, Goes
  <2>q. QED BY <1>10, <1>m, <2>1 DEF AnswerLost
<1>11. ASSUME NEW r \in Rows, OtherWrite(r) PROVE NewestCurrent'
  BY <1>11, <1>m DEF OtherWrite
<1>12. CASE UNCHANGED formVars
  BY <1>12, <1>s DEF formVars
<1>. QED
  BY <1>1, <1>2, <1>3, <1>4, <1>5, <1>6, <1>7, <1>8, <1>9, <1>10, <1>11, <1>12 DEF FormNext

(* Whatever loads overtake each other or fail and whatever answers come late *)
(* or never: once nothing is in flight, rows that are the newest load's and  *)
(* not stale are those of the table.                                         *)
THEOREM ScreenIsTable == Spec => []ShowsTable
<1>1. Init => Typed /\ NewestCurrent
  BY TypedInit, CurrentInit DEF Init
<1>2. Typed /\ NewestCurrent /\ [Next]_vars => (Typed /\ NewestCurrent)'
  BY FormPart, TypedStep, CurrentStep
<1>3. NewestCurrent => ShowsTable
  BY DEF NewestCurrent, Current, ShowsTable, Quiet
<1>. QED
  BY <1>1, <1>2, <1>3, PTL DEF Spec

-----------------------------------------------------------------------------
(* How often a dialog creates a row *)

(* A save the page still waits for; there is one at most, and while it is    *)
(* there `saving` is true.                                                   *)
Heard(q) == q.op # "delete" /\ q.pc # "unheard"
OneHeard == \A p, q \in sent : Heard(p) /\ Heard(q) => p = q /\ saving

Post(q, o) == q.op = "post" /\ q.opened = o

(* Of a dialog whose answers have all come: no save is unheard, the one in   *)
(* flight is the one that creates the row, and when the row is there its     *)
(* answer is on the way or the dialog is closed.                             *)
Sure(o) ==
    /\ made[o] <= 1
    /\ \A q \in sent : Post(q, o) => q.pc # "unheard" /\ (made[o] = 1 => q.pc = "done")
    /\ made[o] = 1 => (\E q \in sent : Post(q, o)) \/ dialog.opened # o \/ ~ dialog.open

(* Dialogs that were not opened yet have created nothing.                    *)
Unopened ==
    /\ \A o \in 1 .. MaxOpened : o > dialog.opened => made[o] = 0
    /\ \A q \in sent : q.opened <= dialog.opened /\ (q.op # "delete" => q.opened \in 1 .. MaxOpened)
    /\ dialog.open => dialog.opened \in 1 .. MaxOpened

OnceInv == OneHeard /\ Unopened /\ \A o \in 1 .. MaxOpened : o \in unsure \/ Sure(o)

LEMMA OnceInit == ASSUME FormInit PROVE OnceInv
  BY DEF FormInit, OnceInv, OneHeard, Unopened, Sure, Closed

(* Steps that touch neither the dialog nor the requests.                     *)
LEMMA OnceSame == ASSUME OnceInv, UNCHANGED <<dialog, saving, sent, made, unsure>> PROVE OnceInv'
  BY DEF OnceInv, OneHeard, Heard, Unopened, Sure, Post

LEMMA OnceDialog == ASSUME Typed, OnceInv, UNCHANGED <<saving, sent, made, unsure>>,
                           \/ Shut
                           \/ \E text \in Fields : UpdateField(text)
                           \/ \E editing, form : Opened(editing, form)
                    PROVE  OnceInv'
<1>1. CASE Shut \/ \E text \in Fields : UpdateField(text)
  <2>1. dialog'.opened = dialog.opened /\ (dialog'.open => dialog.open)
    BY <1>1 DEF Shut, UpdateField, Typed, Dialogs
  <2>q. QED BY <2>1 DEF OnceInv, OneHeard, Heard, Unopened, Sure, Post
<1>2. CASE \E editing, form : Opened(editing, form)
  <2>1. /\ ~ dialog.open /\ dialog'.open /\ dialog'.opened = dialog.opened + 1
        /\ dialog.opened \in Nat /\ dialog'.opened \in 1 .. MaxOpened
    BY <1>2, AdminFormAssumption DEF Opened, Typed, Dialogs
  <2>2. Unopened'
    <3>1. \A q \in sent : q.opened \in Nat
      BY AdminFormAssumption DEF Typed, Requested
    <3>q. QED BY <2>1, <3>1, AdminFormAssumption DEF OnceInv, Unopened
  <2>3. ASSUME NEW o \in 1 .. MaxOpened, Sure(o) PROVE Sure(o)'
    <3>1. made[o] = 1 => o <= dialog.opened
      BY <2>1, AdminFormAssumption DEF OnceInv, Unopened
    <3>q. QED BY <2>1, <2>3, <3>1 DEF Sure, Post
  <2>q. QED BY <2>2, <2>3 DEF OnceInv, OneHeard, Heard
<1>. QED BY <1>1, <1>2

(* The button: no save is heard of, so that none of this dialog is on its    *)
(* way, and a dialog that is sure has created nothing yet.                   *)
LEMMA OnceSave == ASSUME Typed, OnceInv, Save PROVE OnceInv'
<1> DEFINE new == [pc |-> "sent", op |-> IF dialog.editing = NoRow THEN "post" ELSE "put",
                   row |-> dialog.editing, form |-> dialog.form, opened |-> dialog.opened]
<1>1. /\ sent' = sent \union {new} /\ saving' = TRUE /\ ~ saving /\ dialog.open
      /\ UNCHANGED <<dialog, made, unsure>>
  BY DEF Save, Submittable, Request
<1>2. new.pc = "sent" /\ new.op # "delete" /\ new.opened = dialog.opened
  OBVIOUS
<1> HIDE DEF new
<1>3. \A q \in sent : ~ Heard(q)
  BY <1>1 DEF OnceInv, OneHeard
<1>4. OneHeard'
  BY <1>1, <1>3 DEF OneHeard, Heard
<1>5. Unopened'
  <2>1. dialog.opened \in Nat
    BY AdminFormAssumption DEF Typed, Dialogs
  <2>q. QED BY <1>1, <1>2, <2>1 DEF OnceInv, Unopened
<1>6. ASSUME NEW o \in 1 .. MaxOpened, Sure(o) PROVE Sure(o)'
  <2>1. \A q \in sent : ~ Post(q, o)
    BY <1>3, <1>6 DEF Heard, Post, Sure
  <2>2. dialog.opened = o => made[o] # 1
    BY <1>1, <1>6, <2>1 DEF Sure
  <2>q. QED BY <1>1, <1>2, <1>6, <2>1, <2>2 DEF Sure, Post
<1>. QED BY <1>1, <1>4, <1>5, <1>6 DEF OnceInv

LEMMA OnceRemove == ASSUME OnceInv, NEW r \in Rows, ClickRemove(r), Typed PROVE OnceInv'
<1> DEFINE new == [pc |-> "sent", op |-> "delete", row |-> r, form |-> Blank, opened |-> 0]
<1>1. sent' = sent \union {new} /\ UNCHANGED <<dialog, saving, made, unsure>>
  BY DEF ClickRemove, Request
<1>2. new.op = "delete" /\ new.opened = 0 OBVIOUS
<1> HIDE DEF new
<1>3. dialog.opened \in Nat
  BY AdminFormAssumption DEF Typed, Dialogs
<1>. QED
  BY <1>1, <1>2, <1>3 DEF OnceInv, OneHeard, Heard, Unopened, Sure, Post

(* A request that is over; if it created the row, its dialog is shut.        *)
LEMMA OnceOver == ASSUME Typed, OnceInv, NEW q \in sent, Over(q), UNCHANGED <<made, unsure>>,
                         Heard(q) \/ UNCHANGED saving,
                         Heard(q) \/ q.op = "delete" => saving' = (saving /\ q.op = "delete"),
                         \/ UNCHANGED dialog /\ (q.op = "delete" \/ q.pc # "done")
                         \/ Shut
                  PROVE  OnceInv'
<1>1. OneHeard'
  BY DEF Over, OnceInv, OneHeard, Heard
<1>2. dialog'.opened = dialog.opened /\ (dialog'.open => dialog.open)
  BY DEF Shut, Typed, Dialogs
<1>3. Unopened'
  BY <1>2 DEF Over, OnceInv, Unopened
<1>4. ASSUME NEW o \in 1 .. MaxOpened, Sure(o) PROVE Sure(o)'
  <2>1. CASE Post(q, o) /\ made[o] = 1
    <3>1. Shut
      BY <1>4, <2>1 DEF Sure, Post
    <3>q. QED BY <1>4, <2>1, <3>1 DEF Over, Sure, Post, Shut, Typed, Dialogs
  <2>2. CASE ~ (Post(q, o) /\ made[o] = 1)
    BY <1>2, <1>4, <2>2 DEF Over, Sure
  <2>q. QED BY <2>1, <2>2
<1>. QED BY <1>1, <1>3, <1>4 DEF OnceInv

(* A request that goes on: done, with its row created or not, or unheard,    *)
(* and then its dialog is not sure any more.                                 *)
LEMMA OnceWrite == ASSUME Typed, OnceInv, NEW q \in sent, Write(q) PROVE OnceInv'
<1>1. made \in [1 .. MaxOpened -> Nat] /\ UNCHANGED <<dialog, saving, unsure>>
  BY DEF Typed, Write
<1>2. q \in Requested
  BY DEF Typed
<1>3. \/ q.op = "post" /\ made' = [made EXCEPT ![q.opened] = made[q.opened] + 1]
      \/ q.op # "post" /\ made' = made
  <2>1. Written(q) BY DEF Write
  <2>q. QED BY <2>1 DEF Written
<1>4. q.op = "post" => q.opened \in 1 .. MaxOpened /\ q.opened <= dialog.opened
  BY DEF OnceInv, Unopened
<1>5. CASE q.pc = "sent" /\ Goes(q, "done", Blank)
  <2> DEFINE done == [q EXCEPT !.pc = "done", !.form = Blank]
  <2>1. done.pc = "done" /\ done.op = q.op /\ done.opened = q.opened
    BY <1>2 DEF Requested
  <2>2. sent' = (sent \ {q}) \union {done}
    BY <1>5 DEF Goes
  <2> HIDE DEF done
  <2>3. OneHeard'
    <3>1. Heard(done) = Heard(q)
      BY <1>5, <2>1 DEF Heard
    <3>q. QED BY <1>1, <2>2, <3>1 DEF OnceInv, OneHeard, Heard
  <2>4. Unopened'
    BY <1>1, <1>3, <1>4, <2>1, <2>2, AdminFormAssumption DEF OnceInv, Unopened, Typed, Dialogs
  <2>5. ASSUME NEW o \in 1 .. MaxOpened, Sure(o) PROVE Sure(o)'
    <3>1. CASE Post(q, o)
      <4>1. made[o] = 0 /\ made'[o] = 1
        <5>1. made[o] \in Nat /\ made[o] <= 1
          BY <1>1, <2>5 DEF Sure
        <5>2. made[o] # 1
          BY <1>5, <2>5, <3>1 DEF Sure
        <5>3. q.op = "post" /\ q.opened = o
          BY <3>1 DEF Post
        <5>4. made'[o] = made[o] + 1
          BY <1>1, <1>3, <5>3
        <5>q. QED BY <5>1, <5>2, <5>4
      <4>2. ASSUME NEW p \in sent, Post(p, o) PROVE p = q
        BY <1>5, <2>5, <3>1, <4>2 DEF Sure, Post, OnceInv, OneHeard, Heard
      <4>3. Post(done, o)
        BY <2>1, <3>1 DEF Post
      <4>q. QED BY <2>1, <2>2, <4>1, <4>2, <4>3 DEF Sure, Post
    <3>2. CASE ~ Post(q, o)
      <4>1. made'[o] = made[o] /\ ~ Post(done, o)
        BY <1>1, <1>3, <2>1, <3>2 DEF Post
      <4>q. QED BY <1>1, <2>2, <2>5, <3>2, <4>1 DEF Sure, Post
    <3>q. QED BY <3>1, <3>2
  <2>q. QED BY <1>1, <2>3, <2>4, <2>5 DEF OnceInv
<1>6. CASE q.pc = "unheard" /\ Over(q)
  <2>1. OneHeard'
    BY <1>1, <1>6 DEF Over, OnceInv, OneHeard, Heard
  <2>2. Unopened'
    BY <1>1, <1>3, <1>4, <1>6, AdminFormAssumption DEF Over, OnceInv, Unopened, Typed, Dialogs
  <2>3. ASSUME NEW o \in 1 .. MaxOpened, Sure(o) PROVE Sure(o)'
    <3>1. ~ Post(q, o) /\ made'[o] = made[o]
      BY <1>1, <1>3, <1>6, <2>3 DEF Sure, Post
    <3>q. QED BY <1>1, <1>6, <2>3, <3>1 DEF Over, Sure
  <2>q. QED BY <1>1, <2>1, <2>2, <2>3 DEF OnceInv
<1>. QED BY <1>5, <1>6 DEF Write

LEMMA OnceLost == ASSUME Typed, OnceInv, NEW q \in sent, AnswerLost(q) PROVE OnceInv'
<1>1. UNCHANGED <<dialog, made>> /\ saving' = (saving /\ q.op = "delete")
  BY DEF AnswerLost, Finally
<1>2. unsure \subseteq unsure' /\ (q.op # "delete" => q.opened \in unsure')
  BY DEF AnswerLost
<1>3. /\ \A p \in sent' : p \in sent \ {q} \/ (p.pc = "unheard" /\ p.op = q.op /\ p.opened = q.opened)
      /\ \A p \in sent \ {q} : p \in sent'
  <2>1. CASE q.pc = "sent" /\ Goes(q, "unheard", q.form)
    <3> DEFINE rest == [q EXCEPT !.pc = "unheard", !.form = q.form]
    <3>1. rest.pc = "unheard" /\ rest.op = q.op /\ rest.opened = q.opened
      BY DEF Typed, Requested
    <3>2. sent' = (sent \ {q}) \union {rest}
      BY <2>1 DEF Goes
    <3> HIDE DEF rest
    <3>q. QED BY <3>1, <3>2
  <2>2. CASE q.pc = "done" /\ Over(q)
    BY <2>2 DEF Over
  <2>q. QED BY <2>1, <2>2 DEF AnswerLost
<1>5. q.pc # "unheard"
  BY DEF AnswerLost
<1>6. OneHeard'
  BY <1>1, <1>3, <1>5 DEF OnceInv, OneHeard, Heard
<1>7. Unopened'
  BY <1>1, <1>3 DEF OnceInv, Unopened
<1>8. ASSUME NEW o \in 1 .. MaxOpened, Sure(o), o \notin unsure' PROVE Sure(o)'
  <2>1. \A p : p.op = q.op /\ p.opened = q.opened => ~ Post(p, o)
    BY <1>2, <1>8 DEF Post
  <2>q. QED BY <1>1, <1>3, <1>8, <2>1 DEF Sure
<1>. QED BY <1>2, <1>6, <1>7, <1>8 DEF OnceInv

LEMMA OnceStep == ASSUME Typed, OnceInv, FormNext \/ UNCHANGED formVars PROVE OnceInv'
<1>1. CASE Reload \/ \E f \in fetches : ReadRows(f) \/ ShowRows(f) \/ FetchFails(f)
  BY <1>1, OnceSame DEF Reload, ReadRows, ShowRows, FetchFails
<1>2. CASE OpenCreateDialog \/ CloseDialog \/ (\E r \in Rows : OpenEditDialog(r))
  <2>1. /\ UNCHANGED <<saving, sent, made, unsure>>
        /\ Shut \/ \E editing, form : Opened(editing, form)
    BY <1>2 DEF OpenCreateDialog, CloseDialog, OpenEditDialog, Opened
  <2>q. QED BY <2>1, OnceDialog
<1>3. ASSUME NEW text \in Fields, UpdateField(text) PROVE OnceInv'
  <2>1. UNCHANGED <<saving, sent, made, unsure>>
    BY <1>3 DEF UpdateField
  <2>q. QED BY <1>3, <2>1, OnceDialog
<1>4. CASE Save
  BY <1>4, OnceSave
<1>5. ASSUME NEW r \in Rows, ClickRemove(r) PROVE OnceInv'
  BY <1>5, OnceRemove
<1>6. ASSUME NEW q \in sent, Write(q) PROVE OnceInv'
  BY <1>6, OnceWrite
<1>7. ASSUME NEW q \in sent, Succeed(q) PROVE OnceInv'
  <2>1. /\ Over(q) /\ UNCHANGED <<made, unsure>> /\ saving' = (saving /\ q.op = "delete")
        /\ (UNCHANGED dialog /\ q.op = "delete") \/ Shut
        /\ q.pc = "done" /\ saving \in BOOLEAN
    BY <1>7 DEF Succeed, Finally, Typed
  <2>2. Heard(q) \/ UNCHANGED saving
    BY <2>1 DEF Heard
  <2>q. QED BY <2>1, <2>2, OnceOver
<1>8. ASSUME NEW q \in sent, Refuse(q) PROVE OnceInv'
  <2>1. /\ Over(q) /\ UNCHANGED <<made, unsure, dialog>> /\ q.pc # "done" /\ saving \in BOOLEAN
        /\ IF q.pc = "sent" THEN saving' = (saving /\ q.op = "delete") ELSE UNCHANGED saving
        /\ q.pc \in {"sent", "unheard"}
    BY <1>8 DEF Refuse, Finally, Typed
  <2>2. Heard(q) \/ UNCHANGED saving
    BY <2>1 DEF Heard
  <2>3. Heard(q) \/ q.op = "delete" => saving' = (saving /\ q.op = "delete")
    BY <2>1 DEF Heard
  <2>q. QED BY <2>1, <2>2, <2>3, OnceOver
<1>9. ASSUME NEW q \in sent, AnswerLost(q) PROVE OnceInv'
  BY <1>9, OnceLost
<1>10. ASSUME NEW r \in Rows, OtherWrite(r) PROVE OnceInv'
  BY <1>10, OnceSame DEF OtherWrite
<1>11. CASE UNCHANGED formVars
  BY <1>11, OnceSame DEF formVars
<1>. QED
  BY <1>1, <1>2, <1>3, <1>4, <1>5, <1>6, <1>7, <1>8, <1>9, <1>10, <1>11 DEF FormNext

(* The disabled button and the closing of the dialog by its answer are       *)
(* enough, for any number of dialogs, that one dialog creates one row as     *)
(* long as its answers are heard.                                            *)
THEOREM OneRowPerDialog == Spec => []CreatesOnce
<1>1. Init => Typed /\ OnceInv
  BY TypedInit, OnceInit DEF Init
<1>2. Typed /\ OnceInv /\ [Next]_vars => (Typed /\ OnceInv)'
  BY FormPart, TypedStep, OnceStep
<1>3. Typed /\ OnceInv => CreatesOnce
  BY DEF OnceInv, Sure, CreatesOnce, Typed
<1>. QED
  BY <1>1, <1>2, <1>3, PTL DEF Spec

-----------------------------------------------------------------------------
(* The bounds of the type invariant: a row that is used is never free again, *)
(* so that a dialog creates no more rows than have been used.                *)

FormBounds ==
    /\ entity \in Entities /\ unsure \subseteq 1 .. MaxOpened /\ extras \in 0 .. MaxExtras
    /\ \A o \in 1 .. MaxOpened : made[o] <= Cardinality(Rows \ Unused)

LEMMA FewerUnused ==
    ASSUME NEW U \in SUBSET Rows, NEW V \in SUBSET U
    PROVE  /\ Cardinality(Rows \ U) \in Nat /\ Cardinality(Rows \ V) \in Nat
           /\ Cardinality(Rows \ U) <= Cardinality(Rows \ V) /\ Cardinality(Rows \ V) <= Cardinality(Rows)
           /\ Cardinality(Rows) \in Nat
<1>1. IsFiniteSet(Rows)
  BY AdminFormAssumption
<1>2. Rows \ V \in SUBSET Rows /\ Rows \ U \in SUBSET (Rows \ V)
  OBVIOUS
<1>3. IsFiniteSet(Rows \ V) /\ Cardinality(Rows \ V) <= Cardinality(Rows)
  BY <1>1, <1>2, FS_Subset
<1>4. IsFiniteSet(Rows \ U) /\ Cardinality(Rows \ U) <= Cardinality(Rows \ V)
  BY <1>2, <1>3, FS_Subset
<1>. QED BY <1>1, <1>3, <1>4, FS_CardinalityType

LEMMA BoundsInit == ASSUME FormInit PROVE FormBounds
<1>1. Cardinality(Rows \ Unused) \in Nat
  BY FewerUnused DEF Unused
<1>. QED BY <1>1, AdminFormAssumption DEF FormInit, FormBounds

(* What is written is never "none".                                          *)
LEMMA MadeWritten ==
    ASSUME Typed, OnceInv, FormBounds, NEW q \in sent, Written(q)
    PROVE  \A o \in 1 .. MaxOpened : made'[o] <= Cardinality(Rows \ Unused')
<1>1. /\ q \in Requested /\ table \in Tables /\ made \in [1 .. MaxOpened -> Nat]
      /\ "none" \notin Fields /\ q.form \in Fields
  BY AdminFormAssumption DEF Typed, Requested, Fields
<1>2. \A o \in 1 .. MaxOpened : made[o] <= Cardinality(Rows \ Unused)
  BY DEF FormBounds
<1>3. CASE q.op = "post"
  <2>1. PICK fresh \in Unused : table' = [table EXCEPT ![fresh] = q.form]
    BY <1>3 DEF Written
  <2>2. made' = [made EXCEPT ![q.opened] = made[q.opened] + 1]
    BY <1>3 DEF Written
  <2>3. fresh \in Rows /\ Unused' = Unused \ {fresh}
    BY <1>1, <2>1 DEF Unused, Tables
  <2>4. /\ Rows \ Unused' = (Rows \ Unused) \union {fresh} /\ fresh \notin Rows \ Unused
        /\ IsFiniteSet(Rows \ Unused)
    <3>1. Rows \ Unused \in SUBSET Rows
      OBVIOUS
    <3>. QED BY <2>1, <2>3, <3>1, FS_Subset, AdminFormAssumption
  <2>5. Cardinality(Rows \ Unused') = Cardinality(Rows \ Unused) + 1 /\ Cardinality(Rows \ Unused) \in Nat
    BY <2>4, FS_AddElement, FS_CardinalityType
  <2>. QED BY <1>1, <1>2, <2>2, <2>5
<1>4. CASE q.op # "post"
  <2>1. made' = made /\ Unused' \subseteq Unused
    <3>1. CASE q.op = "put"
      <4>1. /\ q.row \in In(table) /\ made' = made
            /\ table' = [table EXCEPT ![q.row] = Stored(table[q.row], q.form)]
        BY <3>1 DEF Written
      <4>2. q.row \in Rows /\ Stored(table[q.row], q.form) \in Fields
        BY <1>1, <4>1 DEF In, Stored
      <4>. QED BY <1>1, <4>1, <4>2 DEF Unused, Tables
    <3>2. CASE q.op = "delete"
      BY <1>1, <3>2 DEF Written, Unused, Tables
    <3>. QED BY <1>1, <1>4, <3>1, <3>2 DEF Requested
  <2>2. Unused \in SUBSET Rows /\ Unused' \in SUBSET Unused
    BY <2>1 DEF Unused
  <2>3. /\ Cardinality(Rows \ Unused) \in Nat /\ Cardinality(Rows \ Unused') \in Nat
        /\ Cardinality(Rows \ Unused) <= Cardinality(Rows \ Unused')
    BY <2>2, FewerUnused
  <2>. QED BY <1>1, <1>2, <2>1, <2>3
<1>. QED BY <1>3, <1>4

LEMMA BoundsStep == ASSUME Typed, OnceInv, FormBounds, FormNext \/ UNCHANGED formVars PROVE FormBounds'
<1>1. entity' \in Entities
  BY DEF FormBounds, FormNext, formVars, Reload, ReadRows, ShowRows, FetchFails, OpenCreateDialog, CloseDialog, Save,
         OpenEditDialog, ClickRemove, OtherWrite, UpdateField, Opened, Request, Write, Refuse, Succeed, AnswerLost
<1>2. extras' \in 0 .. MaxExtras
  <2>1. extras' \in {extras, extras + 1} /\ (extras' = extras \/ extras < MaxExtras)
    BY DEF FormNext, formVars, Reload, ReadRows, ShowRows, FetchFails, OpenCreateDialog, CloseDialog, Save, Extra,
         OpenEditDialog, ClickRemove, OtherWrite, UpdateField, Opened, Request, Write, Refuse, Succeed, AnswerLost
  <2>. QED BY <2>1, AdminFormAssumption DEF FormBounds
<1>3. unsure' \subseteq 1 .. MaxOpened
  <2>1. unsure' = unsure \/ \E q \in sent : AnswerLost(q)
    BY DEF FormNext, formVars, Reload, ReadRows, ShowRows, FetchFails, OpenCreateDialog, CloseDialog, Save,
         OpenEditDialog, ClickRemove, OtherWrite, UpdateField, Opened, Request, Write, Refuse, Succeed
  <2>2. ASSUME NEW q \in sent, AnswerLost(q)  PROVE unsure' \subseteq 1 .. MaxOpened
    <3>1. unsure' = IF q.op = "delete" THEN unsure ELSE unsure \union {q.opened}
      BY <2>2 DEF AnswerLost
    <3>2. q.op # "delete" => q.opened \in 1 .. MaxOpened
      BY DEF OnceInv, Unopened
    <3>. QED BY <3>1, <3>2 DEF FormBounds
  <2>. QED BY <2>1, <2>2 DEF FormBounds
<1>4. \A o \in 1 .. MaxOpened : made'[o] <= Cardinality(Rows \ Unused')
  <2>1. \/ UNCHANGED <<table, made>>
        \/ \E q \in sent : Written(q)
        \/ \E r \in Rows : OtherWrite(r)
    BY DEF FormNext, formVars, Reload, ReadRows, ShowRows, FetchFails, OpenCreateDialog, CloseDialog, Save,
         OpenEditDialog, ClickRemove, UpdateField, Opened, Request, Write, Refuse, Succeed, AnswerLost
  <2>2. CASE UNCHANGED <<table, made>>
    BY <2>2 DEF FormBounds, Unused
  <2>3. ASSUME NEW r \in Rows, OtherWrite(r)  PROVE <1>4!:
    <3>1. made' = made /\ Unused' \subseteq Unused
      BY <2>3, AdminFormAssumption DEF OtherWrite, Unused, Typed, Tables, Fields
    <3>2. Unused \in SUBSET Rows /\ Unused' \in SUBSET Unused
      BY <3>1 DEF Unused
    <3>3. /\ Cardinality(Rows \ Unused) \in Nat /\ Cardinality(Rows \ Unused') \in Nat
          /\ Cardinality(Rows \ Unused) <= Cardinality(Rows \ Unused')
      BY <3>2, FewerUnused
    <3>. QED BY <3>1, <3>3 DEF FormBounds, Typed
  <2>. QED BY <2>1, <2>2, <2>3, MadeWritten
<1>. QED BY <1>1, <1>2, <1>3, <1>4 DEF FormBounds

LEMMA FormTypes == ASSUME Typed, FormBounds PROVE FormTypeOK
<1>0. Unused \in SUBSET Rows
  BY DEF Unused
<1>a. /\ Cardinality(Rows \ Unused) \in Nat /\ Cardinality(Rows) \in Nat
      /\ Cardinality(Rows \ Unused) <= Cardinality(Rows)
  BY <1>0, FewerUnused
<1>1. \A o \in 1 .. MaxOpened : made[o] \in 0 .. Cardinality(Rows)
  BY <1>a DEF Typed, FormBounds
<1>. QED BY <1>1 DEF FormTypeOK, FormBounds, Typed, Lists, Snapshots, Dialogs, Requested

LEMMA FormInvariance == Spec => []FormTypeOK
<1>1. Init => Typed /\ OnceInv /\ FormBounds
  BY TypedInit, OnceInit, BoundsInit DEF Init
<1>2. Typed /\ OnceInv /\ FormBounds /\ [Next]_vars => (Typed /\ OnceInv /\ FormBounds)'
  BY FormPart, TypedStep, OnceStep, BoundsStep
<1>3. Typed /\ FormBounds => FormTypeOK
  BY FormTypes
<1>. QED BY <1>1, <1>2, <1>3, PTL DEF Spec
=============================================================================
