--------------------------- MODULE AccountsProofs ---------------------------
(* Sessions and registrations for any accounts, tabs and bounds: whose       *)
(* tokens a page sends, and how often a registered user is welcomed.         *)
EXTENDS Accounts, TLAPS

(* A call that waits for tokens names an account and a role; one that has    *)
(* inserted its row is the only one that will publish for it.                *)
CallsOK == \A c \in Calls :
    /\ calls[c].pc \in {"refreshed", "login"} => calls[c].sub \in Ids /\ calls[c].role \in Roles
    /\ At(c, "inserted") => /\ calls[c].sub \in Ids
                            /\ users[calls[c].sub] # "none" /\ mail[calls[c].sub] = "none"
                            /\ \A d \in Calls \ {c} :
                                   ~ (At(d, "inserted") /\ calls[d].sub = calls[c].sub)

(* A message is delivered once more only after a death, and so is a row      *)
(* inserted once more.                                                       *)
MailOK == \A i \in Ids :
    /\ users[i] = "none" => mail[i] = "none"
    /\ mail[i] = "none" => notes[i] = 0
    /\ mail[i] \in {"ready", "delivered"} => notes[i] <= failures
    /\ notes[i] <= 1 + failures

(* Until an older session's tokens are stored, a refresh in flight that no   *)
(* login and no logout has made old brings those of the user on screen.      *)
SessionOK == \/ crossed
             \/ /\ TokensAreOfUser
                /\ \A c \in Calls : At(c, "refreshed") /\ ~ calls[c].old
                                        => calls[c].sub = session.user.sub

Inv == TypeOK /\ CallsOK /\ MailOK /\ SessionOK

USE AccountsAssumption DEF At

(* The shapes of a call's record.                                            *)
PCs == {"idle", "gate", "401", "refreshed", "login", "hash", "inserted"}
CallKinds == {"page", "admin", "login", "register"}
CallRecords == [pc : PCs, kind : CallKinds \union {None}, sub : Ids \union Emails \union {None},
                role : Roles \union {None}, retry : BOOLEAN, old : BOOLEAN]

Row(pc, kind, sub, role, retry) ==
    [pc |-> pc, kind |-> kind, sub |-> sub, role |-> role, retry |-> retry, old |-> FALSE]

LEMMA TypeOKParts == TypeOK <=>
    /\ users \in [Ids -> Roles \union {"none", "gone"}]
    /\ session \in [access : Tokens, refresh : Ids \union {None}, user : Tokens]
    /\ calls \in [Calls -> CallRecords]
    /\ mail \in [Ids -> {"none", "ready", "delivered", "stored", "acked", "dead", "unsent"}]
    /\ notes \in [Ids -> 0 .. 1 + MaxFailures]
    /\ failures \in 0 .. MaxFailures /\ crossed \in BOOLEAN
  BY DEF TypeOK, CallRecords, PCs, CallKinds

LEMMA InitInv == Init => Inv
<1> SUFFICES ASSUME Init PROVE Inv
  OBVIOUS
<1>1. TypeOK
  <2>1. users \in [Ids -> Roles \union {"none", "gone"}]
    BY DEF Init, AccountsAssumption
  <2>2. NoToken \in Tokens
    BY DEF Tokens
  <2>3. session \in [access : Tokens, refresh : Ids \union {None}, user : Tokens]
    BY <2>2 DEF Init, NoSession
  <2>4. Idle \in CallRecords
    BY DEF Idle, CallRecords, PCs
  <2>. HIDE DEF Idle
  <2>5. notes \in [Ids -> 0 .. 1 + MaxFailures] /\ failures \in 0 .. MaxFailures
    BY DEF Init, AccountsAssumption
  <2>6. /\ calls \in [Calls -> CallRecords]
        /\ mail \in [Ids -> {"none", "ready", "delivered", "stored", "acked", "dead", "unsent"}]
        /\ crossed \in BOOLEAN
    BY <2>4 DEF Init
  <2>. QED BY <2>1, <2>3, <2>5, <2>6, TypeOKParts
<1>2. CallsOK /\ MailOK /\ SessionOK
  BY DEF Init, CallsOK, MailOK, SessionOK, TokensAreOfUser, Idle, NoSession, NoToken, AccountsAssumption
<1>. QED BY <1>1, <1>2 DEF Inv

LEMMA RowStored == ASSUME calls \in [Calls -> CallRecords], NEW c \in Calls, NEW row \in CallRecords,
                          calls' = [calls EXCEPT ![c] = row]
                   PROVE  /\ calls' \in [Calls -> CallRecords] /\ calls'[c] = row
                          /\ \A d \in Calls \ {c} : calls'[d] = calls[d]
  OBVIOUS

LEMMA DoneType == ASSUME calls \in [Calls -> CallRecords], NEW c \in Calls, Done(c)
                  PROVE  /\ calls' \in [Calls -> CallRecords] /\ calls'[c].pc = "idle"
                         /\ \A d \in Calls \ {c} : calls'[d] = calls[d]
<1>1. Idle \in CallRecords
  BY DEF Idle, CallRecords, PCs
<1>2. calls' = [calls EXCEPT ![c] = Idle] /\ Idle.pc = "idle"
  BY DEF Done, Idle
<1>. QED BY <1>1, <1>2

LEMMA OutdateType == ASSUME calls \in [Calls -> CallRecords], NEW c, Outdate(c)
                     PROVE  /\ calls' \in [Calls -> CallRecords]
                            /\ \A d \in Calls :
                                 \/ calls'[d] = Idle
                                 \/ calls'[d] = calls[d] /\ ~ At(d, "refreshed")
                                 \/ /\ calls'[d] = [calls[d] EXCEPT !.old = TRUE]
                                    /\ At(d, "refreshed")
<1>1. Idle \in CallRecords
  BY DEF Idle, CallRecords, PCs
<1>2. \A d \in Calls : [calls[d] EXCEPT !.old = TRUE] \in CallRecords
  BY DEF CallRecords
<1>3. calls' = [d \in Calls |-> IF d = c THEN Idle
                                ELSE IF At(d, "refreshed") THEN [calls[d] EXCEPT !.old = TRUE] ELSE calls[d]]
  BY DEF Outdate
<1>. QED BY <1>1, <1>2, <1>3

(* One fetch leaves every other call alone and its own idle, at the answer   *)
(* 401, at the gate of an admin request or at a login of an account.         *)
LEMMA FetchType == ASSUME TypeOK, NEW c \in Calls, NEW kind \in CallKinds \union {None}, NEW retry \in BOOLEAN,
                          NEW token \in Tokens, Fetch(c, kind, retry, token)
                   PROVE  /\ calls' \in [Calls -> CallRecords]
                          /\ calls'[c].pc \in {"idle", "401", "gate", "login"}
                          /\ calls'[c].pc = "login" => calls'[c].sub \in Ids /\ calls'[c].role \in Roles
                          /\ \A d \in Calls \ {c} : calls'[d] = calls[d]
<1>1. calls \in [Calls -> CallRecords] /\ users \in [Ids -> Roles \union {"none", "gone"}]
  BY TypeOKParts
<1>2. CASE Done(c)
  BY <1>1, <1>2, DoneType
<1>3. CASE Unauthorized(c, kind, retry)
  <2>1. CASE Done(c)
    BY <1>2, <2>1
  <2>2. CASE Goto(c, "401", kind, None, None, retry)
    <3> DEFINE row == Row("401", kind, None, None, retry)
    <3>1. row \in CallRecords /\ row.pc = "401"
      BY DEF CallRecords, PCs, Row
    <3>2. calls' = [calls EXCEPT ![c] = row]
      BY <2>2 DEF Goto, Row
    <3>. HIDE DEF row
    <3>. QED BY <1>1, <3>1, <3>2
  <2>. QED BY <1>3, <2>1, <2>2 DEF Unauthorized
<1>4. CASE Verified(token) /\ Goto(c, "gate", kind, token.sub, None, retry)
  <2> DEFINE row == Row("gate", kind, token.sub, None, retry)
  <2>1. token.sub \in Ids \union Emails \union {None}
    BY DEF Tokens, NoToken
  <2>2. row \in CallRecords /\ row.pc = "gate"
    BY <2>1 DEF CallRecords, PCs, Row
  <2>3. calls' = [calls EXCEPT ![c] = row]
    BY <1>4 DEF Goto, Row
  <2>. HIDE DEF row
  <2>. QED BY <1>1, <2>2, <2>3
<1>5. ASSUME NEW i \in Accounts, Goto(c, "login", kind, i, users[i], retry)
      PROVE  /\ calls' \in [Calls -> CallRecords]
             /\ calls'[c].pc = "login" /\ calls'[c].sub \in Ids /\ calls'[c].role \in Roles
             /\ \A d \in Calls \ {c} : calls'[d] = calls[d]
  <2> DEFINE row == Row("login", kind, i, users[i], retry)
  <2>1. i \in Ids /\ users[i] \in Roles
    BY <1>5 DEF Accounts
  <2>2. row \in CallRecords /\ row.pc = "login" /\ row.sub \in Ids /\ row.role \in Roles
    BY <2>1 DEF CallRecords, PCs, Row
  <2>3. calls' = [calls EXCEPT ![c] = row]
    BY <1>5 DEF Goto, Row
  <2>. HIDE DEF row
  <2>. QED BY <1>1, <2>2, <2>3
<1>. QED BY <1>2, <1>3, <1>4, <1>5 DEF Fetch

(* Where only call c moves, and not to the row it inserts, the other calls   *)
(* and their accounts are what they were.                                    *)
LEMMA OneCallMoves ==
    ASSUME Inv, NEW c \in Calls, calls' \in [Calls -> CallRecords],
           \A d \in Calls \ {c} : calls'[d] = calls[d],
           calls'[c].pc \notin {"refreshed", "inserted"},
           calls'[c].pc = "login" => calls'[c].sub \in Ids /\ calls'[c].role \in Roles,
           \A i \in Ids : users'[i] = "none" => users[i] = "none",
           \A d \in Calls \ {c} : At(d, "inserted") /\ mail[calls[d].sub] = "none"
                                      => mail'[calls[d].sub] = "none"
    PROVE  /\ CallsOK'
           /\ \A d \in Calls : At(d, "refreshed")' => At(d, "refreshed") /\ calls'[d] = calls[d]
<1>1. \A d \in Calls : calls'[d] = calls[d] \/ d = c
  OBVIOUS
<1>2. ASSUME NEW d \in Calls
      PROVE  calls'[d].pc \in {"refreshed", "login"} => calls'[d].sub \in Ids /\ calls'[d].role \in Roles
  BY <1>1 DEF Inv, CallsOK
<1>3. ASSUME NEW d \in Calls, calls'[d].pc = "inserted"
      PROVE  /\ calls'[d].sub \in Ids
             /\ users'[calls'[d].sub] # "none" /\ mail'[calls'[d].sub] = "none"
             /\ \A e \in Calls \ {d} :
                    ~ (calls'[e].pc = "inserted" /\ calls'[e].sub = calls'[d].sub)
  BY <1>1, <1>3 DEF Inv, CallsOK
<1>. QED BY <1>1, <1>2, <1>3 DEF CallsOK

(* Login and logout leave no refresh in flight that is not marked old.       *)
LEMMA OutdateStep == ASSUME Inv, NEW c, Outdate(c), UNCHANGED <<users, mail>>
                     PROVE  /\ calls' \in [Calls -> CallRecords]
                            /\ CallsOK'
                            /\ \A d \in Calls : ~ (At(d, "refreshed")' /\ ~ calls'[d].old)
<1>1. /\ calls \in [Calls -> CallRecords] /\ calls' \in [Calls -> CallRecords]
      /\ \A d \in Calls : \/ calls'[d] = Idle
                          \/ calls'[d] = calls[d] /\ ~ At(d, "refreshed")
                          \/ calls'[d] = [calls[d] EXCEPT !.old = TRUE] /\ At(d, "refreshed")
  BY OutdateType, TypeOKParts DEF Inv
<1>2. ASSUME NEW d \in Calls
      PROVE  \/ calls'[d].pc = "idle"
             \/ calls'[d] = calls[d] /\ calls[d].pc # "refreshed"
             \/ /\ calls'[d].pc = "refreshed" /\ calls'[d].old /\ calls[d].pc = "refreshed"
                /\ calls'[d].sub = calls[d].sub /\ calls'[d].role = calls[d].role
  BY <1>1 DEF Idle, CallRecords
<1>3. \A d \in Calls : calls'[d].pc \in {"refreshed", "login"}
                           => calls'[d].sub \in Ids /\ calls'[d].role \in Roles
  BY <1>2 DEF Inv, CallsOK
<1>4. \A d \in Calls : calls'[d].pc = "inserted" => calls'[d] = calls[d]
  BY <1>2
<1>5. CallsOK'
  BY <1>3, <1>4 DEF Inv, CallsOK
<1>. QED BY <1>1, <1>2, <1>5

LEMMA MailKept == ASSUME MailOK, UNCHANGED <<mail, notes, failures>>,
                         \A i \in Ids : users'[i] = "none" => users[i] = "none"
                  PROVE  MailOK'
  BY DEF MailOK

LEMMA SendStep == ASSUME Inv, NEW c \in Calls, NEW kind \in {"page", "admin", "login"}, Send(c, kind)
                  PROVE  Inv'
<1>1. /\ kind \in CallKinds \union {None} /\ session.access \in Tokens
      /\ Fetch(c, kind, TRUE, session.access)
      /\ UNCHANGED <<users, session, mail, notes, failures, crossed>>
  BY DEF Send, CallKinds, Inv, TypeOK
<1>2. /\ calls' \in [Calls -> CallRecords]
      /\ calls'[c].pc \in {"idle", "401", "gate", "login"}
      /\ calls'[c].pc = "login" => calls'[c].sub \in Ids /\ calls'[c].role \in Roles
      /\ \A d \in Calls \ {c} : calls'[d] = calls[d]
  BY <1>1, FetchType DEF Inv
<1>3. TypeOK'
  BY <1>1, <1>2 DEF Inv, TypeOK, CallRecords, PCs, CallKinds
<1>4. CallsOK' /\ \A d \in Calls : At(d, "refreshed")' => At(d, "refreshed") /\ calls'[d] = calls[d]
  BY <1>1, <1>2, OneCallMoves
<1>5. SessionOK'
  BY <1>1, <1>4 DEF Inv, SessionOK, TokensAreOfUser
<1>. QED BY <1>1, <1>3, <1>4, <1>5, MailKept DEF Inv

LEMMA RefreshStep == ASSUME Inv, NEW c \in Calls, Refresh(c) PROVE Inv'
<1> DEFINE i == session.refresh
           row == Row("refreshed", calls[c].kind, i, users[i], calls[c].retry)
<1>0. /\ calls \in [Calls -> CallRecords] /\ users \in [Ids -> Roles \union {"none", "gone"}]
      /\ UNCHANGED <<users, session, mail, notes, failures, crossed>>
  BY TypeOKParts DEF Inv, Refresh
<1>1. CASE Done(c)
  <2>1. /\ calls' \in [Calls -> CallRecords] /\ calls'[c].pc = "idle"
        /\ \A d \in Calls \ {c} : calls'[d] = calls[d]
    BY <1>0, <1>1, DoneType
  <2>2. TypeOK'
    BY <1>0, <2>1 DEF Inv, TypeOK, CallRecords, PCs, CallKinds
  <2>3. CallsOK' /\ \A d \in Calls : At(d, "refreshed")' => At(d, "refreshed") /\ calls'[d] = calls[d]
    BY <1>0, <2>1, OneCallMoves
  <2>4. SessionOK'
    BY <1>0, <2>3 DEF Inv, SessionOK, TokensAreOfUser
  <2>. QED BY <1>0, <2>2, <2>3, <2>4, MailKept DEF Inv
<1>2. CASE Refreshable(i) /\ Goto(c, "refreshed", calls[c].kind, i, RefreshedRole(i), calls[c].retry)
  <2>1. i \in Ids /\ users[i] \in Roles /\ calls[c] \in CallRecords
    BY <1>0, <1>2 DEF Refreshable, Accounts
  <2>2. row \in CallRecords /\ row.pc = "refreshed" /\ row.sub = i /\ row.role \in Roles
    BY <2>1 DEF CallRecords, PCs, Row
  <2>3. calls' = [calls EXCEPT ![c] = row]
    BY <1>2 DEF Goto, Row, RefreshedRole
  <2>. HIDE DEF row
  <2>4. /\ calls' \in [Calls -> CallRecords] /\ calls'[c] = row
        /\ \A d \in Calls \ {c} : calls'[d] = calls[d]
    BY <1>0, <2>2, <2>3, RowStored
  <2>5. TypeOK'
    BY <1>0, <2>4 DEF Inv, TypeOK, CallRecords, PCs, CallKinds
  <2>6. CallsOK'
    <3>1. \A d \in Calls : calls'[d] = calls[d] \/ d = c
      BY <2>4
    <3>2. \A d \in Calls : calls'[d].pc \in {"refreshed", "login"}
                               => calls'[d].sub \in Ids /\ calls'[d].role \in Roles
      BY <2>1, <2>2, <2>4, <3>1 DEF Inv, CallsOK
    <3>3. \A d \in Calls : calls'[d].pc = "inserted" => d # c /\ calls'[d] = calls[d]
      BY <2>2, <2>4, <3>1
    <3>. QED BY <1>0, <3>2, <3>3 DEF Inv, CallsOK
  <2>7. SessionOK'
    <3>1. TokensAreOfUser => i = session.user.sub \/ crossed
      BY DEF TokensAreOfUser
    <3>. QED BY <1>0, <2>2, <2>4, <3>1 DEF Inv, SessionOK, TokensAreOfUser
  <2>. QED BY <1>0, <2>5, <2>6, <2>7, MailKept DEF Inv
<1>. QED BY <1>1, <1>2 DEF Refresh

LEMMA RefreshReplyStep == ASSUME Inv, NEW c \in Calls, RefreshReply(c) PROVE Inv'
<1> DEFINE token == Signed(calls[c].sub, calls[c].role)
<1>0. /\ At(c, "refreshed") /\ UNCHANGED <<users, mail, notes, failures>>
      /\ session' = [session EXCEPT !.access = token, !.refresh = token.sub]
      /\ crossed' = (crossed \/ calls[c].old)
      /\ Fetch(c, calls[c].kind, FALSE, token)
  BY DEF RefreshReply, RetryAgain
<1>1. /\ calls[c].sub \in Ids /\ calls[c].role \in Roles
      /\ calls[c].kind \in CallKinds \union {None} /\ calls[c].old \in BOOLEAN
  BY <1>0, TypeOKParts DEF Inv, CallsOK, CallRecords
<1>2. token \in Tokens /\ token.sub = calls[c].sub
  BY <1>1 DEF Tokens, Signed
<1>. HIDE DEF token
<1>3. /\ calls' \in [Calls -> CallRecords]
      /\ calls'[c].pc \in {"idle", "401", "gate", "login"}
      /\ calls'[c].pc = "login" => calls'[c].sub \in Ids /\ calls'[c].role \in Roles
      /\ \A d \in Calls \ {c} : calls'[d] = calls[d]
  BY <1>0, <1>1, <1>2, FetchType DEF Inv
<1>4. /\ session' \in [access : Tokens, refresh : Ids \union {None}, user : Tokens]
      /\ session'.access = token /\ session'.refresh = token.sub /\ session'.user = session.user
  BY <1>0, <1>1, <1>2, TypeOKParts DEF Inv
<1>5. TypeOK'
  BY <1>0, <1>1, <1>3, <1>4 DEF Inv, TypeOK, CallRecords, PCs, CallKinds
<1>6. CallsOK' /\ \A d \in Calls : At(d, "refreshed")' => At(d, "refreshed") /\ calls'[d] = calls[d]
  BY <1>0, <1>3, OneCallMoves
<1>7. SessionOK'
  BY <1>0, <1>2, <1>4, <1>6 DEF Inv, SessionOK, TokensAreOfUser
<1>. QED BY <1>0, <1>5, <1>6, <1>7, MailKept DEF Inv

LEMMA LoginReplyStep == ASSUME Inv, NEW c \in Calls, LoginReply(c) PROVE Inv'
<1>0. /\ calls \in [Calls -> CallRecords] /\ users \in [Ids -> Roles \union {"none", "gone"}]
      /\ UNCHANGED <<users, mail, notes, failures>> /\ At(c, "login")
  BY TypeOKParts DEF Inv, LoginReply
<1>1. CASE Done(c) /\ UNCHANGED <<session, crossed>>
  <2>1. /\ calls' \in [Calls -> CallRecords] /\ calls'[c].pc = "idle"
        /\ \A d \in Calls \ {c} : calls'[d] = calls[d]
    BY <1>0, <1>1, DoneType
  <2>2. TypeOK'
    BY <1>0, <1>1, <2>1 DEF Inv, TypeOK, CallRecords, PCs, CallKinds
  <2>3. CallsOK' /\ \A d \in Calls : At(d, "refreshed")' => At(d, "refreshed") /\ calls'[d] = calls[d]
    BY <1>0, <2>1, OneCallMoves
  <2>4. SessionOK'
    BY <1>0, <1>1, <2>3 DEF Inv, SessionOK, TokensAreOfUser
  <2>. QED BY <1>0, <2>2, <2>3, <2>4, MailKept DEF Inv
<1>2. CASE /\ session' = SessionOf(calls[c].sub, calls[c].role) /\ crossed' = FALSE /\ Outdate(c)
  <2> DEFINE i == calls[c].sub
             token == Signed(calls[c].sub, calls[c].role)
  <2>1. i \in Ids /\ calls[c].role \in Roles
    BY <1>0 DEF Inv, CallsOK
  <2>2. token \in Tokens /\ token.sub = i
    BY <2>1 DEF Tokens, Signed
  <2>3. session' = [access |-> token, refresh |-> i, user |-> token]
    BY <1>2 DEF SessionOf
  <2>. HIDE DEF token, i
  <2>4. /\ session' \in [access : Tokens, refresh : Ids \union {None}, user : Tokens]
        /\ TokensAreOfUser'
    BY <2>1, <2>2, <2>3 DEF TokensAreOfUser
  <2>5. /\ calls' \in [Calls -> CallRecords]
        /\ CallsOK' /\ \A d \in Calls : ~ (At(d, "refreshed")' /\ ~ calls'[d].old)
    BY <1>0, <1>2, OutdateStep DEF Inv
  <2>6. TypeOK'
    BY <1>0, <1>2, <2>4, <2>5 DEF Inv, TypeOK, CallRecords, PCs, CallKinds
  <2>7. SessionOK'
    BY <2>4, <2>5 DEF SessionOK
  <2>. QED BY <1>0, <2>5, <2>6, <2>7, MailKept DEF Inv
<1>. QED BY <1>1, <1>2 DEF LoginReply

LEMMA LogoutStep == ASSUME Inv, Logout PROVE Inv'
<1>0. /\ UNCHANGED <<users, mail, notes, failures>>
      /\ session' = NoSession /\ crossed' = FALSE /\ Outdate(None)
  BY DEF Logout, LoggedOut
<1>1. NoToken \in Tokens /\ NoToken.sub = None
  BY DEF Tokens, NoToken
<1>2. /\ session' \in [access : Tokens, refresh : Ids \union {None}, user : Tokens]
      /\ TokensAreOfUser'
  BY <1>0, <1>1 DEF NoSession, TokensAreOfUser
<1>3. /\ calls' \in [Calls -> CallRecords]
      /\ CallsOK' /\ \A d \in Calls : ~ (At(d, "refreshed")' /\ ~ calls'[d].old)
  BY <1>0, OutdateStep DEF Inv
<1>4. TypeOK'
  BY <1>0, <1>2, <1>3 DEF Inv, TypeOK, CallRecords, PCs, CallKinds
<1>. QED BY <1>0, <1>2, <1>3, <1>4, MailKept DEF Inv, SessionOK

LEMMA ExpiryStep == ASSUME Inv, AccessExpires PROVE Inv'
<1>0. /\ UNCHANGED <<users, calls, mail, notes, failures, crossed>> /\ Verified(session.access)
      /\ session' = [session EXCEPT !.access.role = "expired"]
      /\ session \in [access : Tokens, refresh : Ids \union {None}, user : Tokens]
  BY DEF AccessExpires, Inv, TypeOK
<1>1. session.access \in [sub : Ids, role : Roles \union {"expired"}]
  BY <1>0 DEF Verified, Tokens, NoToken, AccountsAssumption
<1>2. [session.access EXCEPT !.role = "expired"] \in Tokens
  BY <1>1 DEF Tokens
<1>3. /\ session'.access = [session.access EXCEPT !.role = "expired"]
      /\ session'.refresh = session.refresh /\ session'.user = session.user
      /\ session' \in [access : Tokens, refresh : Ids \union {None}, user : Tokens]
  BY <1>0, <1>2
<1>4. session'.access.sub = session.access.sub
  BY <1>1, <1>3
<1>5. TypeOK'
  BY <1>0, <1>3 DEF Inv, TypeOK
<1>6. CallsOK'
  BY <1>0 DEF Inv, CallsOK
<1>7. SessionOK'
  BY <1>0, <1>3, <1>4 DEF Inv, SessionOK, TokensAreOfUser
<1>. QED BY <1>0, <1>5, <1>6, <1>7, MailKept DEF Inv

(* Registration: the row inserted is one nobody publishes for yet.           *)
LEMMA RegisterStep == ASSUME Inv, NEW c \in Calls, NEW e \in Emails, Register(c, e) PROVE Inv'
<1> DEFINE row == Row("hash", "register", e, None, TRUE)
<1>0. calls \in [Calls -> CallRecords] /\ UNCHANGED <<users, session, mail, notes, failures, crossed>>
  BY TypeOKParts DEF Inv, Register
<1>1. row \in CallRecords /\ row.pc = "hash"
  BY DEF CallRecords, PCs, CallKinds, Row
<1>2. calls' = [calls EXCEPT ![c] = row]
  BY DEF Register, Goto, Row
<1>. HIDE DEF row
<1>3. /\ calls' \in [Calls -> CallRecords] /\ calls'[c].pc = "hash"
      /\ \A d \in Calls \ {c} : calls'[d] = calls[d]
  BY <1>0, <1>1, <1>2, RowStored
<1>4. TypeOK'
  BY <1>0, <1>3 DEF Inv, TypeOK, CallRecords, PCs, CallKinds
<1>5. CallsOK' /\ \A d \in Calls : At(d, "refreshed")' => At(d, "refreshed") /\ calls'[d] = calls[d]
  BY <1>0, <1>3, OneCallMoves
<1>6. SessionOK'
  BY <1>0, <1>5 DEF Inv, SessionOK, TokensAreOfUser
<1>. QED BY <1>0, <1>4, <1>5, <1>6, MailKept DEF Inv

LEMMA InsertStep == ASSUME Inv, NEW c \in Calls, RegisterInsert(c) PROVE Inv'
<1>0. /\ calls \in [Calls -> CallRecords] /\ users \in [Ids -> Roles \union {"none", "gone"}]
      /\ UNCHANGED <<session, mail, notes, failures, crossed>>
  BY TypeOKParts DEF Inv, RegisterInsert
<1>1. CASE Done(c) /\ UNCHANGED users
  <2>1. /\ calls' \in [Calls -> CallRecords] /\ calls'[c].pc = "idle"
        /\ \A d \in Calls \ {c} : calls'[d] = calls[d]
    BY <1>0, <1>1, DoneType
  <2>2. TypeOK'
    BY <1>0, <1>1, <2>1 DEF Inv, TypeOK, CallRecords, PCs, CallKinds
  <2>3. CallsOK' /\ \A d \in Calls : At(d, "refreshed")' => At(d, "refreshed") /\ calls'[d] = calls[d]
    BY <1>0, <1>1, <2>1, OneCallMoves
  <2>4. SessionOK'
    BY <1>0, <2>3 DEF Inv, SessionOK, TokensAreOfUser
  <2>. QED BY <1>0, <1>1, <2>2, <2>3, <2>4, MailKept DEF Inv
<1>2. ASSUME NEW i \in Insertable(calls[c].sub),
             InsertUser(i, "USER"), Goto(c, "inserted", "register", i, "USER", TRUE)
      PROVE  Inv'
  <2> DEFINE row == Row("inserted", "register", i, "USER", TRUE)
  <2>1. i \in Ids /\ users[i] = "none" /\ "USER" \in Roles /\ "USER" # "none"
    BY <1>2 DEF Insertable, AccountsAssumption
  <2>2. mail[i] = "none"
    BY <2>1 DEF Inv, MailOK
  <2>3. /\ users' \in [Ids -> Roles \union {"none", "gone"}] /\ users'[i] = "USER"
        /\ \A j \in Ids : users'[j] = "none" => users[j] = "none"
    BY <1>0, <1>2, <2>1 DEF InsertUser
  <2>4. row \in CallRecords /\ row.pc = "inserted" /\ row.sub = i
    BY <2>1 DEF CallRecords, PCs, CallKinds, Row
  <2>5. calls' = [calls EXCEPT ![c] = row]
    BY <1>2 DEF Goto, Row
  <2>. HIDE DEF row
  <2>6. /\ calls' \in [Calls -> CallRecords] /\ calls'[c].pc = "inserted" /\ calls'[c].sub = i
        /\ \A d \in Calls \ {c} : calls'[d] = calls[d]
    BY <1>0, <2>4, <2>5, RowStored
  <2>7. TypeOK'
    BY <1>0, <2>3, <2>6 DEF Inv, TypeOK, CallRecords, PCs, CallKinds
  <2>8. \A d \in Calls \ {c} : ~ (At(d, "inserted") /\ calls[d].sub = i)
    BY <2>1 DEF Inv, CallsOK
  <2>9. CallsOK'
    <3>1. \A d \in Calls : calls'[d].pc \in {"refreshed", "login"}
                               => calls'[d].sub \in Ids /\ calls'[d].role \in Roles
      BY <2>6 DEF Inv, CallsOK
    <3>2. ASSUME NEW d \in Calls, calls'[d].pc = "inserted"
          PROVE  /\ calls'[d].sub \in Ids
                 /\ users'[calls'[d].sub] # "none" /\ mail[calls'[d].sub] = "none"
                 /\ \A e \in Calls \ {d} :
                        ~ (calls'[e].pc = "inserted" /\ calls'[e].sub = calls'[d].sub)
      <4>1. CASE d = c
        BY <2>1, <2>2, <2>3, <2>6, <2>8, <4>1
      <4>2. CASE d # c
        <5>1. calls'[d] = calls[d] /\ calls[d].pc = "inserted" /\ calls[d].sub # i
          BY <2>6, <2>8, <3>2, <4>2
        <5>2. calls[d].sub \in Ids /\ users[calls[d].sub] # "none" /\ mail[calls[d].sub] = "none"
          BY <5>1 DEF Inv, CallsOK
        <5>3. ASSUME NEW e \in Calls \ {d}, calls'[e].pc = "inserted", calls'[e].sub = calls[d].sub
              PROVE  FALSE
          <6>1. e # c /\ calls'[e] = calls[e]
            BY <2>6, <5>1, <5>3
          <6>. QED BY <5>1, <5>3, <6>1 DEF Inv, CallsOK
        <5>. QED BY <2>3, <5>1, <5>2, <5>3
      <4>. QED BY <4>1, <4>2
    <3>. QED BY <1>0, <3>1, <3>2 DEF CallsOK
  <2>10. SessionOK'
    BY <1>0, <2>6 DEF Inv, SessionOK, TokensAreOfUser
  <2>. QED BY <1>0, <2>3, <2>7, <2>9, <2>10, MailKept DEF Inv
<1>. QED BY <1>1, <1>2 DEF RegisterInsert

LEMMA PublishStep == ASSUME Inv, NEW c \in Calls, RegisterPublish(c) PROVE Inv'
<1> DEFINE i == calls[c].sub
           row == Row("login", "register", i, "USER", TRUE)
<1>0. /\ calls \in [Calls -> CallRecords] /\ At(c, "inserted")
      /\ mail \in [Ids -> {"none", "ready", "delivered", "stored", "acked", "dead", "unsent"}]
      /\ notes \in [Ids -> 0 .. 1 + MaxFailures] /\ failures \in 0 .. MaxFailures
      /\ UNCHANGED <<users, session, notes, failures, crossed>>
  BY TypeOKParts DEF Inv, RegisterPublish
<1>1. CASE Done(c) /\ UNCHANGED mail
  <2>1. /\ calls' \in [Calls -> CallRecords] /\ calls'[c].pc = "idle"
        /\ \A d \in Calls \ {c} : calls'[d] = calls[d]
    BY <1>0, <1>1, DoneType
  <2>2. TypeOK'
    BY <1>0, <1>1, <2>1 DEF Inv, TypeOK, CallRecords, PCs, CallKinds
  <2>3. CallsOK' /\ \A d \in Calls : At(d, "refreshed")' => At(d, "refreshed") /\ calls'[d] = calls[d]
    BY <1>0, <1>1, <2>1, OneCallMoves
  <2>4. SessionOK'
    BY <1>0, <2>3 DEF Inv, SessionOK, TokensAreOfUser
  <2>. QED BY <1>0, <1>1, <2>2, <2>3, <2>4, MailKept DEF Inv
<1>2. CASE /\ i \in Accounts /\ mail' = [mail EXCEPT ![i] = "ready"]
           /\ Goto(c, "login", "register", i, "USER", TRUE)
  <2>1. /\ i \in Ids /\ users[i] # "none" /\ mail[i] = "none" /\ "USER" \in Roles
        /\ \A d \in Calls \ {c} : ~ (At(d, "inserted") /\ calls[d].sub = i)
    BY <1>0 DEF Inv, CallsOK, AccountsAssumption
  <2>2. row \in CallRecords /\ row.pc = "login" /\ row.sub = i /\ row.role \in Roles
    BY <2>1 DEF CallRecords, PCs, CallKinds, Row
  <2>3. calls' = [calls EXCEPT ![c] = row]
    BY <1>2 DEF Goto, Row
  <2>. HIDE DEF row, i
  <2>4. /\ calls' \in [Calls -> CallRecords] /\ calls'[c] = row
        /\ \A d \in Calls \ {c} : calls'[d] = calls[d]
    BY <1>0, <2>2, <2>3, RowStored
  <2>5. mail' \in [Ids -> {"none", "ready", "delivered", "stored", "acked", "dead", "unsent"}]
    BY <1>0, <1>2
  <2>6. TypeOK'
    BY <1>0, <2>4, <2>5 DEF Inv, TypeOK, CallRecords, PCs, CallKinds
  <2>7. \A d \in Calls \ {c} : At(d, "inserted") /\ mail[calls[d].sub] = "none"
                                   => mail'[calls[d].sub] = "none"
    <3>1. ASSUME NEW d \in Calls \ {c}, At(d, "inserted"), mail[calls[d].sub] = "none"
          PROVE  mail'[calls[d].sub] = "none"
      <4>1. calls[d].sub \in Ids /\ calls[d].sub # i
        BY <2>1, <3>1 DEF Inv, CallsOK
      <4>. QED BY <1>0, <1>2, <3>1, <4>1
    <3>. QED BY <3>1
  <2>8. CallsOK' /\ \A d \in Calls : At(d, "refreshed")' => At(d, "refreshed") /\ calls'[d] = calls[d]
    BY <1>0, <2>1, <2>2, <2>4, <2>7, OneCallMoves
  <2>9. SessionOK'
    BY <1>0, <2>8 DEF Inv, SessionOK, TokensAreOfUser
  <2>10. MailOK'
    <3>1. \A j \in Ids : mail'[j] = IF j = i THEN "ready" ELSE mail[j]
      BY <1>0, <1>2
    <3>2. notes[i] = 0 /\ notes[i] <= failures
      BY <1>0, <2>1 DEF Inv, MailOK
    <3>. QED BY <1>0, <2>1, <3>1, <3>2 DEF Inv, MailOK
  <2>. QED BY <2>6, <2>8, <2>9, <2>10 DEF Inv
<1>. QED BY <1>1, <1>2 DEF RegisterPublish

(* A registration that fails names an account nobody else will publish for.  *)
LEMMA RegisterDiesStep == ASSUME Inv, NEW c \in Calls, RegisterDies(c) PROVE Inv'
<1> DEFINE i == calls[c].sub
<1>0. /\ calls \in [Calls -> CallRecords] /\ Done(c) /\ MaxFailures \in Nat
      /\ mail \in [Ids -> {"none", "ready", "delivered", "stored", "acked", "dead", "unsent"}]
      /\ notes \in [Ids -> 0 .. 1 + MaxFailures] /\ failures \in 0 .. MaxFailures
      /\ failures < MaxFailures /\ failures' = failures + 1
      /\ UNCHANGED <<users, session, notes, crossed>>
  BY TypeOKParts DEF Inv, RegisterDies, AccountsAssumption
<1>1. /\ calls' \in [Calls -> CallRecords] /\ calls'[c].pc = "idle"
      /\ \A d \in Calls \ {c} : calls'[d] = calls[d]
  BY <1>0, DoneType
<1>2. failures' \in 0 .. MaxFailures
  BY <1>0
<1>3. \/ mail' = mail
      \/ At(c, "inserted") /\ mail' = [mail EXCEPT ![i] = "unsent"]
  BY DEF RegisterDies
<1>4. At(c, "inserted") => /\ i \in Ids /\ users[i] # "none" /\ mail[i] = "none"
                           /\ \A d \in Calls \ {c} : ~ (At(d, "inserted") /\ calls[d].sub = i)
  BY DEF Inv, CallsOK
<1>. HIDE DEF i
<1>5. /\ mail' \in [Ids -> {"none", "ready", "delivered", "stored", "acked", "dead", "unsent"}]
      /\ \A j \in Ids : mail'[j] = mail[j]
            \/ (mail'[j] = "unsent" /\ j = i /\ At(c, "inserted"))
  BY <1>0, <1>3
<1>6. TypeOK'
  BY <1>0, <1>1, <1>2, <1>5 DEF Inv, TypeOK, CallRecords, PCs, CallKinds
<1>7. ASSUME NEW d \in Calls \ {c}, At(d, "inserted"), mail[calls[d].sub] = "none"
      PROVE  mail'[calls[d].sub] = "none"
  <2>1. calls[d].sub \in Ids
    BY <1>7 DEF Inv, CallsOK
  <2>. QED BY <1>4, <1>5, <1>7, <2>1
<1>8. CallsOK' /\ \A d \in Calls : At(d, "refreshed")' => At(d, "refreshed") /\ calls'[d] = calls[d]
  BY <1>0, <1>1, <1>7, OneCallMoves
<1>9. SessionOK'
  BY <1>0, <1>8 DEF Inv, SessionOK, TokensAreOfUser
<1>10. MailOK'
  BY <1>0, <1>4, <1>5 DEF Inv, MailOK
<1>. QED BY <1>6, <1>8, <1>9, <1>10 DEF Inv

LEMMA AdministerStep == ASSUME Inv, NEW c \in Calls, Administer(c) PROVE Inv'
<1>0. /\ calls \in [Calls -> CallRecords] /\ users \in [Ids -> Roles \union {"none", "gone"}]
      /\ Done(c) /\ UNCHANGED <<session, mail, notes, failures, crossed>>
  BY TypeOKParts DEF Inv, Administer
<1>1. /\ calls' \in [Calls -> CallRecords] /\ calls'[c].pc = "idle"
      /\ \A d \in Calls \ {c} : calls'[d] = calls[d]
  BY <1>0, DoneType
<1>2. \/ UNCHANGED users
      \/ \E i \in Ids, role \in Roles \union {"gone"} : users' = [users EXCEPT ![i] = role]
  BY DEF Administer, AdminCreate, AdminUpdate, AdminDelete, Insertable, InsertUser, Accounts
<1>3. /\ users' \in [Ids -> Roles \union {"none", "gone"}]
      /\ \A i \in Ids : users'[i] = "none" => users[i] = "none"
  BY <1>0, <1>2 DEF AccountsAssumption
<1>4. TypeOK'
  BY <1>0, <1>1, <1>3 DEF Inv, TypeOK, CallRecords, PCs, CallKinds
<1>5. CallsOK' /\ \A d \in Calls : At(d, "refreshed")' => At(d, "refreshed") /\ calls'[d] = calls[d]
  BY <1>0, <1>1, <1>3, OneCallMoves
<1>6. SessionOK'
  BY <1>0, <1>5 DEF Inv, SessionOK, TokensAreOfUser
<1>. QED BY <1>0, <1>3, <1>4, <1>5, <1>6, MailKept DEF Inv

(* The consumer: a message never returns to "none", and is stored no more    *)
(* often than it was delivered.                                              *)
LEMMA ConsumerStep ==
    ASSUME Inv, UNCHANGED <<users, session, calls, crossed>>,
           (\E i \in Ids : Consume(i)) \/ ConsumerDies
    PROVE  Inv'
<1>0. /\ mail \in [Ids -> {"none", "ready", "delivered", "stored", "acked", "dead", "unsent"}]
      /\ notes \in [Ids -> 0 .. 1 + MaxFailures] /\ failures \in 0 .. MaxFailures
      /\ MaxFailures \in Nat /\ \A i \in Ids : notes[i] \in Nat
  BY DEF Inv, TypeOK, AccountsAssumption
<1>1. /\ mail' \in [Ids -> {"none", "ready", "delivered", "stored", "acked", "dead", "unsent"}]
      /\ failures' \in 0 .. MaxFailures /\ notes' \in [Ids -> Nat]
      /\ MailOK'
      /\ \A i \in Ids : mail[i] = "none" => mail'[i] = "none"
  <2>1. ASSUME NEW i \in Ids, Deliver(i)  PROVE <1>1!:
    BY <1>0, <2>1 DEF Deliver, Inv, MailOK
  <2>2. ASSUME NEW i \in Ids, Acknowledge(i)  PROVE <1>1!:
    BY <1>0, <2>2 DEF Acknowledge, Inv, MailOK
  <2>3. ASSUME NEW i \in Ids, CreateNotification(i)  PROVE <1>1!:
    BY <1>0, <2>3 DEF CreateNotification, Inv, MailOK
  <2>5. ASSUME NEW i \in Ids, NotificationThrows(i)  PROVE <1>1!:
    <3>1. /\ UNCHANGED notes /\ mail' = [mail EXCEPT ![i] = "dead"] /\ mail[i] = "delivered"
          /\ failures' \in {failures, failures + 1} /\ failures' \in 0 .. MaxFailures
      BY <1>0, <2>5 DEF NotificationThrows
    <3>. QED BY <1>0, <3>1 DEF Inv, MailOK
  <2>4. CASE ConsumerDies
    <3>1. /\ failures' = failures + 1 /\ failures < MaxFailures /\ UNCHANGED notes
          /\ mail' = [i \in Ids |-> IF mail[i] \in {"delivered", "stored"} THEN "ready" ELSE mail[i]]
      <4>1. \A i \in Ids : mail[i] \in Unacknowledged <=> mail[i] \in {"delivered", "stored"}
        BY DEF Unacknowledged
      <4>. QED BY <2>4, <4>1 DEF ConsumerDies, Unacknowledged
    <3>2. \A i \in Ids : mail'[i] = IF mail[i] \in {"delivered", "stored"} THEN "ready" ELSE mail[i]
      BY <3>1
    <3>. QED BY <1>0, <3>1, <3>2 DEF Inv, MailOK
  <2>. QED BY <2>1, <2>2, <2>3, <2>4, <2>5 DEF Consume
<1>2. notes' \in [Ids -> 0 .. 1 + MaxFailures]
  <2>1. \A i \in Ids : notes'[i] \in 0 .. 1 + MaxFailures
    BY <1>0, <1>1 DEF MailOK
  <2>. QED BY <1>1, <2>1
<1>3. TypeOK'
  BY <1>1, <1>2 DEF Inv, TypeOK
<1>4. CallsOK'
  BY <1>1 DEF Inv, CallsOK
<1>5. SessionOK'
  BY DEF Inv, SessionOK, TokensAreOfUser
<1>. QED BY <1>1, <1>3, <1>4, <1>5 DEF Inv

LEMMA InvStep == Inv /\ [Next]_vars => Inv'
<1> SUFFICES ASSUME Inv, [Next]_vars PROVE Inv'
  OBVIOUS
<1>1. CASE UNCHANGED vars
  <2>1. TypeOK'
    BY <1>1 DEF Inv, TypeOK, vars
  <2>2. CallsOK' /\ MailOK' /\ SessionOK'
    BY <1>1 DEF Inv, CallsOK, MailOK, SessionOK, TokensAreOfUser, vars
  <2>. QED BY <2>1, <2>2 DEF Inv
<1>2. CASE \E i \in Ids : Consume(i)
  <2>1. UNCHANGED <<users, session, calls, crossed>>
    BY <1>2 DEF Consume, Deliver, CreateNotification, NotificationThrows, Acknowledge
  <2>. QED BY <1>2, <2>1, ConsumerStep
<1>3. CASE ConsumerDies
  BY <1>3, ConsumerStep DEF ConsumerDies
<1>4. CASE \E c \in Calls : CallStep(c) \/ RegisterDies(c)
  BY <1>4, RefreshStep, RefreshReplyStep, LoginReplyStep, InsertStep, PublishStep, AdministerStep,
     RegisterDiesStep DEF CallStep
<1>. QED BY <1>1, <1>2, <1>3, <1>4, SendStep, RegisterStep, LogoutStep, ExpiryStep DEF Next

(* The users, the session, the calls and the messages keep their types, and  *)
(* no account is welcomed more often than the consumer died and once.        *)
THEOREM TypeCorrect == Spec => []TypeOK
<1>1. Inv => TypeOK
  BY DEF Inv
<1>. QED BY <1>1, InitInv, InvStep, PTL DEF Spec

(* The tokens a page sends are those of the user it shows, until the reply   *)
(* to a refresh of an earlier session is stored over the present one.        *)
THEOREM SendsOwnTokens == Spec => []TokensAreOfUser
<1>1. Inv => TokensAreOfUser
  BY DEF Inv, SessionOK, TokensAreOfUser
<1>. QED BY <1>1, InitInv, InvStep, PTL DEF Spec
=============================================================================
