------------------------------ MODULE Accounts ------------------------------
(* services/auth-service, the session a browser keeps in localStorage        *)
(* (lib/api.ts, lib/auth.tsx) and the consumer of services/notification-     *)
(* service.  The gateway takes the role from the access token, never from    *)
(* the users row, so a change of role reaches a session only when it gets    *)
(* its next token.  Rows of refresh_tokens are written and never read: what  *)
(* is kept of them is that inserting one needs the account (foreign key).    *)
EXTENDS Naturals, FiniteSets

CONSTANTS Ids,          \* ids of accounts; a deleted one is not used again
          Emails,
          Email,        \* the address an account has
          Admin,        \* the account of init-db.sql
          Roles,
          Calls,        \* calls of api(), at most one at a time from each tab
          Kinds,        \* what a tab calls it for: "page", "admin", "login", "register"
          MaxFailures,  \* bound: handlers and deliveries that die
          None

ASSUME AccountsAssumption ==
    /\ Email \in [Ids -> Emails] /\ Admin \in Ids /\ {"USER", "SUPER_ADMIN"} \subseteq Roles
    /\ Kinds \in [Calls -> SUBSET {"page", "admin", "login", "register"}]
    /\ Roles \cap {"none", "gone", "expired"} = {}
    /\ MaxFailures \in Nat /\ None \notin Ids

VARIABLES users,        \* role of the row; "none": no row yet, "gone": deleted
          session,      \* localStorage: accessToken, refreshToken, user
          calls,
          mail,         \* USER_REGISTERED of an account, on notification.send or dead.letter
          notes,        \* its WELCOME rows in notifications
          failures,
          crossed       \* history: tokens of an older session were stored

vars == <<users, session, calls, mail, notes, failures, crossed>>

NoToken == [sub |-> None, role |-> "none"]
Signed(i, role) == [sub |-> i, role |-> role]
Tokens == {NoToken} \union [sub : Ids, role : Roles \union {"expired"}]

NoSession == [access |-> NoToken, refresh |-> None, user |-> NoToken]
SessionOf(i, role) == [access |-> Signed(i, role), refresh |-> i,
                       user |-> Signed(i, role)]

Idle == [pc |-> "idle", kind |-> None, sub |-> None, role |-> None, retry |-> TRUE, old |-> FALSE]

TypeOK ==
    /\ users \in [Ids -> Roles \union {"none", "gone"}]
    /\ session \in [access : Tokens, refresh : Ids \union {None}, user : Tokens]
    /\ calls \in [Calls -> [pc : {"idle", "gate", "401", "refreshed", "login", "hash", "inserted"},
                            kind : {"page", "admin", "login", "register", None},
                            sub : Ids \union Emails \union {None}, role : Roles \union {None},
                            retry : BOOLEAN, old : BOOLEAN]]
    /\ mail \in [Ids -> {"none", "ready", "delivered", "stored", "acked", "dead", "unsent"}]
    /\ notes \in [Ids -> 0 .. 1 + MaxFailures]
    /\ failures \in 0 .. MaxFailures /\ crossed \in BOOLEAN

Init ==
    /\ users = [i \in Ids |-> IF i = Admin THEN "SUPER_ADMIN" ELSE "none"]
    /\ session = NoSession
    /\ calls = [c \in Calls |-> Idle]
    /\ mail = [i \in Ids |-> "none"] /\ notes = [i \in Ids |-> 0]
    /\ failures = 0 /\ crossed = FALSE

Accounts == {i \in Ids : users[i] \in Roles}

At(c, pc) == calls[c].pc = pc
Done(c) == calls' = [calls EXCEPT ![c] = Idle]
Goto(c, pc, kind, sub, role, retry) == calls' = [calls EXCEPT ![c] =
    [pc |-> pc, kind |-> kind, sub |-> sub, role |-> role, retry |-> retry, old |-> FALSE]]

-----------------------------------------------------------------------------
(* api(), the gateway's auth_request and the requests it lets through        *)

(* jwt.verify: signature and expiry, and nothing of the users row            *)
Verified(token) == token.role \in Roles

Unauthorized(c, kind, retry) ==
    IF retry THEN Goto(c, "401", kind, None, None, retry) ELSE Done(c)

(* One fetch of api() with the token it has read from localStorage.  Login's *)
(* own 401 (no such user, or another password) is treated like a gateway's.  *)
Fetch(c, kind, retry, token) ==
    \/ /\ kind = "page"
       /\ IF Verified(token) THEN Done(c) ELSE Unauthorized(c, kind, retry)
    \/ /\ kind = "admin"
       /\ IF ~ Verified(token) THEN Unauthorized(c, kind, retry)
          ELSE IF token.role = "SUPER_ADMIN" THEN Goto(c, "gate", kind, token.sub, None, retry)
          ELSE Done(c)
    \/ /\ kind = "login"
       /\ \/ Unauthorized(c, kind, retry)
          \/ \E i \in Accounts : Goto(c, "login", kind, i, users[i], retry)

(* Pages call for the user they show, the users page for a SUPER_ADMIN; the  *)
(* form of login is always there.                                            *)
Offered(kind) ==
    \/ kind = "login"
    \/ kind = "page" /\ session.user # NoToken
    \/ kind = "admin" /\ session.user.role = "SUPER_ADMIN"

Send(c, kind) ==
    /\ At(c, "idle") /\ kind \in Kinds[c] /\ Offered(kind)
    /\ Fetch(c, kind, TRUE, session.access)
    /\ UNCHANGED <<users, session, mail, notes, failures, crossed>>

(* POST /auth/refresh: the role of the new token is the row's, by now.  An   *)
(* expired refresh token is answered 500, one of a deleted account 401.      *)
(* Slips: the role is carried over from the session; a row that is gone is   *)
(* not noticed.                                                              *)
RefreshedRole_Kept(i) == IF session.user = NoToken THEN users[i] ELSE session.user.role
RefreshedRole(i) == users[i]
Refreshable_Anyone(i) == i # None
Refreshable(i) == i \in Accounts

Refresh(c) ==
    /\ At(c, "401")
    /\ LET i == session.refresh
       IN  \/ Refreshable(i) /\ Goto(c, "refreshed", calls[c].kind, i, RefreshedRole(i), calls[c].retry)
          \/ Done(c)
    /\ UNCHANGED <<users, session, mail, notes, failures, crossed>>

(* The reply is stored, whoever is logged in by now, and the request sent a  *)
(* second time.  Slip: the second time may be followed by a third.           *)
RetryAgain_Always == TRUE
RetryAgain == FALSE

RefreshReply(c) ==
    /\ At(c, "refreshed")
    /\ LET token == Signed(calls[c].sub, calls[c].role)
       IN  /\ session' = [session EXCEPT !.access = token, !.refresh = token.sub]
           /\ Fetch(c, calls[c].kind, RetryAgain, token)
    /\ crossed' = (crossed \/ calls[c].old)
    /\ UNCHANGED <<users, mail, notes, failures>>

(* Calls that wait for new tokens wait for those of a session that is over.  *)
Outdate(done) == calls' = [c \in Calls |->
    IF c = done THEN Idle
    ELSE IF At(c, "refreshed") THEN [calls[c] EXCEPT !.old = TRUE] ELSE calls[c]]

(* login and register end alike; the refresh token's row needs the account.  *)
LoginReply(c) ==
    /\ At(c, "login")
    /\ IF calls[c].sub \in Accounts
       THEN /\ session' = SessionOf(calls[c].sub, calls[c].role)
            /\ crossed' = FALSE
            /\ Outdate(c)
       ELSE Done(c) /\ UNCHANGED <<session, crossed>>
    /\ UNCHANGED <<users, mail, notes, failures>>

(* lib/auth.tsx: local only, POST /auth/logout is called by nobody.          *)
(* Slip: one key is forgotten.                                               *)
LoggedOut_KeepsRefresh == [NoSession EXCEPT !.refresh = session.refresh]
LoggedOut == NoSession

Logout ==
    /\ session.user # NoToken
    /\ session' = LoggedOut /\ crossed' = FALSE
    /\ Outdate(None)
    /\ UNCHANGED <<users, mail, notes, failures>>

AccessExpires ==
    /\ Verified(session.access)
    /\ session' = [session EXCEPT !.access.role = "expired"]
    /\ UNCHANGED <<users, calls, mail, notes, failures, crossed>>

-----------------------------------------------------------------------------
(* Accounts *)

Taken(e) == \E i \in Accounts : Email[i] = e

(* The ids a row of this address may get; none when users.email, which is    *)
(* UNIQUE, refuses it.  Bound: the model has no id left.                     *)
Insertable(e) == {i \in Ids : ~ Taken(e) /\ users[i] = "none" /\ Email[i] = e}
InsertUser(i, role) == users' = [users EXCEPT ![i] = role]

(* POST /auth/register: the check, then bcrypt.hash *)
Register(c, e) ==
    /\ At(c, "idle") /\ "register" \in Kinds[c]
    /\ ~ Taken(e)
    /\ Goto(c, "hash", "register", e, None, TRUE)
    /\ UNCHANGED <<users, session, mail, notes, failures, crossed>>

(* The loser of two that passed the check gets a 500, not the 409.           *)
RegisterInsert(c) ==
    /\ At(c, "hash")
    /\ LET free == Insertable(calls[c].sub)
       IN  \/ \E i \in free : /\ InsertUser(i, "USER")
                              /\ Goto(c, "inserted", "register", i, "USER", TRUE)
           \/ free = {} /\ Done(c) /\ UNCHANGED users
    /\ UNCHANGED <<session, mail, notes, failures, crossed>>

(* The row of the refresh token, then USER_REGISTERED *)
RegisterPublish(c) ==
    /\ At(c, "inserted")
    /\ LET i == calls[c].sub
       IN  IF i \in Accounts
           THEN /\ mail' = [mail EXCEPT ![i] = "ready"]
                /\ Goto(c, "login", "register", i, "USER", TRUE)
           ELSE Done(c) /\ UNCHANGED mail
    /\ UNCHANGED <<users, session, notes, failures, crossed>>

(* A statement fails in a registration, or the service dies: the page shows  *)
(* an error.  After the INSERT there is an account, and nothing publishes    *)
(* for it again.                                                             *)
RegisterDies(c) ==
    /\ failures < MaxFailures /\ failures' = failures + 1
    /\ \/ At(c, "hash") /\ UNCHANGED mail
       \/ At(c, "inserted") /\ mail' = [mail EXCEPT ![calls[c].sub] = "unsent"]
    /\ Done(c)
    /\ UNCHANGED <<users, session, notes, crossed>>

AdminCreate == \E e \in Emails, role \in Roles : \E i \in Insertable(e) : InsertUser(i, role)

(* PUT asks for no other SUPER_ADMIN to be left; address and name, which no  *)
(* token and no check depends on here, stay.                                 *)
AdminUpdate == \E i \in Accounts, role \in Roles : users' = [users EXCEPT ![i] = role]

(* Not oneself; a notification keeps the account (foreign key, 500).         *)
AdminDelete(self) == \E i \in Accounts \ {self} :
    notes[i] = 0 /\ users' = [users EXCEPT ![i] = "gone"]

(* A request of the users page that the gateway let through as SUPER_ADMIN,  *)
(* and the service carries out or refuses.                                   *)
Administer(c) ==
    /\ At(c, "gate")
    /\ AdminCreate \/ AdminUpdate \/ AdminDelete(calls[c].sub) \/ UNCHANGED users
    /\ Done(c)
    /\ UNCHANGED <<session, mail, notes, failures, crossed>>

-----------------------------------------------------------------------------
(* The consumer of notification.send *)

Deliver(i) ==
    /\ mail[i] = "ready"
    /\ mail' = [mail EXCEPT ![i] = "delivered"]
    /\ UNCHANGED <<users, session, calls, notes, failures, crossed>>

(* INSERT INTO notifications *)
CreateNotification(i) ==
    /\ mail[i] = "delivered" /\ i \in Accounts
    /\ notes' = [notes EXCEPT ![i] = @ + 1] /\ mail' = [mail EXCEPT ![i] = "stored"]
    /\ UNCHANGED <<users, session, calls, failures, crossed>>

(* Whatever the handler throws, consumeQueue moves the message to            *)
(* dead.letter, which nobody reads: the account is gone (foreign key), or    *)
(* the database does not answer.                                             *)
NotificationThrows(i) ==
    /\ mail[i] = "delivered"
    /\ \/ i \notin Accounts /\ UNCHANGED failures
       \/ i \in Accounts /\ failures < MaxFailures /\ failures' = failures + 1
    /\ mail' = [mail EXCEPT ![i] = "dead"]
    /\ UNCHANGED <<users, session, calls, notes, crossed>>

Acknowledge(i) ==
    /\ mail[i] = "stored"
    /\ mail' = [mail EXCEPT ![i] = "acked"]
    /\ UNCHANGED <<users, session, calls, notes, failures, crossed>>

(* Slip: the consumer takes its messages with noAck. *)
Unacknowledged_None == {}
Unacknowledged == {"delivered", "stored"}

ConsumerDies ==
    /\ failures < MaxFailures /\ failures' = failures + 1
    /\ \E i \in Ids : mail[i] \in {"delivered", "stored"}
    /\ mail' = [i \in Ids |->
            IF mail[i] \in Unacknowledged THEN "ready"
            ELSE IF mail[i] \in {"delivered", "stored"} THEN "acked" ELSE mail[i]]
    /\ UNCHANGED <<users, session, calls, notes, crossed>>

Consume(i) == Deliver(i) \/ CreateNotification(i) \/ NotificationThrows(i) \/ Acknowledge(i)

CallStep(c) == Refresh(c) \/ RefreshReply(c) \/ LoginReply(c)
    \/ RegisterInsert(c) \/ RegisterPublish(c) \/ Administer(c)

Next ==
    \/ \E c \in Calls, kind \in {"page", "admin", "login"} : Send(c, kind)
    \/ \E c \in Calls, e \in Emails : Register(c, e)
    \/ \E c \in Calls : CallStep(c) \/ RegisterDies(c)
    \/ Logout \/ AccessExpires
    \/ \E i \in Ids : Consume(i)
    \/ ConsumerDies

(* A request that was sent is answered, a message is consumed, and fifteen   *)
(* minutes pass.  Nobody has to log in, to log out or to click.              *)
Fairness ==
    /\ \A c \in Calls : WF_vars(CallStep(c))
    /\ \A i \in Ids : WF_vars(Consume(i))
    /\ WF_vars(AccessExpires)

Spec == Init /\ [][Next]_vars /\ Fairness

-----------------------------------------------------------------------------
(* Properties *)

(* The tokens a page sends are those of the user it shows, and after logout  *)
(* there are none, unless the reply to a refresh of an earlier session has   *)
(* been stored over the present one.                                         *)
TokensAreOfUser == \/ crossed
                   \/ /\ session.access.sub = session.user.sub
                      /\ session.refresh = session.user.sub

(* A call of api() comes to an end: its 401 is followed by one refresh and   *)
(* one more request, whatever that one is answered.                          *)
CallsEnd == \A c \in Calls : ~ At(c, "idle") ~> At(c, "idle")

(* Tokens outlive a demotion or a deletion, but only for their fifteen       *)
(* minutes: from some time on nothing is done for the account as SUPER_ADMIN. *)
Empowered(i) == \/ session.access = Signed(i, "SUPER_ADMIN")
                \/ \E c \in Calls : At(c, "gate") /\ calls[c].sub = i
DemotedLosesAccess == \A i \in Ids :
    <>[](users[i] # "SUPER_ADMIN") => <>[](~ Empowered(i))

(* Whoever registers is welcomed, also when the consumer dies over the       *)
(* message, except in three cases: the account is deleted before, the        *)
(* registration fails between its INSERT and its publish, and the handler    *)
(* throws over the message, which is then dead and not retried.              *)
Registered(i) == \E c \in Calls : At(c, "inserted") /\ calls[c].sub = i
WelcomeArrives == \A i \in Ids :
    Registered(i) ~> notes[i] > 0 \/ users[i] = "gone" \/ mail[i] \in {"unsent", "dead"}
=============================================================================
