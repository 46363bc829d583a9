# Festix: what is modelled, checked and proved

Festix sells concert seats through six Node services over one PostgreSQL
database, one Redis and one RabbitMQ.  This directory is the verification
project beside that code: TLA+ modules, TLC configurations, and TLAPS proofs.
Paths below are relative to the repository root, which is `src/` in
`PROJECT.json`.

The services share tables, use no transaction (`query()` in
`packages/shared/src/db.ts` runs one statement on a pooled connection), write
most statuses without a condition on the old one, and can die between any two
statements.  So the interesting question is always the same: *which promises
survive when several handlers, each a sequence of single statements, interleave
and stop half-way?*  The models answer it by splitting every handler at its
awaits.

## 1. Inventory

| part | state it keeps | operations | talks to |
| --- | --- | --- | --- |
| seat service (`services/seat-service`) | Redis `seat:<id>:locked` (lease), `seats.status`, `seat_locks`, Redis `event:<id>:seats` (cached list) | lock, unlock, release-expired, seat list | page, queue worker's timer, the table the other services write |
| its waiting room | Redis counter with TTL, sorted set | join, position, admit-next | page, admin |
| order service (`services/order-service`) | `orders`, `order_items`, `seats.status` | checkout, cancel, PATCH status, reads | publishes `order.processing`, `notification.send` |
| payment service (`services/payment-service`) | `payments`, `orders.status`, `tickets`, `seats.status` | pay, confirm, refund, reads | publishes `ticket.generation`, `notification.send` |
| queue worker (`services/queue-worker`) | `orders.status`, `tickets`, `seats.status` | consumers of `order.processing`, `ticket.generation`, `payment.processing` (logs only), a one-minute timer | broker, seat service over HTTP |
| broker client (`packages/shared/src/rabbitmq.ts`) | unacknowledged messages, `dead.letter` | publish, consume with ack after the handler, nack on a throw | RabbitMQ |
| Redis client (`packages/shared/src/redis.ts`) | leases | `acquireLock` (SET EX NX), `releaseLock` (compare and delete script) | Redis |
| event service (`services/event-service`) | Redis `events:list`, `event:<id>`, `stock:<id>`; `events`, `venues`, `seats` rows | admin writes, cached reads, seat generation | Redis, database |
| auth service (`services/auth-service`) | `users`, `refresh_tokens` | register, login, refresh, verify, administration of accounts | database, gateway, publishes `notification.send` |
| notification service | `notifications` | consumer of `notification.send`, reads | broker |
| booking pages (`frontend/src/app/(client)`) | the page in the tab, timers and replies in flight, the simulator on the phone | lock, checkout, pay, poll, confirm | all services |
| session (`frontend/src/lib`) | `localStorage`: two tokens and the user | `api()` with one refresh and retry, login, logout | auth service, gateway |
| list pages (events page, admin's events and venues) | page, filter, requests in flight | filters, pager, the load after a save or a delete | event service |
| admin forms (admin's events, venues and users) | the list on screen, the dialog and its form, `saving`, requests in flight | open, edit, save, delete, load | event service, auth service |

`PROJECT.json` lists the remaining parts (presentation, deployment, load test)
and why they stay outside.

How they interact: the pages call the services through the gateway, which asks
the auth service to verify the token of each call and passes the user and role
on.  The services share the tables and tell each other of orders and payments through
queues; the queue worker calls the seat service's sweep every minute, at
`http://localhost`, which reaches it only where the two share a host.  The seat service
tells the pages of locks and admissions over Socket.IO, beside the replies.

What is hard here, by theme (every item with its line is under `hazards`):

* **Check then act.** `checkout` reads the seats, then writes `RESERVED` without
  looking again; `lock` reads the status before its lease; `pay` reads the order
  but not its status; `join` reads the counter it increments later.
* **Acting on what was read earlier.** The sweep loops over rows it selected
  before the loop; `GenCheck` looks for a ticket another program may be about to
  insert; a seat list is cached after it was read.
* **Half-done handlers.** Nothing is rolled back or retried by the services.  A
  confirm that dies after `SUCCESS` leaves a charged order; a sweep that dies
  must leave work for the next one.
* **Messages late, twice or lost to `dead.letter`.** Ten deliveries run at once.
* **Shared columns.** `seats.status` has four writing programs and
  `orders.status` three.
* **Caches.** Readers fill keys that writers delete one by one, and may die between.
* **Pages.** Replies overtake each other and outlive the page that asked for them; a
  timer follows the buyer to another page; a selection changes under a running
  handler; a token says what its user was allowed to do some minutes ago.
* **Leases.** A Redis key lapses while a handler still thinks it holds it.

What makes each part correct:

* seat service: only exchanges `AVAILABLE` and `LOCKED`; a seat has one locker as long as
  nobody takes its lease away; the sweep disturbs no hold but the one it gives back, and
  gives back all that expire in the end; a lock is never reported for a seat where another
  buyer's hold stands.
* orders: a reserved seat stays with its order until somebody cancels; a seat is
  in one live order; one key makes one order.
* payments and tickets: tickets only for charged orders and their own seats; one
  ticket for each seat; a charged order gets its tickets; an order is charged
  once; a paid order stays paid unless somebody undoes it.
* waiting room: it admits at most so many over its limit as joins overlap; nobody drops out
  of the queue.
* booking pages: the order is for the seats of the click; no screen says paid of an order
  that is not, and a confirmed payment is shown in the end; trying a payment again
  opens no second one.
* accounts: the tokens sent are those of the user shown; a demotion takes effect; a
  call ends; who registers is welcomed.
* catalogue: a cached event is old only for a reason that passes; a finished
  generation is whole; the pager leads to every page.
* list pages: the list shown is no empty page past the end, as long as no row has left it.
* admin forms: a dialog creates one row; the list ends up as the table.

## 2. Modules

    SeatBoard          seats.status and the contract of its writers
      SeatService      seat-service, against its half of the contract
        SeatServiceProofs      theorems, by TLAPS
        SeatHolds              the history of who holds a seat
          SeatServiceMutexProofs   theorems on the lease as a mutex
      Database         orders, items, payments, tickets, the two queues
        OrderService           checkout, cancel, PATCH status
        TicketGeneration       the printing loop, in both its copies
          PaymentService       pay, confirm, refund
          QueueWorker          the two consumers and the broker's redelivery
            Booking            OrderService + PaymentService + QueueWorker
                               + the seat service's half of the contract
              BookingProofs    theorems, by TLAPS, the refinement of Fulfilment with them
              MCBooking        symmetry for the runs
              BuyerPages       the pages of one buyer as the clients of Booking
                BuyerPagesProofs   theorems, by TLAPS, on top of BookingProofs
    Fulfilment         what Booking promises, with no calls and no queues

    WaitingRoom        join, position, admit-next, and the page's socket
      WaitingRoomProofs    theorems, by TLAPS

    SeatServer         SeatHolds and WaitingRoom, the two halves of the seat service
      MCSeatServer         symmetry for the run

    Accounts           auth-service, the session in localStorage, the welcome mail
      AccountsProofs       theorems, by TLAPS
      MCAccounts           the constants of the run

    EventCache         the two cached keys of event-service and their writers
    Seating            the generation of seats
    Pager              renderPageNumbers
      ListPages        a list with filter, pager, requests in flight and rows that come and go
    AdminForm          table and dialog of an admin page: events, venues or users
        Catalogue      EventCache, Seating, ListPages and AdminForm side by side
          AdminFormProofs  theorems on AdminForm, by TLAPS
            CatalogueProofs    theorems on the other three, and on the whole
          MCCatalogue      the constants of the run

**SeatBoard** is the interface between the two halves of the project.  The seat
service writes `seats` only under a condition on the status (`LockSeat`,
`FreeSeat`); everybody else overwrites it.  `SeatHold` is the effect the seat
service may have, `SeatSale` the effect of the rest.  `SeatService` is checked
(and proved, theorem `ContractKept`) to have only `SeatHold` effects while any
`SeatSale` write may happen at any moment (`OtherWriters`), and `Booking` lets
`SeatHold` happen at any moment (`SeatServiceHold`).  That is what allows the two
to be checked apart.

**SeatService.** One process for each call.  A lock call is `LockCall`, then for
each seat `LockSelect` (SELECT), `LockAcquire` (SET EX NX), `LockUpdate`
(UPDATE ... AND status = 'AVAILABLE', row count ignored as in the code),
`LockInsert` (upsert of `seat_locks`, which renews the expiry), and `LockReply`
(cache invalidation).  Unlock and sweep are split the same way.  A call's name is
also the name of the leases and rows it makes; the *user* of a lease, which is
what Redis stores and `releaseLock` compares, is that call's `user`, so two calls
of one buyer are told apart although Redis cannot tell them apart.  There is no
clock: `LeaseLapses` may fire at any moment, and `RowExpires` once the lease
the row was written for is gone, because the code computes `expires_at` after SET
EX returned and with the same TTL.  That also takes the clocks of the Node process
(which computes `expires_at`), of Redis and of the database (`NOW()` in the sweep) to
agree: with skew an unexpired hold could be swept, and no property here says otherwise.
The order in which a loop visits its seats is
left open: the code visits them in the order of the request or of the result set,
which is any order.  `OtherWriters` is the other programs' half of the contract: checkout's
`RESERVED`, the printing loops' `SOLD`, and the `AVAILABLE` of a cancellation.
`SweepReached` says whether the timer of the queue worker finds the seat service: its URL names
`http://localhost`, which is right for `npm run dev` and wrong between the containers of
`docker-compose.yml`.

**SeatHolds** adds two history variables to every step of SeatService.  `holders` are the lock calls whose
UPDATE left the seat `LOCKED` since it was last `AVAILABLE`; `cutShort` are the leases that ended
otherwise than by running out over an idle seat: deleted by an unlock or a sweep, or lapsed under
a handler that took longer than the TTL.  A hold *stands* while its call is a holder and its lease was not
cut short.  Nothing in the code enforces that unlocks, cancellations, crashes and slow
handlers stay away, so the properties do not assume it; they say that a hold is lost to *these alone*.

**SeatServer** puts SeatHolds and WaitingRoom, one process with no shared state, side by side; `part`
says which of them a behaviour is about.

**Database, OrderService, TicketGeneration, PaymentService, QueueWorker** split the
other handlers in the same way.  An order carries the name of the call that
inserted it and a payment that of its call of `/pay`; the money of an order is the set
of seats it adds up.  The
printing loop exists twice in the code (`generateTicketsForOrder` in the payment
service, the consumer body in the worker) with the same statements; `gen` holds
one run of it for each issuer.  `tickets` has no key on order and seat, so a second INSERT adds a row:
a ticket names its issuer and whether that issuer had printed the seat before (`again`).  The INSERT
of a payment and the publish after it are one step, except that the publish may fail or the process die
in between (`PayPublishFails`): the message has no effect but a line in the worker's log.  A message is `ready`, `delivered`, `applied`,
`acked` or `dead`; a worker crash returns everything unacknowledged to `ready`.

**Booking** composes them, adds faults bounded by `MaxFailures`, and states the
properties.  **Fulfilment** is the abstract specification: orders claim seats, are
charged, and get tickets only for claimed seats of charged orders; nothing is taken
back.  `ImplementsFulfilment` maps `order_items`, the successful payments and
the tickets to it.

**BuyerPages** takes over the calls of Booking: a checkout, a payment or a confirm is made
only when a page makes it.  `ServiceStep` is everything else of Booking: the handlers that go on, both
consumers, the seat service, faults, and the cancellations, refunds and PATCHes that the admin panel
or anybody with a token sends.  `tab` is the page in the browser with what
it holds; `clicks` are the runs of `handleCheckout`, `paying`, `polls` and `redirects` the
replies and timers that outlive the page that started them; `ReplyLost` loses, or turns into an error, the
reply of a lock, a checkout, a payment, a confirm or a poll.  Other buyers are
`SeatServiceHold` and the broadcasts of their locks, and so is what a lock call still takes when its
reply was lost.  A payment method has one order here, so that
the key `order:method` is the method; the calls of pay are named in the order they are made.

**WaitingRoom** splits join and admit-next at every Redis call.  Time is only what
scores compare: `Now` gives a score as late as the latest or later.  `decided` and `extra` are
history, used by the properties alone.

**Accounts** keeps of a JWT its user and role, of `refresh_tokens` the foreign key (the rows are
written and never read), and of a password that it may be right or wrong.  A *call* is one
tab's use of `api()`, at most one at a time; a call waits at the await after the gateway, after
a 401, with new tokens on their way, and so on.  A welcome is `unsent` when register failed between its
INSERT and its publish, and `dead` when the consumer threw over it: `consumeQueue` moves a message to
`dead.letter` on any throw, a missing account (foreign key) and a database that does not answer alike.
The role the services see is the gateway's.  `nginx.conf` passes `/api/auth/` on with whatever role
header the caller sets (lines 102 to 105); a caller who sets one is outside the model.

**ListPages** is the events page or a list of the admin panel (`admin`), which differ in what a failed load
does: the events page then shows an empty list of one page and keeps its page number, the admin panel keeps
what it shows.  Rows come under a filter and leave it at any moment (`RowMoves`), by writes of this page or of others
and by the time of day.  A save or a delete loads the list again with the page and filter of the click
(`ClickWrite`, `WriteDone`).  `shown`, `shrunk` and `stray` are history.

**AdminForm** is one page: `table` is the service's, `list` what is on screen, `fetches` the
loads in flight (`newest` is the one sent last), `dialog` the form and what is edited in it, and
`sent` the POSTs, PUTs and DELETEs.  `saving` belongs to the page and not to the dialog, as in the
code: an answer closes whatever dialog is open, and the button of a new dialog waits for the save of
an old one.  One field of a row is kept, the one an empty form treats differently on the three pages
(`Stored`).  An event's write that answers 500 because Redis did not take its DEL was carried out, and is
an answer lost (`AnswerLost`); `Refuse` is a write that was not.  `made`, `unsure`, `opened` and `stale` are
history.

**Catalogue** puts four things that share no state into one run; `part` says which of them a
behaviour is about, so that their states add up and do not multiply.  Rows
are versions: an old entry is one with another version than the row.

What is abstracted: ids, ticket codes, prices, QR payloads, logging, metrics, texts and layout,
`notification.send` messages other than the welcome, passwords, and reads that change nothing and
that nothing waits for.  One event is modelled.

## 3. Runs

| run | expects | asks |
| --- | --- | --- |
| `seat_server` | pass | With two lockers, an unlock by anybody, two sweeps, a death at any await, leases lapsing under running handlers, and sales and cancellations at any moment: does the seat service keep its half of the contract, is an expired row never the row of a running lease, is the lease a mutex for the lock handler's writes, does a lock never join a hold that stands, and does the sweep spare whoever came since? And in the waiting room: how far can overlapping joins pass `MAX_ACTIVE`, and does nobody drop out of the queue? |
| `seat_released` | pass | Is every hold that expires given back in the end, where the worker's timer reaches the sweep? |
| `booking_core` | pass | With two checkouts that may share an idempotency key, a payment, a confirm, a refund, a cancellation, an administrator and both queues: does a reserved seat stay reserved or sold, is it refused to later checkouts, and in which ways alone is a charged order not `PAID`? |
| `booking_faults` | pass | With overlapping confirms, a refund, redeliveries and a fault: tickets only for charged orders and their seats, one for each seat, all of them unless the confirm itself dies, every status backed by a row, and `Fulfilment` implemented. |
| `buyer_pages` | pass | Is the order for the seats of the click, does a retried payment find its session, is what the screens say of a payment true, and is it said in the end? |
| `accounts` | pass | Whose tokens are sent, does every call end, does a demotion take effect, and is who registered welcomed? |
| `catalogue` | pass | Where can an old cached event come from and does it go away, is a finished generation whole, where does the pager lead, when is the page past the end of the list, how often does a save create a row, and is the list the table's in the end? |
| `seat_unreached` | violation | "Auto-release expired reservations" (`Architecture.md`), "TTL auto-release" (`README.md`), with the timer's call arriving nowhere. |
| `seat_abandoned` | violation | "Auto-release expired reservations", with the sweep running. |
| `booking_overlap` | violation | "Prevent double booking". |
| `booking_two_methods` | violation | "Prevent duplicate checkout/payment". |
| `booking_crash` | violation | The buyer receives the ticket after the payment. |

What the violations show, shortest behaviour each:

* `seat_unreached`: in `docker compose up`, which the README recommends, `http://localhost` is the worker's
  own container; `fetch` throws, the error is dropped, and a hold that expired stays `LOCKED`.  The
  formula is that of `seat_released`; only `SweepReached` differs.
* `seat_abandoned`: the sweep frees the seat of an expired row; before its
  `DELETE ... WHERE seat_id` runs, another buyer locks the seat and writes a row; the
  DELETE removes that row.  When the new buyer's lease lapses the seat is
  `LOCKED`, has no row, and can be neither locked nor swept again.
* `booking_overlap`: two checkouts read the seat `LOCKED`, then both insert
  an order and an item and write `RESERVED`.
* `booking_two_methods`: two payments with different keys are opened for one
  order and both are confirmed.
* `booking_crash`: confirm commits `SUCCESS` and dies; repeating it takes the
  `duplicate` branch; nobody prints the tickets.

### Bounds

Every bound is a constant of the `.cfg`.

* `Seats`: one in the seat runs: rows, leases and statuses of different seats never meet
  except in one handler's loop, which takes the seats one after the other.  The theorems on
  the seat service are for every set of seats, loops included; the liveness run with two seats and a
  death passes the time a run may take.
* `LockRequests`: two.  The races are between an earlier and a later holder, or
  two callers; a call is not reusable, so two calls are two holds in a lifetime.
* `UnlockRequests`, `Readers`: one.  `Sweeps`: two in `seat_server`, since a sweep may take longer than
  the timer's minute; one in the others (it goes back to `idle` and runs again).
* `Users`: two, so that the calls are of one buyer or of two.
* `Checkouts`: two where they compete, one where the question is about one order.
  `Confirms`: two to retry or overlap, `Pays`: two in `buyer_pages` to pay again.
  `Keys`: one key that clients share; every call may also bring its own.
* `MaxFailures`: number of deaths, dead letters, worker crashes and lost replies.
* `SaleWrites`: which statuses the other services write in the seat runs: `SOLD` and
  `AVAILABLE` in `seat_server` (`RESERVED` differs from `SOLD` for nobody in the seat service), `SOLD` in
  `seat_released`, none in the violations, which follow a seat that nobody else writes.
* `PatchStatuses`: what an administrator sets.
* `PayEarly`: whether an order can be paid before its checkout replied (its id is
  visible in `GET /orders` at once).  `TRUE` in the safety runs of Booking, `FALSE` where
  the pages make the calls.
* `Deliveries`: the confirms whose `ticket.generation` message reaches the worker: all, except in
  `buyer_pages`, where `Cancels`, `Refunds` and `PatchStatuses` are empty too.  The theorems on
  `BuyerPages` have every value of them; with one of them in it the run alone takes over four minutes.
* The waiting room in `seat_server`: two buyers, two joins, one admit-next, `MAX_ACTIVE` one, so that one
  join fills the room and two can overlap; calls are reusable.  `MaxUpsets` is one: a page
  opened again, a socket lost or an admission that dies.
* `accounts`: the seeded administrator and one address to be registered or created; one tab
  with pages and one with the forms of login and registration, which makes a login in one tab
  under a refresh in the other.  `MaxFailures` is one.
* `catalogue`: one reader, two writers, two versions of the event and of its venue, one
  death; generations of three and of two seats; six pages of one row (more than the five
  that are all shown), two of them under the filter, two requests in flight, one save or delete at a time and one upset (a row that
  comes or goes, or a load that fails); the events and the users page
  with two rows, one text, two dialogs, two saves or deletes and two loads in flight, and one upset
  (a search, a lost answer, a failed load or somebody else's write).  Two dialogs are what it takes
  for the answer of one to meet the other, and two loads to overtake.  1.5 million states, about three minutes.

### Assumptions that a property needs

`OldIsAccounted` leaves out entries that were old when they were stored (`late`), and
`TokensAreOfUser` the time after a refresh of an older session was stored (`crossed`): both happen
in the code, and the properties say that nothing else has their effect.  `PageExists`
leaves out lists from which a row has left, by whatever write or by the time of day, and pages chosen in
the pager of another filter: from either an empty page past the end is reached.  It speaks of the reply to the
newest request, so a failed load, after which the events page shows an empty list and no pager,
is not under it either, until a later one answers.

`OneLocker`, `NeverJoinsHold` and `SweepSparesLease` are about holds and leases that nobody else has ended,
and each exception is needed; without it TLC violates the property at once:

* a lease deleted before its time: unlock gives up the lease first and frees the seat a statement
  later, when somebody else may have both; the sweep deletes by user, so it deletes the new lease of a
  buyer who had held the seat before;
* a lease that lapsed under its handler: the lease is neither renewed nor looked at again, so a handler slower
  than the TTL writes next to the following holder;
* a seat reopened: by a cancellation under a running hold, by an unlock whose `user_id` is
  not the holder's, by a second sweep, or by a sweep that died between its UPDATE and its DELETE and left the
  expired row to the next.

`seat_released` and `seat_abandoned` set `PromptHandlers`: a Redis TTL of minutes does not run out between the
SELECT and the upsert of one seat.  They have no unlock and no cancellation: they ask whether the
sweep alone gives a seat back.  In `seat_released` one lock call or one sweep may die at any of its awaits and
the seat may be sold meanwhile.  There is one sweep: with two of them, or with an unlock, the row of a
running hold can be deleted before its time, and the seat ends as in `seat_abandoned`.  `ExpiredLockReleased` needs `SweepReached`, as `seat_unreached` shows.

`WelcomeArrives` excepts an account that was deleted, a register that failed between its INSERT and its publish, and a
message the consumer threw over.

`OneTicketEach` compares the tickets that a confirm prints with those its own message prints: two
overlapping confirms of a payment both print, and the check for an existing ticket races the
INSERT.  `PaidUnlessUndone` names the late `order.processing` message, which takes a paid
order back to `PROCESSING`, as one of the things that undo.

### Fairness

`SeatService!Fairness`: a lock handler that was called and does not die runs on
(Node serves every pending promise), a sweep runs on and is called again as long as it can be
reached (`setInterval` in the queue worker never stops, and catches what it calls; with
`SweepReached = FALSE` no sweep is enabled, so nothing is assumed), time passes (leases lapse, rows expire).
Nothing is assumed of clients, of unlock calls or of the cache.
`Booking!Fairness`: each handler that was called runs on; the worker's
consumers take ready messages and finish them.  Nobody has to check out, pay or
confirm.  `BuyerFairness`: the three-second interval fires, a reply that says `SUCCESS` and is not
lost arrives, and timers run out; nobody has to click, and the services have no fairness there at
all.  `Accounts!Fairness`: a request that was sent is answered, a message is consumed, and an access
token expires.  `CacheFairness`: requests run on, and the keys' TTLs pass; writers need not
write.  All of it is weak fairness on the step of one handler; a dead handler
has no step.  Faults are not fair.

## 4. Proofs

`SeatServiceProofs.tla`, for every set of calls, seats, users, every `SaleWrites` and
number of deaths, with nothing but
`SeatServiceAssumption` (`None` is not
a call or a user, `SaleWrites` are the statuses the other services write):

| theorem | says |
| --- | --- |
| `TypeCorrect` | `Spec => []TypeOK` |
| `ExpiredRowsLapsed` | `Spec => []ExpiredRowLapsed` |
| `ContractKept` | `Spec => KeepsContract`, the fact `Booking` relies on |

The inductive invariant is `Inv`.  `ExpiredRowLapsed` alone is not inductive: SET
NX gives a lease the name of its call, and if an old row carried the same name
that lease would make the row a running one.  `RowWritten` excludes it: a row's
call has that seat behind it, it is neither on the call's list nor in its hand.
`SeatInHand` (the seat in hand is off the list) keeps `RowWritten` inductive, and
`CallsKnown`, `SweepKnown` and `UnlockKnown` say that a handler in the middle of
a loop names a real seat, row and user, which types alone do not.  The proof has one effect
lemma for each await of the lock handler (what it does to its own record),
then one lemma for each handler, and `InvStep` over `Next`.

`SeatServiceMutexProofs.tla` proves, again for every set of calls, seats and users, with unlocks, deaths,
cancellations, slow handlers and any number of sweeps, what `seat_server` checks of SeatHolds:

| theorem | says |
| --- | --- |
| `LeaseIsMutex` | `HoldsSpec => []OneLocker`: of the calls whose lease was not cut short, one at a time is between SET NX and its upsert on a seat |
| `SweepSpares` | `HoldsSpec => SweepSparesLease`: while the hold of the row it works on stands, the sweep meets no lease and no other hold on the seat |
| `NoLockJoins` | `HoldsSpec => NeverJoinsHold`: no lock call with its lease updates a seat where a hold stands |

The argument is `HoldInv`.  `WriterHasLease`: a call at its UPDATE or upsert whose lease was not cut short still owns
the key.  The time after the lease is the hard part, when only the status keeps others out:
`HolderHasLease` says that a standing hold has its lease, or that the lease ran out and no lock call is at the seat; since a lease
that ends in its time ends over an idle seat, that is so when it ends, and it stays so because
`HeldNotOffered` (a held seat is not `AVAILABLE`) stops every later call at its SELECT.  `OneHolder` and
`HoldsAfterUpdate` follow from the two, `SweptRowsLapsed` says that the rows a sweep has read are of calls that have left
the seat for good and do not own its key.

`WaitingRoomProofs.tla`, for every set of users and calls, every `MAX_ACTIVE` and every
number of upsets, from `WaitingRoomAssumption` (users and calls are finitely many, `None` is no
user):

| theorem | says |
| --- | --- |
| `TypeCorrect` | `RoomSpec => []RoomTypeOK`; in particular the count is never negative |
| `CountIsBounded` | `RoomSpec => []ActiveBounded`: `active` plus the promised places is below `MAX_ACTIVE` plus the number of joins plus what admit-next added |
| `NobodyDropsOut` | `RoomSpec => []WaitingKept` |

The conjunction of the three is inductive together with `CallsKnown` (a call under way has a
user).  `ActiveBounded` counts the promised places because a join that has read a free place
and not yet taken it is what lets the count run over; a lapse of the counter only lowers the left
side, and `JoinRead` adds a promise only while `active < MAX_ACTIVE`, when the promises cannot be
all of the joins.

`CatalogueProofs.tla`, from the assumptions on the constants of the modules:

| theorem | says |
| --- | --- |
| `OldAccounted` | `Spec => []OldIsAccounted`, for any readers, writers, versions and deaths |
| `GeneratedWhole` | `Spec => []GenerationWhole`, for plans of every size |
| `PagerLeadsEverywhere` | `Spec => []PagerSound`, for every number of pages and every page |
| `PageIsThere` | `Spec => []PageExists`, for any lists, requests in flight, failed loads, and rows that come and go |
| `CatalogueTyped` | `Spec => []TypeOK`, the bounds of the counters included |

`OldIsAccounted` is inductive with the types: a DEL clears the key it was waited for, and a
SETEX marks the entry late unless the row is still the one it read.  `GenerationWhole` needs
`SeatingInv` (the seats before the one to insert are there), and `SeatingMove` states once what
any step of a call has to show.  `PagerSound` rests on `PagerLeads`, which is arithmetic on
`renderPageNumbers` by the four cases of its window, and on `Paging`: no filter has more than one row above its first
size (a bound of the model), so `PagesOfRows` (no more pages than rows) keeps every page in flight or on screen
within `Pages`.
`PageExists` needs `PageInv`: `CountsHold` (until a row leaves a filter, no count of its pages that was served or is on screen
is too high), the present page is one of the present filter's, and the newest reply knows of it, each but for
`stray`.  The step that matters is a click in the
pager while the reply to a change of the filter is still to come: `OfferedIsPage` says that it leads
to a page of the *old* list, and `stray` is set exactly when that is another one.
`CatalogueTyped` adds what the bounds need: `SeatingBounds` (the count a call stores is of rows
within the largest plan) and `FormBounds` (below).

`AdminFormProofs.tla`, from the same assumptions, on a page with any number of rows and requests:

| theorem | says |
| --- | --- |
| `OneRowPerDialog` | `Spec => []CreatesOnce` |
| `ScreenIsTable` | `Spec => []ShowsTable` |

Each has its inductive invariant over `Typed`, the types without the bounds on the counters.
`NewestCurrent`: rows that the newest load has read are the
table's, or some write has been made whose answer is still to come, and every answer of a write loads
the list again.  `OnceInv`: at most one save is waited for, and while it is, `saving` holds
(`OneHeard`); a dialog none of whose answers was lost has made one row at most, and once it has, its POST is
`done` and waited for, or the dialog is closed (`Sure`); a dialog not yet opened has made nothing
(`Unopened`).  `FormInvariance`, for `CatalogueTyped`, needs `FormBounds`: the rows a dialog and the others
have made are at most those no longer unused, so that `made` cannot outgrow `Rows`.

`BookingProofs.tla`, for every set of seats, calls and keys, every `PatchStatuses`, with or without
`PayEarly`, for any number of faults, from `DatabaseAssumption` (`None` is no id and no row) and
`BookingAssumption`:

| theorem | says |
| --- | --- |
| `TypeCorrect` | `Spec => []TypeOK` |
| `TicketsPaid` | `Spec => []TicketsArePaid` |
| `SeatsBacked` | `Spec => []SeatStatusBacked` |
| `OneTicket` | `Spec => []OneTicketEach` |
| `HeldSeatStays` | `Spec => []HeldStaysHeld` |
| `PaidStaysPaid` | `Spec => []PaidUnlessUndone` |
| `HeldIsRefused` | `Spec => HeldSeatRefused`, an action property |
| `FulfilmentImplemented` | `Spec => ImplementsFulfilment` |

The inductive invariant `Inv` is the five invariants, the types, and what a handler knows of the rows
it goes on to write.  `CheckoutInv` and `CancelInv` say that an order's items are among the seats asked
for, that a checkout past its INSERT has an order, and that what a cancellation has yet to reopen are
items of its order: `HeldStaysHeld` is false of a state in which it could reopen any other seat.
`ConfirmInv` and `ChargeInv` tie a `transaction_id` to a confirm past its charge, which is what
`PaidUnlessUndone` falls back on between the two UPDATEs.  `GenInv` says that a printing run works on
the items of a charged order and that what it is about to insert is not there from the other program of the same
confirm.  `TurnInv` is why: the worker's copy is at work only while its message is `delivered`, and the
message is published when the payment service's copy is done.

The proof goes by column and not by handler.  The *writers* lemmas (`SeatsWriters`, `OrdersWriters` and so on)
list once which actions change a table or a call; each conjunct is then shown for those alone.
`Kept` is what no step takes back: rows stay, with their order, seats and key, items and tickets
stay, a payment that succeeded keeps its transaction.  The refinement is one step for each of
`CheckoutItem` (a claim), `ConfirmCharge` (a charge) and `GenInsert` (an issue); every other
step stutters, `PayInsert` and `RefundPayment` although they write `payments`.

`BuyerPagesProofs.tla`, from these, `BuyerAssumption` (`None` is no status) and nothing about fairness, for
`BuyerSpec` (the run checks `FairBuyerSpec`, which is `BuyerSpec` with `BuyerFairness`):

| theorem | says |
| --- | --- |
| `PagesTyped` | `BuyerSpec => []BuyerTypeOK` |
| `SelectionOrdered` | `BuyerSpec => []OrderIsSelection` |
| `PaidShown` | `BuyerSpec => []PaidScreensTrue` |
| `SessionFound` | `BuyerSpec => []RetryFindsSession` |
| `BookingKept` | the five invariants of Booking, behind the pages |
| `PagesFulfil` | `BuyerSpec => ImplementsFulfilment` |

`BuyerInv` is Booking's `Inv` and three parts of the pages' own.  `ClicksInv`: a checkout was called with
what its click selected, under a key of its own.  `MethodsInv`: a payment has the method chosen for
it as its key, and UNIQUE makes it the only one.  `ScreensInv`: whatever the tab, the phone,
a reply on its way or a timer says of an order or a payment was true when it was read, and `Kept` says
that such things stay true, which is the whole reason why late replies do no harm.  The steps of the services
are Booking's (`ServiceNext`), so `Inv` is kept by `InvStep`; `PayEarlier` covers the one call that is none of
them, a payment for an order whose checkout has not answered.

`AccountsProofs.tla`, from `AccountsAssumption` (roles are not the words of the model for no row, a deleted row
and an expired token; tabs have the uses the pages have), for any accounts, tabs and failures:

| theorem | says |
| --- | --- |
| `TypeCorrect` | `Spec => []TypeOK` |
| `SendsOwnTokens` | `Spec => []TokensAreOfUser` |

For the second, a refresh that is in flight and not marked as an older session's brings the tokens of
the user on screen: login and logout mark all others (`Outdate`).  The types are harder than they look, because
`notes` is bounded by the failures: an account just inserted is published by the one call that
is at `inserted` for it, has no message before that, and each further WELCOME row costs a
death of the consumer.

### What the proofs changed

* `PaidUnlessUndone` let a charged order be `REFUNDED` only by a refund of that very payment, and
  `PROCESSING` only while its message was not in `dead.letter`.  Neither step could be proved: an
  order with two successful payments (`booking_two_methods`) is `REFUNDED` by a refund of either, and a
  message that was carried out, came again after a crash of the worker and then failed is dead
  although it had its effect.  The runs are too small for either; the property now allows both.
* `PageExists` was stated for a page without earlier requests in flight.  `PageInv` does not need that, so
  the property now says more.
* `OneLocker`, `NeverJoinsHold` and `SweepSparesLease` were first proved for a seat service without unlocks, deaths,
  cancellations and a second sweep.  The proof used of them only that no lease ends early and no held seat is reopened,
  which is what `holders` and `cutShort` record; so the properties now name those two and hold in any world.
* `FormTypeOK` and `SeatingTypeOK` depend on finitely many rows, and on one plan and one list being the
  largest: `AdminFormAssumption`, `SeatingAssumption` and `ListPagesAssumption` say so.  A table has
  finitely many rows, an event finitely many calls that plan its seats, and a list finitely many
  filters.  `AdminFormAssumption` and `AccountsAssumption` also keep texts and roles apart from the words
  the model uses where there is no row.

### What stays with TLC

Out of the prover's reach and left to TLC: liveness (`ExpiredLockReleased`,
`ConfirmPrintsTickets`, `ConfirmedIsShown`, `CallsEnd`, `DemotedLosesAccess`, `WelcomeArrives`,
`CachesCatchUp` and the two liveness violations), `ENABLED`, and induction over data.  The other properties of the
passing runs are theorems, all of them.

## 5. Plan

Done: SeatService with SeatHolds, Booking and Fulfilment with their first theorems; WaitingRoom, BuyerPages,
Accounts and Catalogue with theirs; the runs merged so that each asks one question of one instance.

Proved: every safety property of every passing run, the one refinement, and the action properties.

Next, in this order:

1. The composition in one theorem: SeatService with its contract for `OtherWriters`, against Booking
   with `SeatServiceHold`, which now meet in `SeatHold` by two separate theorems.
2. The leads-to chains of the fair runs, as far as their steps without `ENABLED` go: what
   the step of a fair handler does to the rank of `ConfirmPrintsTickets`.

Abstract specifications worth stating beside `Fulfilment`: a `Hold` with one owner for each
seat, which SeatHolds implements as long as holds stand, and with which BuyerPages could name
the owner of a hold; a sale with a history, for *cancel, sell again, pay late*.

## 6. Not modelled

* Rendering: home page, cards, dashboard, sidebar, flash messages, the QR code; of the admin
  pages' forms every field but one, the checks of required fields and of the order of dates (they
  send nothing), and the error text in the dialog.
* AdminForm has its rows on one page; which rows a page shows is ListPages.  A `PUT` of an emptied
  description or venue leaves the old value though the page says *saved* (`Stored` has it so; no
  document says which is meant).
* Deployment and tooling: containers (but for what `localhost` is to the worker, `SweepReached`), metrics,
  load test, seed data, the role header a caller could set on `/api/auth/`.
* Lost publishes (no publisher confirms) and reconnection of the broker client: a publish that
  returns is in the queue.
* Several events at once: the lock handler's cache invalidation for the first seat's event only
  is listed as a hazard.
* Who owns a hold, in Booking and BuyerPages: the seat service's contract has no owners, so a
  checkout over another buyer's hold is in every run but cannot be told from one over one's own.
* The event service's statistics and file upload, the lists of notifications and their marks,
  `POST /auth/logout` (it deletes rows that nothing reads and no page calls it).
* Clocks: TTLs lapse at any moment, so nothing is said about how long a cached seat list or
  a session stays old, only that it ends.
