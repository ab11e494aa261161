# OrderPlatform in TLA+

A verification project for the order platform in this repository: a NestJS
application (`src/src`) that takes orders over REST and GraphQL, keeps them in
PostgreSQL through TypeORM, processes them through RabbitMQ and has them paid
by a second application, the payments service, over gRPC.

All line numbers are of files under `src/src/` unless a path says otherwise.

## 1. The system

### Components, their state and their operations

| Component | State | Operations | Model |
|---|---|---|---|
| `POST /orders` (`orders.repo.ts:87-250`, `orders.service.ts:121-153`) | tables `order`, `order_item`, `product`, `audit_log`; row locks; the open transaction; the pool of connections | one PostgreSQL transaction, then a message | `Checkout`, `OrderStore` |
| `DELETE /orders` (`orders.repo.ts:38-85`) | table `order` and what cascades from it | delete an order | an action of `Checkout`, `Fulfilment`, `Payments`, `OrdersPages` and `Seeding` |
| Order workers (`orders.worker.service.ts`, `orders.worker.failed.ts`, `orders.repo.ts:270-297`) | `order.order_status`, `processed_message` | handle a message of the process queue, retry it, dead-letter it; handle a dead letter | `Fulfilment`, `OrderLife` |
| `RabbitmqService` (`rabbitmq.service.ts`) | one connection, one channel, three durable queues with a fanout exchange each | connect, publish, consume | `Fulfilment` |
| `POST /orders/authorize` (`orders.service.ts:53-106`, `payments.grpc.client.ts`) | the call in flight, `audit_log`, `order.order_status` | authorize with retries and a timeout | `Payments`; its effect on the order also in `Fulfilment` |
| Payments service (`payments/payments.service.ts`) | two in-memory maps | authorize, status | `Payments` |
| `ordersFiltered` (`orders.service.ts:209-259`) | `limitFirst`, one field of a singleton | a page of orders | `OrdersPages` |
| Sessions (`auth/`, `users/refreshTokens.entity.ts`, `app.controller.ts:28-55`) | table `refresh_token` | login, refresh, the guard of every request | `Sessions` |
| Files and avatars (`files/`, `users/users.service.ts`) | table `file`, the bucket, `user.avatar_id` | presign, upload, complete, read, set avatar | `Files` |
| Data loaders (`graphql/dataLoaders`) | one batch per request | load users, items, products in batches | `Loaders` |
| Seeding (`seeds/seed.ts`) | nine tables | counts, then upserts in batches of 5000 | `Seeding` |
| Migrations, HTTP shell, categories, plain reads | none of their own | | not modelled, section 8 |

### How they interact

`POST /orders` commits an order and *then* publishes its message to
`orders.process.exchange`. `OrdersWorkerService` consumes it in the same
process, sets the order to `proceed`, writes `processed_message` and
acknowledges. If that fails it acknowledges and publishes the message again
with the next `attempt`, or, past the limit, to the dead letter exchange, whose
consumer `OrdersWorkerFailed` sets the order to `failed`. Meanwhile
`POST /orders/authorize` asks the payments service and sets the order to
`payed`, and `DELETE /orders` may remove the row under everybody's feet. The
database is shared by all of them, the event loop interleaves them at every
`await`.

### What is hard about it

* Requests interleave at every `await`, and PostgreSQL's READ COMMITTED shows
  each statement what others have committed by then. Only row locks and the
  unique index on the idempotency key keep orders apart.
* The callbacks of `Promise.all` in `createOrder` share one connection: all
  SELECT ... FOR UPDATE run before the first UPDATE.
* The order and its message are two writes with nothing to tie them.
* Messages are delivered at least once, and `consume` does not await its
  handler: rejections end the process.
* Three writers set one status column without looking at it.
* A token's row, or a file's, is read before an `await` and acted on after it,
  and login writes in two statements without a transaction.
* A timed-out call may have been served; the payments service forgets
  everything when it restarts.
* A request that meets a duplicate key waits for a second connection of the pool
  while it holds its first.
* A client walks through pages of a table that changes under it, with a cursor of
  milliseconds over a column of microseconds; the page size the service computes
  with is one field that all requests share.
* The seeding Job writes nine tables without a transaction, and its later runs
  find what an earlier one left and what clients have placed and deleted since.
* Nothing validates a body (there is no ValidationPipe): ids may be missing, which
  TypeORM takes for no condition, or malformed, which PostgreSQL refuses.

`PROJECT.json` lists every hazard at its line, with the properties that would
catch it going wrong.

## 2. Modules

| Module | What it is |
|---|---|
| `OrderStore` | The promise of `POST /orders` with no transactions in sight: each request is decided in one step. |
| `Checkout` | `POST /orders` statement by statement. Implements `OrderStore`. |
| `MC_Checkout` | Bodies, stocks and symmetry for TLC. |
| `CheckoutProofs` | Its theorems. |
| `OrderLife` | What becomes of an order once it is placed, with no queues, handlers or processes in sight. |
| `Fulfilment` | Messages, workers, dead letters, payments and deletions around an order's status. Implements `OrderLife`. |
| `MC_Fulfilment`, `FulfilmentProofs` | Its instance and its theorems. |
| `Payments` | The authorize call, its client and the payments service. |
| `MC_Payments`, `PaymentsProofs` | Its instance and its theorems. |
| `Files` | Uploads through presigned URLs, and avatars. |
| `MC_Files`, `FilesProofs` | Its instance and its theorems. |
| `Sessions` | Login, refresh and the guard, over the rows of `refresh_token` and a clock. |
| `MC_Sessions`, `SessionsProofs` | Its instance and its theorems. |
| `OrdersPages`, `OrdersPagesProofs` | A walk through the pages of `ordersFiltered`, and its theorems. |
| `Seeding`, `SeedingProofs` | The seeding Job and its later runs, among clients that place and delete orders, and its theorems. |
| `Loaders` | The batch functions of the data loaders, as operators. |
| `Storefront` | The three together: pages of the orders that the Job and the application placed, with the loaders' results for them. |
| `MC_Storefront`, `StorefrontProofs` | Its instance and its theorems, those about the loaders included. |

`Files` and `Sessions` share no table with the order modules and stand alone.

Operators named in a comment as a *seeded fault* are not part of any
specification. Each is a plausible mistake in the definition that follows it,
and a property of the runs must catch it (`PROJECT.json`, "mutants").

### Checkout

A request's `pc` names the statement its handler awaits next:

| `pc` | code (`orders/orders.repo.ts`) |
|---|---|
| `idle` | BEGIN and the user (89-112): `FindUser`, `UserNotFound` |
| `lookup` | the order under the idempotency key (115-120): `FindExisting`, `FindNoExisting` |
| `insert` | the INSERT of the order (126-131): `InsertOrder`, `InsertRefused`, `InsertDuplicate` |
| `reread` | the original of a duplicate, on another connection (150-152): `Reread` |
| `locking` | `line` counts the SELECTs of the products (156-162): `LockLine`; then `Refuse`, or `Commit` for the UPDATEs, the items, the audit row and COMMIT (181-248) |
| `failing` | a failure row is in the transaction, ROLLBACK follows: `Rollback` |
| `publish` | `OrdersService.createOrder` (130-153): `PublishAndAnswer`, `PublishThrows` |

`stock`, `live` and `audit` are what is committed, `pending`, `lockedBy` and
`draft` what an open transaction holds and its end releases. `placed` is a
history variable.

A transaction holds one connection of the pool from BEGIN to its end (`Holders`),
so beginning one, a deletion's included, takes a free connection
(`ConnectionFree`). `reread` is the one place where a handler that holds a
connection asks for another: `orderRepository` is not the transaction's manager.
If every connection were held by such a handler, nobody could go on.
`PoolNeverStarves` says that this does not happen, within one process: for each
key there was an original, whose transaction took a connection of the same pool
and was still open when the duplicates passed their lookup.

The UPDATEs, the INSERT of the items and COMMIT are one step, because nobody
can tell them apart: the rows they write are locked by then or invisible to
others. `StatementFails` covers a failure of any of them, and
`CommitUnacknowledged` the loss of COMMIT's answer. Two more things are
PostgreSQL's: an INSERT of a key that is inserted but not committed waits
(`KeyHolders`), and a cycle of waits loses a victim (`DeadlockVictim`).

TypeORM drops a condition whose value is `undefined`. A body without an
idempotency key therefore finds *any* order, and a body without a user any
user; `Matches` and `UserFound` say so. The INSERT of such a body fails on the
NOT NULL columns.

What is abstracted: addresses, names and prices; the pause of half a second
before the INSERT; that `deleteOrder` finds its order and then removes it in two
statements, so that two deletions of one order may both write a success row. A
line without a product id is not modelled.

### OrderStore

In one step a request *places* its order and takes its whole demand from the
stock; or *returns* a live order with its key (any order, if it has no key); or
is *refused* for a reason that holds at that moment; or *gives up* with a 500 or
with nothing. A verdict may turn into a 500 before it is delivered. Three
weaknesses of the code are part of the promise and stand in its comments: 500
does not mean that nothing was ordered; a body without a key may get somebody's
order; and an original that was deleted meanwhile is answered as 201 without an
order (`"Nothing"`). One is not: a body that names a product twice. The
refinement assumes `OneLinePerProduct`, and `checkout_oversold` shows why.

### Fulfilment

`phase[m]` says how far a message has come: `owed` (its order is committed, it is
not published), `ready` (in its queue), the awaits of a handler (`finding`,
`checking`, `writing`, `acking`), `acked` (acknowledged, to be published again),
`done`, or `lost`. `queue[m]` is the queue it is in, so one set of actions
serves both workers, and they differ where the code differs: in the status they
write, in the simulated error, and in `Catch`, which only `OrdersWorkerService`
has.

`updateOrderStatus` is three steps: it reads the order (275), looks the message
up (282) and writes (286-296). The lookup asks for a `processed_message` whose
generated primary key is the message's id. `GeneratedId` stands for such a key
and differs from every order, so `AlreadyHandled` is never true. That is the
code's behaviour, and `fulfilment_payed` shows what follows from it.

`Die` is the end of the process: by a crash, by a rejection nobody awaits (a
dead letter of a deleted order, an acknowledgement on a closed channel) or by a
failing statement in `OrdersWorkerFailed`. Unacknowledged messages are ready
again, publications that had not left are lost. The Deployment in
`src/manifests/app-deployment.yaml` restarts its container (`Restart`);
`src/compose.yml` has no restart policy for the application, so there nothing
would.

`ChannelCloses` is a connection closed by the broker. The process stays up, its
channel stays closed. `AuthorizeAnswered` stands for all of `Payments`: the call
comes back with a payment or does not. `Payable` are the orders somebody may
authorize.

### OrderLife

The life of an order for somebody who sees neither queues nor processes. Each
message is `unused`, `away` (only some process's memory has it), `pending` (the
broker keeps it), `settled` or `lost`. A pending message sets its order's status as
often as it likes (`Handle`), to `failed` if it is dead and to `proceed` if not. If
it fails (`Fail`) it is away again, and on the failure after `MaxAttempts` others,
never before, it is away as a dead letter. It is settled (`Settle`), but never while
its order is still `created`. Only what is away can be lost (`LoseSome`, `Place`);
what the broker keeps stays pending, whatever process, channel or statement fails.
Payments and deletions come in between.

`Fulfilment` maps its phases to these fates with `FateOf`: redelivery, the channel
and the place in a queue are gone, and every step of `Fulfilment` is one of these
or a stutter. An implementation that lost a delivered message, or dead-lettered one
too early, would be neither. Two weaknesses of the code are part of this promise:
`Handle` does not ask what the status was, and messages do get away: a new one before
its first publication, a failing one between acknowledgement and republication.

### Payments

`phase[c]` is where the handler of a call stands, `retries[c]` how often the
client has sent its request again, `wire` the requests that have not reached the
payments service, late ones of abandoned attempts included. `got[c]` is the
answer to the *current* attempt only: the client has unsubscribed from the
others. `TransientError` and `TimesOut` need no loss and no delay to have
happened; they may come at any time. rxjs' timeout is not an error the client
retries. A restart of the payments service empties both maps; `paidFor` and
`issuedIn` remember what was issued, and by which run of the service.
`getPaymentStatus` reads one of the maps, and `StatusAnswers` are the answers of
`POST /orders/paymentStatus`: what it returned, or 404 after any error.

`OrderOf[c]` is what the body brings: an order's id, nothing (`NoId`) or something
that is no UUID (`BadId`). The first lookup (`orders.service.ts:57`) stands before
the try, so when PostgreSQL refuses the id, or fails, nothing answers the call
(`LookupRejects`). Without an id it finds any order (`Finds`) and the call goes on:
its idempotency key is empty, which the payments service never looks up (`Known`), so
each of its requests that arrives is a new payment, and the status is written to no
row (`MarkPayed`). `OnePaymentPerOrder` is therefore about orders, and
`EveryCallEnds` says who may be left unanswered: nobody but for a malformed id or a
failing database.

### Files

`status`, `owner` and `avatar` are columns, `stored` is the bucket, `urls` the
presigned URLs clients may still use. The client's PUT (`Upload`) needs nothing
of the application, so it may come at any time or never.

| `pc` | code |
|---|---|
| `signing` | the row is saved, the URL is signed next (`file.service.ts:111-116`) |
| `fetching` | `getFileById` (`file.service.ts:21-45`) |
| `finding`, `heading`, `completing`, `rereading` | the four awaits of `completeUpload` (`file.service.ts:48, 61, 63, 71`) |
| `checking`, `choosing` | `setAvatarId`: the reads (`users.service.ts:21-43`) and the UPDATE (45) |

A HEAD request throws for a missing object as for an unreachable bucket, so
`HeadObject` answers 500 in both cases. `setAvatarId` reads the user, who is
never removed, and the file: one step. An error that is no HttpException is
left unanswered by the exception filter (`FailsUnanswered`), except in
`setAvatarId`, which turns it into a 500 (`AvatarFails`). `FileIds` bounds the
uploads.

`about[r]` is the id the request brings, `file[r]` the row its handler has found.
They differ for a body without `fileId` (`NoId`): the lookup finds any row (`Finds`),
and if that is one of the user's own the handler goes on, but what it writes is the
id it was given. An absent one leaves the avatar alone, `null` clears it (`Chosen`),
and the UPDATE of the status matches no row; yet the answer tells a completed file.
A malformed id (`BadId`) fails the lookup. So an answer is true of the row found, and
not always of the avatar (`ChecksOutlastAwaits`).

### Sessions

A token is the pair of its user and the second it was signed in: that is all a
JWT of this application differs by, and the refresh token is its hash. `row` and
`created` are the table, `given` the tokens clients hold.

| `pc` | code |
|---|---|
| `validating` | `LogInStrategy`, `validateUser` (`auth.service.ts:19-28`) |
| `looking`, `admitting` | the guard's reads and its decision (`jwt.strategy.ts:34-40, 41-58`) |
| `lookingAgain`, `admittingAgain` | the same again: the guard is global (`orders.module.ts:72`) and named by `POST /auth/refresh` too (`app.controller.ts:42`) |
| `exchanging`, `weighing` | the row of the refresh token, and what is made of it (`auth.service.ts:51-63`) |
| `revoking` | the UPDATE of a refusal (64-67) |
| `clearing`, `inserting` | the UPDATE and the INSERT of `login` (34-42) |

The clock ticks between any two steps; `AccessLife` and `RefreshLife` stand for
one day and ten. `before[r]` is a history variable: the active rows of the
user when `r` arrived. A body is described by its two fields `refreshToken` (read
by `refreshToken()`) and `refresh_token` (read by the guard).

Overlapping logins may leave several active rows and overlapping refreshes of one
token may both succeed, so the properties say what does hold: what was
deactivated before a request arrived is of no use to it (`StaleIsRefused`), who
is answered has ended the sessions from before (`SessionsEnd`), and nothing
brings a row back (`EndedForGood`).

### OrdersPages

One client walks: each request (`Ask`, `Count`, `Fetch`, `Answer`) carries the
cursor of the answer before, until an empty page ends the walk with a TypeError
(`AnswerThrows`). `stage[o]` says whether an order is in the status asked for, in
another one, not placed yet or deleted. `Insert` gives it any `created_at` up to now,
as its transaction may have begun earlier; `Change` moves it between the two statuses,
back and forth as workers and payments do; `Drop` deletes it. A page holds the rows
as they were read, `<<createdAt, id>>`, whatever becomes of them later.
`Milli` cuts a time to milliseconds: the cursor and the default `dateTo` are Dates,
the column is not. Other clients' requests change `limitFirst` at any moment
(`AskElsewhere`); `disturbed` remembers that one did.

`steady` are the orders of the walk's first result that have stayed, `cuts` the
milliseconds of the cursors given out. An order of `steady` is shown or lies in one
of `cuts` (`OnlyCutsAreMissed`): the comparison with a cut cursor skips the orders
placed in the rest of its millisecond. Among orders
of the seeding Job, which have whole milliseconds, none is skipped.

`countOfPages` is computed from the count and the shared limit. As the code counts,
the pages told have room for every order and the last one is never full, which is
one page too many when the orders fill their pages (`ToldPagesFit`). These pages have
the length of the limit set *last*. A request that was disturbed is therefore told a
count that does not fit its own page, which always has the limit it asked for; the
property says both, and that the two limits are one unless another request came in
between.

Modelled for limits that are positive integers and a filter without `dateTo`.

### Seeding

`rows` holds, for each table, pairs of a run and a number: a row with a fixed id
has run 0 and is rewritten by later runs, the others get fresh ids. One step is
one upsert. A run may die at any of them (`JobFails`), and the unique index on
`scope` refuses the scopes of a second run (`UpsertRefused`), so that a run that
died after the scopes can never be made good by another (`RolesFollowScopes`). Only
a run that finds every table non-empty, or writes all nine, ends well
(`SeededIsComplete`, which does not count what clients deleted).

Once a user has a role (`Open`), clients place orders and delete them (`PlaceOrder`,
`DeleteOrder`), before a later run, between its counts and among its batches. A
deletion takes the items with it, by the cascade, so it can empty `order`, or
`order_item` alone if the orders left have no items (`Bare`). The next run then counts
0 and writes again: users, categories and products get their first values back, so
`sold` stock is there again, and `order` and `order_item` get new rows; a client that
deletes one of these before its items come makes the foreign key refuse them
(`Violates`). At the scopes such a run is always refused. `SeededOnce` says just
that: with users' roles there, only `order` and `order_item` get or lose rows, and
sold stock comes back only after all orders, or all items, of some run were deleted.
`gone` remembers what was.

`seed.ts:463` never advances its loop's variable; `start` does, and `flag` ends the
loop. A length that is a multiple of the batch gives a last upsert of no rows. What is
abstracted: the rows' contents, and three orders of the seed with fixed ids
(`seed.ts:336-370`), which are taken for ordinary ones.

### Loaders and Storefront

A batch function is an operator from the keys and the rows found, in any order, to
one result per key. `LoadedAreAligned` tries each page the walk can have in hand and
each order of the rows that are left of it and of its items.

In `Storefront` the two modules share the table `order`: what the Job or a client
inserts there appears to the walk, each row with a `created_at` of its own
(`Appear`), in the step in which the table gets it, and a deletion is one step of
both (`ClientStep`). `TablesAgree` states that the walk can see exactly the rows that
were inserted and not deleted since. A user needs a role to walk, and so needs whoever
changes a status (`WalkStep`), so the first walk begins after the first complete run;
the second run may be at work meanwhile.

## 3. Runs

| Run | Instance | What it shows |
|---|---|---|
| `checkout_contending` | 3 requests, 2 products, 9 bodies, symmetric requests; 359 thousand states | Whatever the interleaving, the failures, the crashes and the deletions: the stock stays exact, and `POST /orders` implements `OrderStore`. |
| `checkout_live` | 3 requests, 2 products, 2 connections, 3 bodies, one with a repeated product; 275 thousand states | Every request ends, requests never all wait for what nobody will let go of, the pool never starves, and the stock stays sound for repeated products too. |
| `checkout_oversold` | 2 requests; violation | A repeated product is sold more often than there is of it. |
| `fulfilment_faults` | 2 orders, 2 messages, all faults, with and without simulated errors, 1 order that may be deleted and paid; 126 thousand states | The safety of the workers, the refinement of `OrderLife`, and that messages and orders are decided once the process stays up. |
| `fulfilment_payed` | 1 order, 2 messages; violation | `payed` is overwritten. |
| `fulfilment_crash` | 1 order, 1 message, crashes; violation | An order committed before a crash is never processed. |
| `payments_faults` | 2 calls about one order, 1 without an order id, 1 retry, 1 restart; symmetric; 2.0 million states | One payment per order and run of the service, whatever is repeated, late or lost, and its status for as long as that run. |
| `payments_live` | 3 calls, with an order id, without and with a malformed one, 1 retry, 1 restart, lossy network, crashes; 746 thousand states | Every call ends, and only the malformed one without an answer. |
| `files_faults` | 4 requests, 2 users, 2 files, ids missing or malformed, all faults; symmetric; 831 thousand states | An avatar is a ready file of its user with its object in the bucket. |
| `sessions_faults` | 3 requests, 2 users, 3 seconds, all faults; symmetric requests; 368 thousand states | Ended sessions stay ended and of no use. |
| `sessions_expired` | 2 requests, 1 user, 3 seconds; violation | The refresh of an expired access token is turned away. |
| `storefront` | 2 runs of the Job, batches of 2, 1 order and 2 items each, 1 order of a client, deletions, limits 1 and 2, times 0 to 3 of which 2 make a millisecond; 1.1 million states | No order twice, none missed but at a cut, results that belong to their keys, no seeding that passes for complete and is not, and no second one but for emptied tables. |

`LocksHaveOpenTransaction`, `AcknowledgedMeansHandled` and `FailedWasDeadLettered`
are checked as parts of their modules' `SafetyInv`, `DeletedStaysDeleted` as a
consequence of `ImplementsOrderLife`; section 5 has a theorem for each.

### Bounds

* **Requests and products.** Two products and two orders over them are the
  least cycle of row locks; the third request repeats a key or takes what the
  others compete for. The stock (2 and 1) covers some of the requests and never
  all. The bodies hold each case the code distinguishes: a stranger, a product
  that is not listed, no lines, a negative quantity, no key, no user, one key in
  two bodies.
* **`PoolSize`** is 3 where it must not be felt, and 2 in `checkout_live`, where
  three requests with one key compete for two connections.
* **Messages.** Two messages let one order be published twice (a repeated
  request) or two orders be handled side by side.
* **`MaxAttempts` = 1** gives a retry and a dead letter. `AttemptCap` bounds
  `attempt` and is above `MaxAttempts` by assumption, so it is never felt when a
  limit is configured; the attempts at a dead letter do not count.
* **`MaxRestarts`** bounds the restarts of the payments service, and
  `PaymentIds` has one id for the order in each run of the service and one for each
  attempt of the call without an id, which is as many as the code can issue.
* **Files.** Two uploads, completed or chosen by two more requests, let two
  avatars compete, and a second user ask for a file of the first.
* **Seconds.** `AccessLife` 1, `RefreshLife` 2 and a clock that stops at 2 let an
  access token expire before its refresh token, the refresh token grow too old,
  and two logins fall into one second or two. Three requests are a login, its
  refresh and one that overlaps or follows it.
* **Storefront.** Batches of two rows: one row for most tables, three products, which
  take two batches, two items, which fill theirs exactly. Two runs of the Job are one
  that dies or is complete and one that follows it, into tables that clients may have
  emptied. Each has one order, a client another, and the ids of the three are in no
  order that time gives. The walk asks for pages of two, others for one, so that there
  are full pages, a last page that is not, a shared field that changes, and two orders in
  one millisecond around a cut. `StartTime` and `MaxTime` leave one tick during the walk
  and two milliseconds before it.
* **Symmetry** is used only in runs without liveness. The requests are
  interchangeable because every request may carry every body, payment ids, users
  and files because the code only compares them.

Deadlock is checked in every run but `storefront`. There the Job's last run may have
failed, and then nothing may happen any more. In the others, a run that has nothing
left to do stutters in `Quiescent` or `Idle`, which state exactly that.

### Fairness

* `Checkout`: weak fairness of each started handler's steps, as the event loop
  never abandons a handler and PostgreSQL answers every statement, and of the
  deadlock detector. Clients owe no requests. Weak fairness suffices for lock
  waits here: a waiting step stays enabled once its holder is gone, until somebody
  else takes the row, and there are finitely many others.
* `Fulfilment`: weak fairness of every message's steps (event loop and broker),
  of the authorize handlers and of `Restart`. `EveryOrderIsDecided` speaks of
  behaviours in which the process finally stays up, `RetriesEnd` and
  `DecidedUnlessLost` of those in which its channel does, too (`StaysUp`): nothing
  in the code opens a channel again. Crashes, failures and deletions are never
  owed, and failing statements may go on for ever.
* `Payments`: weak fairness of each started handler's steps, its timers included.
  Nothing is assumed of the network or of the payments service: that is the point of
  `EveryCallEnds`.
* `Storefront`: weak fairness of a running Job's statements (`SeedStep`, with respect to
  `seedVars`: the walk's steps do not count as the Job's). Nobody owes a request, a
  deletion or another run.

## 4. Where the code and its documents disagree

Each of these is a run that must end in a violation, with the line it
contradicts in `PROJECT.json`, "findings".

1. **A product named twice is oversold** (`orders.repo.ts:181`). Both lines read
   the same quantity before either writes it.
2. **`payed` does not last** (`orders.repo.ts:282`). A late or repeated message
   overwrites it.
3. **A crash between commit and publication** (`orders.service.ts:129`) leaves an
   order `created` for ever, unless its client repeats the request.
4. **An expired access token is not exchanged** (`jwt.strategy.ts:51`). The guard
   wants a field `refresh_token`; the handler, its DTO and the Postman collection
   have `refreshToken`, and only a body with both gets through.

Others are in the models without a run of their own:

* The failure rows of refused orders (`orders.repo.ts:105, 172, 196`) are part
  of the transaction that the next statement rolls back (`Rollback`): no refusal
  is ever audited.
* A dead letter of a deleted order ends the process, and again at every
  redelivery, as `rabbitmq.service.ts:140` does not await its handler (`Die`).
* "Payment not authorized" (`orders.service.ts:102`) may follow a payment that
  was authorized, when the call times out late (`Fail`).
* With a database fault the failure row of `authorize` cannot be written, and the
  exception filter leaves the request unanswered (`InsertFails`). So it does, without
  any fault, when the `orderId` is no UUID (`orders.service.ts:57`, `LookupRejects`);
  `completeUpload` and `getFileById` are no better (`FailsUnanswered`).
* `authorize` without an `orderId` pays: the lookup finds any order, and the empty
  idempotency key is not looked up (`payments.service.ts:24-26`, `Known`), so that each
  attempt that arrives is a payment of its own (`Finds`, `Authorize`).
* A body without `fileId` completes nothing and is answered with some completed file,
  or clears the avatar if the field is `null` (`file.service.ts:48-71`, `Chosen`).
* A closed channel is never opened again (`ChannelCloses`).
* `src/.env.example:33` sets `RABITMQ_MAX_ATTEMPTS`, the code reads
  `RABBITMQ_MAX_ATTEMPTS`: a process with that environment has no limit
  (`MaxAttempts = Unset`) and retries for ever; `src/compose.yml` hands down an
  empty string, which is a limit of 0.
* A payment that was answered is unknown after the payments service restarts
  (`Restart`).
* The catch of `setAvatarId` swallows its own HttpExceptions: a refused avatar is
  answered 201 with nothing (`CheckFile`), where `users.controller.ts:22-26`
  documents "Avatar was set".
* A missing file gets 403 from `complete`, never the 404 of `file.service.ts:58`
  (`FindFile`), a missing object 500, never the 404 of `file.service.ts:88`
  (`HeadObject`).
* A login in the same second as another of its user signs the same token: the
  unique index refuses it after the UPDATE, so the request is unanswered and the
  other's session has ended (`InsertRefused`).
* `ordersFiltered` declares a page with a cursor; its answer to an empty page is a
  TypeError (`orders.service.ts:247`, `AnswerThrows`), and its `countOfPages` is one
  too many for orders that fill their pages (`CountOfPages`).
* With the loaders an order shows one item, whatever it holds
  (`data.loader.ts:40-46`, `LastIn`); with any other `STRATEGY` it shows them all
  (`order.resolver.ts:75-80`).
* A payment's status is 404 "not found" after any error, timeouts included
  (`orders.service.ts:113-118`, `StatusAnswers`).
* A seeding run that died after its scopes wedges the next ones
  (`UpsertRefused`), and the orders and items it wrote stay beside those of the
  next run.
* A seeding run after clients have deleted all orders puts the products' first
  quantities back, with all that was sold since, and then fails at the scopes
  (`seed.ts:427-449`, `SeededOnce`).

## 5. What is proved

The theorems hold for every value of the constants: any number of requests,
products, bodies, orders, messages, calls, retries, users, files and lifetimes. They rest on the
named assumptions of the modules, which say that names are distinct, that
bodies are sequences of lines with integer quantities, that the stock starts at
natural numbers, that the sets of requests, orders and items are finite (rows and
requests are), and that bounds are natural numbers. Every safety invariant and
every action property of a passing run has a theorem.

| Theorem | Statement |
|---|---|
| `CheckoutProofs!Safety`, `OneLive`, `LocksEnd`, `CurrentReads`, `AnswersPublished`, `StockNeverNegative` | `Spec => []SafetyInv`, and of its parts `OneLiveOrderPerKey`, `LocksHaveOpenTransaction`, `ReadsAreCurrent`, `AnsweredOrderIsPublished`, `NonNegativeStock` |
| `CheckoutProofs!Refusals` | `Spec => []RefusedLeavesNoTrace` |
| `CheckoutProofs!StockMoves` | `Spec => StockMovesWithOrders` |
| `CheckoutProofs!Refinement` | `OneLinePerProduct => (Spec => ImplementsOrderStore)` |
| `CheckoutProofs!Pool` | `Spec => []PoolNeverStarves` |
| `CheckoutProofs!Counted` | `Spec => []StockIsCounted`: for any bodies, the stock that is gone is the last line of each product, once for each order placed |
| `CheckoutProofs!ExactStock`, `SoldIsThere` | `OneLinePerProduct => (Spec => []StockIsExact)`, and `[]NeverOversold` |
| `CheckoutProofs!NeverStuck` | `Spec => []NobodyIsStuck` |
| `CheckoutProofs!NoHandlerGoesBack` | `Spec => []` each request's `Rank` is at most `Len(lines) + 6`, and `HandlersAdvance`: every step raises some request's rank, or deletes an order, and lowers none |
| `CheckoutProofs!OnlyCommitted` | `Spec => PublishesCommitted`: messages are published for committed orders only, one at a time |
| `FulfilmentProofs!Safety`, `Processed`, `Acknowledged`, `Exhausted`, `Failed` | `Spec => []SafetyInv`, and of its parts `ProcessedMatchesStatus`, `AcknowledgedMeansHandled`, `DeadLettersAreExhausted`, `FailedWasDeadLettered` |
| `FulfilmentProofs!DeletedForGood` | `Spec => DeletedStaysDeleted` |
| `FulfilmentProofs!Refinement` | `Spec => ImplementsOrderLife` |
| `FulfilmentProofs!RetriesAreFinite` | `MaxAttempts # Unset => (Spec => ...)`: a message's `Rank` is at most `8 * MaxAttempts + 15`, and every step of a message in a process that stays up raises it |
| `PaymentsProofs!Safety`, `OwnPayment`, `Authorized` | `Spec => []SafetyInv`, and of its parts `PaymentsAreForTheirOrder`, `PayedWasAuthorized` |
| `PaymentsProofs!NoDoublePayment` | `Spec => []OnePaymentPerOrder` |
| `PaymentsProofs!StatusLasts` | `Spec => []StatusLastsARun` |
| `PaymentsProofs!CallsAreFinite` | `Spec => ...`: a call's `Rank` is at most `2 * MaxRetries + 7`, and every step of a call raises it |
| `FilesProofs!Safety`, `Showable` | `Spec => []SafetyInv`, `Spec => []AvatarIsShowable` |
| `FilesProofs!AvatarChanges` | `Spec => OnlyItsUserChangesAnAvatar` |
| `SessionsProofs!Safety`, `StaleRefused`, `SessionsAreReplaced` | `Spec => []SafetyInv`, `[]StaleIsRefused`, `[]SessionsEnd` |
| `SessionsProofs!EndsForGood` | `Spec => EndedForGood` |
| `OrdersPagesProofs!PagesSafety`, `ShownOnce`, `MissedAtCuts`, `PagesFit` | `PagesSpec => []PagesInv`, `[]NoOrderTwice`, `[]OnlyCutsAreMissed`, `[]ToldPagesFit` |
| `SeedingProofs!SeedSafety`, `SeededCompletely`, `RolesWithScopes` | `SeedSpec => []SeedInv`, `[]SeededIsComplete`, `[]RolesFollowScopes` |
| `SeedingProofs!WrittenOnce`, `RunsAreFinite` | `SeedSpec => SeededOnce`, `SeedSpec => RunsAdvance`: a run goes from table to table and from batch to batch, never back |
| `StorefrontProofs!StorefrontSafety` | `Spec => []StorefrontInv` |
| `StorefrontProofs!WalkInStorefront`, `JobInStorefront` | the properties of the walk and of the Job, of the two together |
| `StorefrontProofs!LoadersAlign` | `Spec => []LoadedAreAligned` |

**Checkout.** `SafetyInv` is inductive. `NonNegativeStock` holds because a
commit writes what was read minus a quantity that was compared with it, and
`ReadsAreCurrent` says that what was read is still the committed stock.
That in turn needs `LocksHaveOpenTransaction` (whoever changes a product holds its lock)
and `PendingIsOpen` (locks are held by transactions with an order row). The
properties of answers need `PlacedIsDecided`, `VerdictMatchesPhase` and
`RowsAreInsertable`. `NextSteps` gathers the actions that end in
`AbortWithServerError` or `ApplyAndCommit`, so that each preservation lemma
(one per conjunct, one step per action) treats them once. In the refinement a
handler's decision is `OrderStore`'s step and the rest stutters; `CommitPlaces`
and `RefuseIsJustified` use `ReadsAreCurrent` to turn what the handler read into what is
in stock. `LastLineOf` is a CHOOSE of the last of finitely many lines:
`LastLineExists` shows it exists, from the well-foundedness of the naturals.
`PoolNeverStarves` rests on `PoolInv`, which counts the `Doomed`: those that read a
duplicate and those that will, having passed their lookup before the original
committed. They grow only in a commit, and the committer, who held a connection
himself, is not among them, so they are fewer than the connections.

*The stock.* What left the stock is a sum over the orders placed, and
`SumFunctionOnSet` is a recursive function over the subsets of a set. The provers
cannot use an induction theorem whose argument is a predicate, but they can use a
set: `SetInduction` says that a set of numbers with 0 and all successors is `Nat`,
and the lemmas from there to `SumIsTotal` apply it to the set of cardinalities for
which a claim holds. They show that the sum exists, does not depend on the order
in which it is taken, and grows by a new member's value. A commit writes the *last*
line of each product, so `StockIsCounted`, the inductive form, counts that line
(`Taken`) and needs nothing of the bodies; `TakenIsDemand` turns it into the
order's demand when a product is named once. `SoldIsThere` says that the
disagreement of `checkout_oversold` is the only one of its kind: repeated lines
are all that oversells.

*Deadlocks.* Who cannot go on waits (`WhoWaits`) for a transaction that is open, by
`PendingIsOpen` and `LocksHaveOpenTransaction`, or for the pool. So either a set of
requests in which everybody waits for another has, being finite, a part that is a
union of cycles (`CycleExists`: the smallest part that is closed under waiting),
and the detector has its victim; or only readers of duplicates are left, and
`PoolInv` has a connection for one of them.

*Ends.* `Rank` numbers the statements a handler has behind it. That no step lowers a
rank, that each raises one, and that somebody can always go on, is all of
`EveryRequestEnds` but the fairness: with at most `Len(lines) + 6` steps for each
request and one deletion for each order, there is no room for endless waiting.
`RetriesAreFinite`, `CallsAreFinite` and `RunsAreFinite` are that part of
`RetriesEnd`, `EveryCallEnds` and `EveryRunEnds`. The first needs
`DeadLettersAreExhausted`, without which an attempt need not be a new one.

**Fulfilment.** `ProcessedMatchesStatus` and `FailedWasDeadLettered` both need
`MessagesFollowOrders`: whoever writes is a message of an order that was placed,
and a message that is about to be acknowledged has written already. `StepShapes`
names the few shapes of steps the handlers' errors can take. In the refinement a
worker's write is `Handle`, with whatever its caller loses after it, and an
acknowledgement for good is `Settle`, which needs `AcknowledgedMeansHandled`;
`MessageGoesOn` gathers the steps that change no fate, `MessageArrives` the
publications, `CatchFails` is where a failure becomes a retry or a dead letter, by
`Exceeds` and `DeadLettersAreExhausted`, and `DeathLoses` are the steps in which the
process dies with what is away and with nothing else. `PayersMayPay` is the one
invariant added: an authorize handler is under way only for a `Payable` order.

**Payments.** `OnePaymentPerOrder` needs `MapsAgree`: the payments recorded are
exactly those of this run of the service, and the key map returns each for its
order. So a payment is issued for an order only where this run has issued none; those
of calls without an order are outside the claim. `PhasesFollowPayments` also says that
a call with a malformed id sends nothing.
`PayedWasAuthorized` needs `PhasesFollowPayments`: past the call only with a
payment, past the audit only with a success row.

**Files.** `AvatarIsShowable` needs `ChecksOutlastAwaits`: a request that is
about to write an avatar has found a file of its own user that is ready, or about
to be, with its object in the bucket, and the id it writes is that file's, if it
brought one (`ChosenIsFound`: else the avatar stays or goes). What a request checked
stays true while it awaits because of `FilesLast`: rows, ready files and objects only
accumulate.

**Sessions.** `StaleIsRefused` and `SessionsEnd` need `Guarded` (what the guard
or the exchange reads active was active on arrival) and `Replacing` (who inserts
has deactivated what was there on arrival). Both survive the steps of other
requests by `RowsLast`, the body of `EndedForGood`: a row is inserted once and
then only deactivated. The case that needs care is a refresh within the second
its token was signed in: it signs that very token again, and only the unique
index (`InsertRow`) keeps the old row inactive.

**OrdersPages.** `PagesInv` relates the walk to its cursor: what was shown is not
`Past` it (`ShownIsBehind`), so it is not in the next result either, and what
remains to be shown is past it, on the page, older than all of the page, or cut off
(`SteadyIsCovered`). `ToldPagesFit` needs `LimitIsOwn`, the other half of `PagesInv`,
for the limits and the page's length, and `CountOfPagesIs`: the two cases of the code's
formula are one, the quotient rounded down and one more. Three
lemmas carry the cursor over an answer: neither the page (`LastIsBehind`) nor what was
shown before (`ShownStaysBehind`) is past the new cursor, and what is older than the
page is past it or shares its millisecond (`AfterLast`). The order `Newer` must be total
and agree with `Past` but for the cut: that is where an id alone, or a time alone,
would fail.

**Seeding.** `InOrder` says how far a run has come: the tables before `at` are
complete, the current one up to `start`, but for what clients deleted. With `OwnScopes`
a run past the scopes has found none but its own, so what is in `user_role`, the last
table, was written by whoever wrote the scopes, and all else is complete
(`RolesComeLast`). `ItemsHaveOrders` is the foreign key. For `SeededOnce` a run that
upserts while users have roles is either in its last table, which is what let the users
in, or it began after that. In the second case every table it counted empty is one that
clients emptied (`EmptyByClients`: it had been complete), it stands before the scopes
(`AgainStops`), and what it writes to tables with fixed ids is there already
(`AgainForClients`).

**Storefront.** Its own spec is neither that of `OrdersPages` nor that of `Seeding`, but
implies `SeedSpec` (`SeedingAlone`), and each of its steps is one of `PagesNext` or a
stutter, by `OneTable`: under `TablesAgree` the rows inserted are orders the walk has
not seen (`AppearInserts`), and the row deleted is one it can see. So `PagesInv` and
`SeedInv` are invariants of the whole, and the theorems of the two modules hold in it. The
loaders need `TablesAgree` for what is left of a page; beyond that `LastInFinds` says what a Map built from rows in any order returns for a key, by
`FoundAll` (a sequence of all members of a finite set, each once, misses none) and
`LastPosition` (a bounded set of positions has a last one).

**Only model-checked:** the liveness properties (`EveryRequestEnds`, `RetriesEnd`,
`DecidedUnlessLost`, `EveryCallEnds`, `EveryRunEnds`), as fairness and ENABLED are
outside the prover's reach; the ranks above are what of them is proved. That
`EveryOrderIsDecided`, `PayedStaysPayed`, `NeverOversold` (for repeated lines) and
`ExpiredIsExchanged` fail is shown by their runs.

## 6. Running it

`tlc -config Checkout_contending.cfg MC_Checkout` (and so on, see
`PROJECT.json`, "runs") checks a run, `tlapm CheckoutProofs.tla` the proofs.

## 7. What could follow

Of the plan this project started from, the connection pool, the pages, the loaders,
the seeding, the payment status and the abstract life of an order are in the
modules above. What remains:

1. One table of orders under `Checkout`, `Fulfilment` and `Payments` together. Each
   now states what the others do to it as actions of its own (`DeleteOrder`,
   `AuthorizeWrite`, `Delete`, `PlaceOrder`, `Change`), and the product of the three is beyond what TLC
   can search. `OrderStore` and `OrderLife` are the specifications to compose:
   they share `live` and `status` and little else. `OnlyCommitted` is a first piece:
   what `Fulfilment` assumes of the messages it begins with.
2. An abstract specification of `POST /orders/authorize` that `Payments` implements,
   and that stands behind `Fulfilment!AuthorizeAnswered`.

## 8. Not modelled

* **Migrations**: generated DDL. The constraints it creates (the unique keys, NOT
  NULL, the cascades) are in the modules that meet them.
* **HTTP shell, configuration, interceptor, health check**: no state
  of their own. The exception filter is in `Payments` as far as it decides
  whether a request is answered.
* **Categories, products, users**: empty services and plain reads.
* **`domain.events.queue`**: declared, never written or read.
* **Other limits and filters of `ordersFiltered`**: a limit of 0, which divides by
  zero, a negative or fractional one, which PostgreSQL refuses, and an explicit
  `dateTo`, which only makes the result smaller and is the same in each request.
* **The other resolvers**, which are plain reads, and what the seed's three orders with
  fixed ids would do to a later run: their upsert writes them again unless it is refused.
* **The audit rows of deletions**, and that `deleteOrder` finds and removes in two
  statements.
* **`onModuleDestroy`** (`rabbitmq.service.ts`): the end of a process, which
  `Fulfilment` has as `Crash`.
* **Roles, throttling and users**: no code but the seed changes roles or users, and
  a throttled request reaches nothing that is modelled.
* **TypeORM, PostgreSQL, RabbitMQ, gRPC and rxjs themselves**: modelled by what
  the code sees of them, as said above.
