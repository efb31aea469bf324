# A verification project for the agent/real-estate backend

The repository is the API of a property marketplace: Express handlers over
PostgreSQL (Prisma), Redis, BullMQ queues and Stripe. `pm2` runs as many API
processes as the machine has cores and one worker process
(`ecosystem.config.js`), so every handler interleaves with every other one at
each `await`, with the queue workers, and with Stripe's deliveries. The
repository has no tests. The modules here model what its own code does with
shared state, step by step, and say what is true of it.

Paths below are relative to `src/src/`, the application's own code, unless they
begin with `prisma/` or `README.md`, which are in `src/`.

## Inventory

| Component | State | Operations | Hard because | Should hold |
|---|---|---|---|---|
| bookings (`module/bookings`) | `Booking`, `BookingReminderJob`, advisory locks, `cancelBooking` and `email` jobs | create, confirm, complete, no-show, cancel, reschedule | check-then-act across transactions, jobs and rows kept in step by hand | no slot given out twice; a booking nobody confirms ends; jobs match rows |
| cancelBooking worker (`jobs/*/cancelBooking.ts`) | job states, Redis keys `processed:*` | cancel what is still PENDING | races with confirm and reschedule; retries against an idempotency key | cancels only what waits; a retry finishes the work |
| webhooks (`module/payments`) | `WebhookEvent`, Redis keys `webhook:processed:*`, `Payment`, `PackageRecord`, `FeaturedListing` | `handleWebhook`, eight handlers, reprocess | duplicated, reordered and concurrent deliveries; a crash between writes | an event is booked once; what counts as processed is booked |
| subscriptions (`module/subscription`) | `Subscription`, Stripe objects | setup intent, confirm, resubscribe, cancel, resume, change plan, deactivate, downgrade | state in Stripe and here; webhooks race with handlers | status follows Stripe; one Stripe subscription per agent |
| subscription jobs (`jobs/*/subscription.ts`) | delayed jobs | end of grace, trial reminder, end of featured listing, reconciliation | timers against renewals | grace ends; a renewal survives it |
| listings (`module/property`) | `Property`, `packageRecord.propertiesUsed` | create, update (a status machine), delete, feature | closing a listing against new bookings; limits checked in middleware | no live booking on a sold listing; limits hold |
| images (`propertyImage.repository.ts`, `jobs/*/uploadImage.ts`) | `PropertyImage`, Cloudinary | upload job, set primary, delete | three concurrent jobs; two-call updates | at most one primary image |
| cache (`shared/cache`) | Redis values and locks | get, fill behind a lock, invalidate | lock with a time to live; fill against invalidation | no stale value outlives its time to live |
| usage limits (`middleware/authMiddleware.ts`) | package record counters | three checks before handlers | check-then-act | usage within the plan |
| authentication, users (`module/authentication`, `module/users`) | `User` OTP and reset columns, `RefreshToken` | register, verify, resend, login, refresh, logout, forget, reset, change password | a token found and deleted in separate calls | a token is spent once; a reset ends sessions |
| reviews, saved properties | `Review`, `SavedProperty` | create, update, delete; add, remove | check-then-create behind unique indexes | one per booking / user and listing |
| admin (`module/admin`) | writes to users, listings, webhook events | status updates, replay, delete | bypasses the handlers' own rules | |
| e-mail and job idempotency | `email` jobs, `processed:*` keys | send, `ensureIdempotency` | key set before the work | |
| plumbing (`app.ts`, validation, rate limit, errors, health, config) | none | | | |

Interactions: handlers call each other's repositories directly and share the
database. Bookings put jobs into two queues and remove them by stored ids;
closing a listing or deactivating an agent cancels bookings. Webhooks write the
subscription row that the subscription handlers write as well, create the
package records that listings count against, and reactivate listings. Listings,
their images and their reviews share a cached page, which only some of their
writers invalidate.

## Modules

| Module | What it is |
|---|---|
| `AgentCalendar` | abstract specification: reservations of agents' time, taken, moved and released in one step |
| `Bookings` | the booking service, its repository, the cancelBooking worker and the reminder jobs; implements `AgentCalendar` |
| `Marketplace` | `Bookings` composed with what closes listings under it: a sale, a deactivated agent; still implements `AgentCalendar` |
| `Webhooks` | the webhook pipeline and every event handler |
| `Billing` | the subscription handlers, the cards, Stripe's side, its events and the reconciliation, on one subscription row |
| `Limits` | the plan's limits, checked in a middleware and counted in a transaction or on a payment |
| `Gallery` | the images of a listing, their files, the primary image, publication |
| `PropertyCache` | the Redis cache of listings with its locks and all its readers and writers |
| `LoginTokens` | abstract specification: a login's right to stay logged in, granted, exchanged and taken away in one step |
| `Sessions` | accounts, codes, links, refresh tokens and the blacklist; implements `LoginTokens` |
| `Buyers` | lists read page by page, saved listings, reviews |
| `MC*` | small instances for TLC; `MCBookingClaims` states what the code's design says and a run refutes |
| `*Proofs` | the theorems, checked by TLAPS |

In every module a process is one HTTP request (or one job, one delivery) and an
action is one awaited call with the code up to the next one: that is where Node
may run something else, another process may write, or this one may die.
`pc[r]` names the next call, `task[r]` holds what the handler was asked and what
it has read. Where a request makes one thing (a booking, a token, a customer,
an image), its name stands for that thing. Variables marked "history" in the
declarations are read by properties only and guard nothing.

### Bookings

One process per HTTP request (`Requests`), one per cancelBooking job, the clock
and an admin. An action is one awaited call with the code up to the next.
`pc[r]` names the next call, `task[r]` holds what the handler was asked and what
it read: later writes go by id, whatever the row has become meanwhile.

- `BeginCreate`, `BeginReschedule`, `BeginConfirm`, `BeginClose` (complete and
  no-show), `BeginCancel` are the reads and early returns before the first
  write. Several reads form one action: only the booking's row is used again.
- `TakeLock`, `CheckAgent`, `CheckBuyer`, `InsertBooking` / `MoveBooking`,
  `Conflict` are the interactive transaction of `createBookingWithLock` and
  `updateBookingWithLock`. The lock is transaction-scoped and keyed by a hash,
  so two agents may share one (`LockKey`). Postgres runs at READ COMMITTED: a
  query sees what has been committed when it runs, and the lock is what makes
  the transaction exclusive.
- `WriteConfirmed`, `WriteClosed`, `WriteCancelled` write by id.
  `RemoveAutoCancel`, `AddAutoCancel`, `SaveJobId`, `Remind`,
  `RecordReminders`, `DropReminders`, `DropReminderRows` are the queue calls and
  the rows that record them; most of their failures are caught, and then the
  handler goes on.
- `StartJob`, `ClaimJob`, `ReadForAutoCancel`, `WriteAutoCancel`, `FailJob` are
  the worker: removal of an active job does nothing, the idempotency key is set
  before the work, a failed attempt is retried up to `MaxAttempts` times.
- `Abort` is an uncaught failure or the death of the process at any point; an
  open transaction releases its lock. `ended` is a history variable.

A request creates at most one booking and one job, so its name serves as their
id. The two reminder jobs of a confirmed booking are one pair. Messages, e-mail
texts and the queries that only list bookings are left out.

### Webhooks

One process per delivery; a delivery is of any event, so duplicates and
reorderings are the choice of `Deliver`. `ReadKey`, `Store`, `Dispatch`,
`SetKey`, `MarkProcessed`, `MarkFailed` are `handleWebhook`; `Throw` is a failed
call inside its `try`, `Die` a crash or a failed call before it, `ExpireKey` the
key's 23.5 hours. The handlers are `Activate`, `CreatePackage`, `RecordPayment`,
`Reactivate` (invoice.paid), `Dun`, `RecordFailure` (payment failed), `Sync`
(updated), `StartGrace`, `AddGraceJob`, `Cancel` (deleted), `Notify` (trial ends soon),
`Feature`, `AddExpiryJob`, `RecordFeaturedFailure` (a payment intent). `RunJob` is the
subscription queue's worker, whose two jobs return before they change anything. `findByEventId` looks up the row's own id and finds
nothing (`webhookEvent.repository.ts:13-15`), so `Store` has no early return.
The unique columns `subscriptionCycleId` and `stripePaymentId` are guards of
`CreatePackage`, `RecordPayment` and `Feature`: the second write throws.
`effects` and `troubled` are history variables.

The module starts at a verified event. As mounted, the JSON body parser reads the
body of `/api/v1/payments/webhook/stripe` first (`app.ts:53` exempts
`/api/v1/payment/...`), and `constructEvent` wants the raw body; the module says
what `handleWebhook` does once it gets one.

### Marketplace

`MarketNext` is a step of `Bookings` or of a closing. `updateProperty` to SOLD or
RENTED is `BeginClosing`, `ReadPending`, `RemoveJobs`, `ReadConfirmed`,
`RemoveMails`, `CancelAll`, `WriteListing` (`property.service.ts:321-465`);
`deactivateAgentListings`, which the immediate cancellation and the admin's
`updateUserStatus` call, is `DeactivateListings`, `CancelPending`. The lists the
handler reads come from `findMany`, which returns at most `PageLimit` rows when
no limit is given (`Page`); `CancelAll` updates by listing and so reaches the
rest. `AbortClosing` stops a closing anywhere.

What the transaction cancels may come back: a `confirmBooking` that read the booking
PENDING before it writes CONFIRMED by id after it (`booking.service.ts:165`), and a
live booking is on the sold listing. `raced` remembers the bookings such a request had
in hand when the closing cancelled, and `ClosingEndsBookings` excepts these alone, and
only as CONFIRMED.

### Billing

Handlers write to Stripe first and to the row afterwards. `Ask*` are the reads
and early returns; `CreateCustomer`, `SaveCustomer`, `CompleteSetup` the customer and
the card a client confirms with Stripe; `Attach`, `SetDefault`, `Detach` the cards;
`Subscribe`, `CreateRow`, `UpdateRow` the two ways to a subscription, with Stripe's
idempotency keys; `StripeCancels`/`CancelRow`, `StripeFlags`/`FlagRow`,
`StripeChangesPlan`/`HandleDowngrade`/`ChangeRowPlan` the pairs of writes;
`Retrieve`/`Sync` the reconciliation. Stripe moves subscriptions on its own
(`StripeMoves`), every change puts an event under way, and `FindRow` takes any of
them, so events are reordered; a retried delivery is in `Webhooks`. `Fail` is a
throw or a death between two calls.

A handler looks the row up by the Stripe id (`FindRow`, `payment.service.ts:154`,
`190`, `284`, `389`) and writes it by the row's own id in a later call (`WriteRow`,
`177`, `211` and `255`, `307`, `397`), and `resubscribe` may give the row another
subscription in between (`subscription.service.ts:335`): the old one's status then
lands on the new one. So it does from a cancellation or a reconciliation that read
the row before. `misled` holds the subscriptions whose row was last written from such
old news, from an event overtaken by a newer one, or not at all because a handler
failed; `EntitledIsLive` and `PaidIsEntitled` except these until newer news in order,
or a reconciliation, puts the row right. `incomplete_expired` has no name in the
handler's table, so the handler writes back the status it has read. `Subscribe` lets
Stripe forget the idempotency key of a request that is over, as it does after a
day, and a repeated call makes a second subscription.

### Limits

`ReadLimit` and `ReadUsage` are the middlewares, `CheckExists` and `Insert`
createProperty, `CheckFeatured`, `CreateIntent` and `PayIntent` the way to a
featured listing, `RenewSubscription` and `CreateRecord` the two writes of
`handleInvoicePaid` that a request may fall between. `Insert` commits the listing
and the counter together and does nothing in a cycle without a record. The
record of a paid cycle starts and ends at the same instant
(`payment.service.ts:337`), so the middleware, which asks for one that covers
today, finds only the trial's (`Covered`).

### Gallery

`AskUpload` queues a job whose worker runs `ClaimJob`, `UploadFile` for each file in
any order (`Promise.allSettled`: other calls fall in between, and some may fail),
`ReadExisting`, `CreateRows`, `ChooseImage`, `ClearPrimary`, `SetPrimary`; a
failed job comes back (`FailJob`) and finds its key claimed. `setImageAsPrimary`
shares the last two; `deletePropertyImage` is `DestroyFile`, `DeleteRow`;
`deleteProperty` `ReadImages` (a page of them, `PageLimit`), `DestroyOne` for each
file, `DeleteListing` or, where bookings or payments still refer to it, `KeepListing`. `AskUpdate`, `CheckImages`,
`WriteStatus` are the status machine with its demand for an image, `AskForce` is
the admin's. Cloudinary names a file by the hash of its content, so two uploads
of one content share a file.

### PropertyCache

What a key should hold is a version number that a write raises. Readers: `Get`,
`AcquireLock`, `Query`, `Fill`, `ReleaseLock`. Writers: `Write`, then as their
handler does `Reread`, `DelDetail`, `SetDetail`, `Scan`. A scan's deletes go out in a
stream's callback nobody awaits (`DeleteDoomed`). Times to live are
`ExpireValue` and `ExpireLock` at any time. `Touches` says whose answers a write
changes, `Invalidates` which keys its handler drops: an image or a review
changes the listing's page and does not drop it.

A list is its key: the model takes two queries to have two keys.
`generateCacheKeyWithQuery` (`shared/utils/helper.ts:22-32`) prints a parameter that is
an object as `[object Object]`, so that two such queries would share one; as mounted,
Express's query parser hands the handler strings, and no object gets there.

### Sessions

Every operation of `AuthService`, `changePassword` and the admin's switch. A login
is `BeginLogin`, `CreateToken`, `StampLogin`; a refresh `BeginRefresh`, `SpendToken`
(the delete throws when the row is gone), `CreateToken`; a logout `BeginLogout`,
`DropToken`, `Blacklist`; a reset `BeginReset`, `WritePassword`, `EndSessions`. Codes
and links reach a client only through `ClaimMail` and `SendMail`. `Expire`,
`ExpireAccess`, `ExpireCooldown` are the times to live, `Abort` a failed call.

A refresh deletes its row and inserts the next in two calls. `Holders` counts both
as one right: the rows stored, and the requests between the two. `LoginTokens` is
what that comes to: a right is exchanged for another and never copied, and a
login without one never has one again.

### Buyers

A walk through a list is `AskSearch`, and for each page `ReadRows` and `ReadTotal`
in either order, which `findMany` starts together, then `TurnPage`. `Query` has
the order and the default limit of each list in the API; rows the order does not
tell apart come in any order. A listing's reviews (`getPropertiesReview`) are a list of
its own: its number is awaited after its rows, and there are no pages to turn, so a
client gets 15 of them at most (`Cut`). The agents' side (`Create`, `Update`, `Delete`,
`Visit`) changes the table in between. Saving and reviewing are check, then
insert behind a unique index.

## Runs

| Run | Instance | Shows |
|---|---|---|
| `bookings_core` | 3 requests, 2 buyers, 1 agent, start times 0..2 with viewings of length 2, 1 fault | no slot of an agent is given out twice; every step is a step of `AgentCalendar` |
| `bookings_agents` | 3 requests of one buyer, 2 agents behind one lock key, different durations, an admin closing listings, no fault | the buyer is protected behind one lock; every PENDING booking keeps an auto-cancel job, the recorded id is that of a live job, and reminders to be sent are on record |
| `bookings_live` | 2 requests, 1 fault, 2 attempts, fairness | every request ends; while nothing fails every PENDING booking is decided |
| `claim_agent` | 4 requests, no fault | violated: a confirm revives a cancelled booking whose slot is taken |
| `closing` | 2 requests, 1 agent, 2 listings, 1 closing that reads at most 1 row | what was live when a sale began is over when it has cancelled, unless a confirm that had read it PENDING revives it; a booking without its job belongs to a sale; the calendar is still implemented |
| `webhooks` | 2 deliveries, 12 events of every kind, the jobs they queue, 1 fault | a cycle has its package record; what counts as processed is booked; a payment intent buys one listing and usage counts it; only an event that met trouble is applied again |
| `billing` | 4 requests, 2 cards, 2 changes of Stripe, handlers that find and write in two calls, 1 fault | the default card stays; nobody pays for an unknown subscription, keeps a plan for nothing or pays for none; the row follows Stripe, each but for the cases named |
| `limits` | 3 requests, 2 addresses, trial and one paid cycle, 2 days | counters count every creation; limits and duplicates fail only by overlap; a listing is charged once a day |
| `gallery` | 4 requests, 3 contents, a read limit of 2, 1 fault | one primary image unless calls crossed; one is chosen; rows have files |
| `cache` | 3 requests, the page of a listing and one list, fairness | one reader fills; stale entries come from the named races; readers return; the cache converges |
| `sessions` | 4 requests, 1 account, 2 passwords, failures anywhere | a login's right is exchanged, never copied, and does not come back (`LoginTokens`); a logout and a reset end what they should |
| `buyers` | one walk through a list of any kind among 3 changing rows, or 2 requests of 2 buyers with 2 visits | nothing that stayed is skipped; reviews are of visitors, one each |

Bounds and why they suffice for what is asked:

- A double booking needs two requests that hold, and a third to disturb them by a
  reschedule or a cancel: three requests. Start times 0..2 with length 2 give
  overlapping, touching and disjoint viewings. `claim_agent` needs four requests
  (create, confirm, cancel, create).
- `Horizon` separates "due" from "not yet due"; the clock stands still at the
  horizon, which stands for all later time.
- One fault is enough for every crash point, since the runs try it everywhere;
  the proofs cover any number.
- `closing`: with one row per page, two bookings already overflow it, which takes
  sixteen in the code. Faults of bookings are off: `AbortClosing` is not bounded.
- `webhooks`: two deliveries are one event twice, at once or in turn, or any two
  events; an event of each kind, and two where an order of the same kind matters.
- `billing`: the first requests make the customer and the subscription, the other
  two are any operations; two changes of Stripe give events that overtake
  each other.
- `gallery`: two uploads and one operation of each other sort; a third content for a
  job to share with another and still have its own, and for the deletion of a listing
  to overflow its page of two; `sessions`: one to
  set the account up, three that may meet (`MCMayAsk` in the MC modules).
- `limits`: a limit of one and three requests give two that pass together.
- `buyers`: pages of one and two rows over at most three rows, so that a list has
  several pages, and three changes: any row may come, move or go between two
  queries.
- Symmetry: interchangeable model values only (requests where `MayAsk` treats them
  alike, buyers, cards, contents, passwords, deliveries), and in no run with a
  liveness property.
- The largest runs, in distinct states: `gallery` 1.6 million, `billing` 1.1 million,
  `buyers` 0.9 million, `closing` 0.2 million, `webhooks` 155,000.
- `CHECK_DEADLOCK FALSE` everywhere: clients and Stripe may stop sending.

Fairness. `bookings_live`: a started handler goes on (the event loop), a due job is
handed to a worker and goes on (BullMQ), time passes. `TakeLock` is only enabled
while the lock is free; weak fairness is enough because a request takes it once
and there are finitely many requests. `cache`: a started request goes on, Redis
drops what has a time to live and carries out the deletes it was sent. In
neither is a client obliged to call, or anything to fail; a handler may be cut
off by `Abort` or `Crash`, which ends it as well.

Every property of a passing run has a mutant of the code's definition that breaks
it: the definitions named `Mut*` (in `Bookings` and `Webhooks` "Mutant of ..." in
their comments) are these and are used by no specification.

## What is proved

For every value of the constants, under each module's named assumptions. They give
the types of the constants, and besides say that the cycles an agent moves through
are finite in number (`CyclesFinite`, of `Webhooks`: sums over them are taken) and
that there is a price at all (`Prices # {}`, of `Buyers`). Every safety property a
passing run checks is the statement of a theorem.

`BookingsProofs`

- `TypeCorrect`, `CalendarSafe`, `AgentSafe`, `BuyerSafe`, `Refinement`. The
  property "no two held slots overlap" is not inductive: a step may insert a
  booking only because of a query made two steps earlier. `CalendarInv` adds
  what connects them: who is inside a transaction holds the lock of its agent
  (`HoldsItsLock`), and a slot found free under the lock stays free until the
  commit (`CheckedSlotIsFree`), since everyone who could take it needs the same
  lock and every other write only releases slots. `WellFormed` ties rows,
  requests and jobs together; `EndedIsHistory` keeps a booking that was over once
  out of `Held`, which is where the code's own guarantee ends (see `claim_agent`).
- `Refinement` maps the reservations in force to the rows that are held, and
  shows that an insert reserves, a move moves, a status write releases or
  stutters. `CalendarPromise`: the abstract calendar is exclusive, and so, through
  the refinement, is the code's model.
- `PendingSafe`, `RecordedSafe`, `RemindersSafe`, the queue's side. `QueueInv` adds
  whose jobs are whose: an id in a row or in a handler's hands is that of a job
  of the same booking, saved by a request that has ended (`JobsKnown`); only a
  reschedule removes the job of a booking that may still wait (`OpsKnown`); a job
  whose id is not saved yet runs (`SavedRuns`), and one on record runs or is about
  to be replaced (`RecordedJobs`); mails belong to bookings (`MailsKnown`).
- `MarketTypeCorrect`, `ClosingSafe`, `StrippedSafe`, `MarketRefinement`,
  `MarketPromise`, the composition with closings. `CalendarInv` survives a closing
  because it only releases slots. `EndsHeld` says that what was live when the
  closing began is live no more once it has cancelled, but for what was spared, which
  needs that a row never changes its listing (`OfListing`), and that nothing makes a
  booking live but a confirmation that had read it PENDING (`OnlyConfirmed`): none
  can begin once the booking is cancelled, so every such request had it in hand
  when the closing cancelled (`Spared`); `Covered` follows a booking that lost
  its job to the closing that took it.

`BillingProofs`: `TypeCorrect`, `LiveOnesKnown`, `NothingForFree`, `PaidFor`,
`RowFollows`, `DefaultStays`. That the row hears of what Stripe did is not
inductive, since events arrive in any order: `Reported` adds that the newest event
about a subscription tells its state, or was heard with every other one older,
which rests on their numbers (`Numbered`). Events that a handler has in hand count as
under way, and `Handled` says that they will be written as they are, except
`incomplete_expired`, of which `NeverBegun` says that nothing ever reports such a
subscription as paid. `Carried` is `Reported` for what a
reconciliation has retrieved. `Halves` says that what a process has changed in
Stripe is so there until another changes it too, `Rows` that before there is a row
only confirmations are under way, `Held` what each process carries. The steps that
touch neither row nor subscriptions are one case (`Walks`).

`WebhooksProofs`: `TypeCorrect`, `FeaturedSafe`, `UsageSafe`, `CycleSafe`,
`BookedSafe`, `OnceSafe`. The inductive invariant is `WebhookInv`: labels tell the kind of the
event (`LabelInv`), the subscription never becomes another one
(`SameSubscription`), a delivery past its payment has recorded it (`BookedInv`),
and an event without trouble is in one delivery's hands, with its key unset
before the books change and set before that delivery ends (`OnceInv`).
`UsageSafe` is about a sum over all cycles, which the model takes with the
library's fold. That the fold is the sum whatever the order in which it meets the
cycles is shown by an induction on the size of a set (`SumUnfolds`, `SumExists`,
`SumIsFold`; `NatSetInduction` states induction for a set, since the library's own
takes an operator); from it follow the sum of zeros and that one more in one
cycle is one more in the sum (`SumOfZeros`, `SumAddsOne`), which is what a
featured payment does.

`SessionsProofs`: `TypeCorrect`, `OneTokenSafe`, `LogoutSafe`, `ResetSafe`,
`Refinement`, `LoginsPromise`, `EndedStaysEnded`. That a
login has one stored token is not inductive: between a refresh's delete and its
insert the request itself is the token. `Held` takes both together (`Holders`),
`Families` says that a family belongs to one login, `LogoutsEnd` that a logout past
its delete leaves no holder, `Passworded` that every holder's login used a
password since the last reset or was caught by that reset. The refinement maps a
login's right to its holder: a login's check grants it, the delete of a refresh
exchanges it, the insert changes nothing, and deletes and failures end it. From it
come two promises of the abstract store: one right for a login at every moment,
and none for a login that has lost its own (`NoneRevives`, about steps).

`PropertyCacheProofs`: `TypeCorrect`, `OneReaderSafe`, `StaleSafe`. `Locked`: a
reader at work whose lock has not run out holds it, and a lock is one reader's.
`Carried`: what a request is about to store is the current version, or the key
counts as raced.

`LimitsProofs`: `TypeCorrect`, `UsageSafe`, `LimitSafe`, `DuplicatesSafe`,
`FeaturedSafe`. A request that passed the check and was not overtaken since has
room under the limit still (`Room`); a request about to insert at an address that
has a listing by now counts as overtaken (`Blinded`); a request creates or asks
to pay once, and a listing has one intent a day (`Origins`, `OneIntentPerDay`).

`GalleryProofs`: `TypeCorrect`, `PrimarySafe`, `ChosenSafe`, `FilesSafe`. `Ordered`:
until calls have crossed, one process at most is between clearing and setting,
and nothing is primary meanwhile. `Seen`: when the images a job has seen are all
gone, the choice counts as lost. `Stored`: a row about to be created has its file.

`BuyersProofs`: `TypeCorrect`, `ReviewsAreEarned`, `NoneIsSkipped`. `BaseInv` says
what the handlers rely on: the listings that exist are finite in number and were
created by a numbered change (`TableOK`), a request past its checks carries what
they checked (`TaskOK`), and every review names a visit that took place, its buyer,
and a request that wrote it (`ReviewOK`). `NoneIsSkipped` needs no induction over
pages: `Walk` says of a walk that nothing has shaken that a row it has still to be
given has at least as many rows ahead of it (`Ahead`) as the pages read so far
have room for. Changes can only add rows ahead (`AheadIsLess` and the `shaken`
flag); a row with fewer ahead than a page reaches to is on that page or an earlier
one whichever order the database chose (`PlaceInOrder`, `PagesCover`), and as long
as one is missing the number of rows told of is beyond the page, so the walk goes
on.

## What is only model-checked

Liveness (`EveryRequestEnds`, `PendingIsDecided`, `EveryReaderReturns`,
`CacheConverges`), which is out of the prover's reach, and the run that is expected
to be violated.

## Where the code and its documentation disagree

Shown by a run: `claim_agent`. `confirmBooking` reads the booking PENDING and
writes CONFIRMED by id much later (`booking.service.ts:165`).

Present in the models as the code has it, so that the corresponding promise is
not a property:

- A buyer may hold overlapping viewings with agents whose lock keys differ: the
  buyer's conflict query (`booking.repository.ts:46-53`) runs under a lock on the
  agent (`:30`). `booking.routes.ts:81` says "Time slot conflict — agent or buyer
  already has booking at this time".
- The retry of a failed auto-cancel returns at once (`cancelBooking.ts:17-21`), and
  the worker writes CANCELLED over a confirmation made after its read (`:30-32`).
  `booking.routes.ts:35`: "Automatically cancelled if agent doesn't confirm within
  48 hours".
- Reminders of a viewing in less than the delay come after it
  (`booking.service.ts:214-217`); `booking.routes.ts:235` says "24 hours before
  viewing".
- Two deliveries of one event may both be handled (`payment.service.ts:49-51`
  against `115`), and an error in a handler is answered like a success
  (`:117-133`). `README.md:214-216`: "processed exactly once", "Transient failures
  return 500 for Stripe retry". `findByEventId` finds nothing
  (`webhookEvent.repository.ts:13-15`).
- A booking confirmed or cancelled after `rescheduleBooking` read it still moves
  (`booking.repository.ts:109`; `booking.routes.ts:373-374`). A booking completed
  after `cancelBooking` read it ends CANCELLED (`booking.service.ts:492`;
  `booking.routes.ts:355`). Reminders of a booking cancelled while its confirm adds
  them stay queued (`booking.service.ts:505`; `booking.routes.ts:334`). A
  reschedule conflicts with its own old slot (`booking.repository.ts:83-107`).
- A booking created between the transaction of `updateProperty`
  (`property.service.ts:383`) and its status write (`465`) stays live on a sold
  listing, and so does one whose confirm read it PENDING before that transaction and
  writes CONFIRMED after it (`booking.service.ts:165`). `deactivateAgentListings` leaves confirmed bookings, and the jobs of
  those it cancels.
- A login or refresh between its check and its insert survives a password reset
  (`auth.service.ts:306`; `auth.routes.ts:362` "All sessions invalidated").
  `changePassword` ends no session, `refreshToken` does not ask whether the account
  is active, and the cooldowns are checked before they are set.
- Writers of images, reviews, featured listings and the admin leave cached pages as
  they are until they run out.
- `uploadImage` is queued with "attempts: 3, // retry on failure"
  (`property.service.ts:139`), but its key is claimed by the first.
  `setImageAsPrimary` clears before it finds that the image is not there, and
  `deleteProperty` destroys the files before foreign keys refuse the row. A
  listing that is ACTIVE may lose its last image (`property.routes.ts:438`).
- In a paid cycle the limit check finds no record and counts zero
  (`payment.service.ts:337`). Publishing checks no limit.
- `resubscribe` leaves `cancelRequested` set and never cancels the old subscription
  in Stripe; keys per plan may replay an old one. The reconciliation stops after
  its first subscription and knows 'cancelled' where Stripe says 'canceled'.
  A late event overwrites a newer status, and a handler that found the row before
  `resubscribe` gave it another subscription writes the old one's status to it.
- Reviews may name another listing than the booking's. The lists of bookings,
  saved listings and reviews have no order, so their pages may overlap and miss
  rows; the two queries of a page are not one. `review.routes.ts:163` says "Get all
  reviews for a property"; a client gets one page of them, 15 at most.

Met while reading, in code that changes no modelled state:

- `gracePeriodExpired` returns whenever it has a user
  (`jobs/processer/subscription.ts:26`), `trialEndingReminder` and
  `featuredListingExpired` are not given the id they ask for, and nothing calls
  `scheduleReconciliation` (`jobs/queues/subscription.ts:28`). `README.md:222-224`
  promises that listings are deactivated after seven days.
- Replaying or deleting a stored webhook event looks it up by the wrong column
  (`admin.service.ts:116-151`).
- As mounted, the JSON body parser reads the webhook's body first (`app.ts:53`).
- `updateProperty` and `deleteProperty` are open to admins in the docs
  (`property.routes.ts:483-487`, `519-523`), but both need an active subscription.
- `getRevenueAnalytics` returns inside its loop.

## Not modelled, and why

- Routing, validation, rate limiting, error formatting, configuration and health:
  they keep no state of the application.
- Profile columns, statistics and other queries that only read: no operation
  depends on them. `users` and `admin` are therefore "partly" in PROJECT.json.
- E-mails that carry no code, link or reminder; texts, prices, dates and addresses
  beyond the equalities the code tests.
- The job `trialEndingReminder`, which returns at once (above), and `reprocessStoredEvent`, only
  reached by a replay that never finds its event.
- The insides of Postgres, Redis, BullMQ, Cloudinary and Stripe: each is what the
  code in `src/` sees of it.
- Liveness of the webhook pipeline: a delivery ends because its handler's calls
  return, and nothing in the code retries what failed.

What would come next: the pipeline of `Webhooks` as an implementation of an
abstract ledger, and `Webhooks` composed with `Billing` so that a retried delivery
meets the requests call by call.
