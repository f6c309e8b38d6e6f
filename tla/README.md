# Otuuse back end: TLA+ models, checks and proofs

This project models the parts of the Otuuse back end (ride hailing: FastAPI,
PostgreSQL, Redis, Celery, PesaPal) in which handlers, tasks and outside
services work on the same rows. It states what has to hold of them, checks it
with TLC on small instances and proves part of it with TLAPS for all instances.
Paths are those of the repository; everything in a module is translated from
the code, and `PROJECT.json` ("map") gives the lines of every definition.

## 1. Inventory

| Component | Where | State | Operations |
|---|---|---|---|
| Ride dispatch | `services/dispatch.py`, `api/routes/routes.py`, `tasks/dispatch_tasks.py`, `services/cache.py` | `rides`, `driver_profiles.availability`, Redis `ride_acceptance:*` and `ride_tried_drivers:*`, queued tasks | request, dispatch, accept, decline, timeout, cancel, arrived, start, GPS geofences, complete (tap and task), payment confirmation, online switch |
| Wallets | `services/payment.py`, `routes.py`, `admin.py` | `users.wallet_balance_ugx`, `transactions`, PesaPal's orders | top-up, IPN, wallet split, cash commission, withdrawal of drivers and (with the same steps) of administrators, and its payout |
| Driver standing | `routes/admin.py`, `crud.issue_driver_strike`, nightly task | `users.is_active`, subscription, strikes, documents | onboard, suspend, reinstate, renew, strike, upload, verify, expire |
| Sessions | `routes/auth.py`, `core/security.py`, `cache.py` | `users`, `otp_records`, `refresh_tokens`, Redis attempt counters and reset codes | request and verify a code, register, login, refresh, logout, change, forgot and reset of a password |
| Conversation agent | `services/agent/*` | `messages`, the rides and tickets a turn creates | one chat turn: message, extraction, the intent's handler, reply, commit |
| Deliveries and the administrators' relay | `agent.py`, `crud.py`, `admin.py`, `routes.py` | `deliveries`, background relay tasks | open by chat, reply and set a status, relay the reply, photos of both sides |
| Ratings | `routes/rides.py`, tasks | `rides.passenger_rating`, `rides.driver_rating`, `driver_profiles.rating` | rate, recalculate |
| Pricing, routing, geocoding | `routing.py`, `geocoding.py` | caches in Redis | fare, route or its estimate, places |
| Notifications, SMS, storage, audit | `notifications.py`, `sms.py`, `storage.py`, `audit.py` | outside, or append only | output |

How they interact. Every request has its own database session
(`db/session.py:48-80`): READ COMMITTED, no row locked for a later write,
`expire_on_commit=False`. A handler is one coroutine, and at each `await` another
handler, or a task in a Celery process, may run. Dispatch writes `availability`,
which standing also writes and the pool query reads. Completing a ride calls the
payment service in the same request; a low wallet takes the driver offline. A chat
turn creates a ride, commits it, and calls dispatch before it saves its reply; a
cancellation in the chat updates the ride that drivers and tasks update, and a reply
of an administrator starts a background task that writes into the passenger's
conversation with a session of its own. Suspension shuts the door of login and
refresh. Dispatch schedules a timeout task, and the GPS endpoint schedules automatic
completion. The no-show task issues a strike, and a third strike withdraws a driver
whom dispatch may be matching at that moment. PesaPal calls back with the status of
orders, late, early or repeatedly.

What is hard here, and the property each part needs:

* a handler decides on a row it read before an `await` and writes after it: the
  row that results must still make sense (dispatch, wallets, standing);
* the answer of a driver, its timeout, a cancellation and a GPS update race for
  one ride, and none of them asks what became of it: a ride must get its driver by
  an offer, have one while it is under way, be sent out again only so often, and
  its driver must come from the pool;
* PostgreSQL and Redis are changed one after the other, with a possible crash
  in between;
* tasks are repeated or come late, and a late tap puts a finished ride on the road
  again: each time it is there it completes, is paid and pays commission once;
* money is read, computed on and written back: nothing may become negative, be
  credited twice or disappear;
* a suspended or expired driver must stay out of the pool, whatever order
  strikes, reinstatements, renewals and rides come in;
* a chat turn spans two calls of a language model that may fail, pushes that
  cannot be taken back, and one commit in the middle: what it says and what it
  did must stay together;
* one ticket is written by chat turns, several administrators, photos and relay
  tasks: only administrators may move it on, and their replies must be heard;
* codes and tokens are checked, and used up some awaits later, in a database and
  a Redis without a common transaction: each is to be used once;
* a fare is rounded, floored to a minimum, stored rounded again, and computed
  from either side of that rounding: quote and route must fit.

`PROJECT.json` ("hazards") lists these at their lines, with the properties that
cover them or the reason why none does.

## 2. Modules

| Module | Models | Kind |
|---|---|---|
| `Dispatch` | the dispatch component, every handler and task cut at its awaits | detailed |
| `RideLifecycle` | what a ride and its driver go through, without handlers | abstract |
| `DispatchRefines` | `Dispatch` as a `RideLifecycle`: the mapping from `rides.status`, and what it is for handlers to stay `Apart` | refinement |
| `DispatchProofs`, `DispatchApartProofs` | theorems: under every interleaving; as long as handlers stay apart | proofs |
| `Wallet` | the payment service with PesaPal | detailed |
| `Purse` | every operation moves its money once, at one instant; a ride is one more trip each time it is put on the road | abstract |
| `WalletRefines` | `Wallet` as a `Purse`, the ledger against the balances, and `Apart` | refinement |
| `WalletProofs` | theorems | proofs |
| `Standing` | accounts, subscriptions, strikes, documents, availability | detailed |
| `StandingProofs` | theorems | proofs |
| `Pricing` | the fares of `routing.py` as operators on whole numbers | function |
| `Conversation` | chat turns, the rides and tickets they create, replies and relays, photos, ratings; EXTENDS `Pricing` | detailed |
| `Helpdesk` | what becomes of tickets and replies, without turns, transactions and tasks | abstract |
| `ConversationProofs`, `HelpdeskProofs` | theorems; the refinement of `Helpdesk` | proofs |
| `Sessions` | codes, accounts, passwords, refresh tokens, attempt counters | detailed |
| `SessionsProofs` | theorems | proofs |
| `MCDispatch`, `MCWallet`, `MCStanding`, `MCConversation`, `MCSessions` | instances for TLC | model checking |

The refinement mapping of `Helpdesk` is at the end of `Conversation`, next to the
other properties.

**Workers.** `Workers` is a set of slots; each runs one handler or task.
`req[w]` holds its program counter and what it has read so far, as the local
variables of the coroutine do. The statements of one transaction are one step,
at its commit (row locks keep others from seeing or overwriting them before);
Redis calls, broker calls and calls of PesaPal are steps of their own, because
they are not undone. A handler that reads nothing it depends on is one step of a
free worker. `Fault(w)` is a handler that dies between two awaits (a restart,
a lost connection, a deadlock that PostgreSQL breaks): what it committed stays,
the rest never happened. In `Dispatch` a Celery task that dies is delivered
again (`acks_late`).

**Dispatch.** `ride[r]` keeps status, driver, `reassignment_count` and whether
the final fare is set; `driver[d]` keeps availability and whether the
subscription is active. `window[r]` is the acceptance key and the time it has
left, `timeouts[r]` the queued timeout tasks by time left, `autos[r]` the queued
completions. `Tick` lets time pass for keys and countdowns. Which driver of the
pool is picked is open (the score is not modelled), but the exclusion list is
compared as the code compares it: profile ids against user ids. A client
may send anything at any time for a ride that exists: a guard of a `...Start` action is
a test the handler makes, never what an app would show. So an accept looks at the key
alone, a decline at nothing, arrived and start at the ride's driver alone, and the switch at the
subscription alone: a ride that was cancelled or paid can be under way again, and
`RideLifecycle` has no final phase. `silent` is the driver the timeout task began
with, whom the strike is for even when the decline before it has matched another.

**Wallet.** A balance is only ever read and written back, so `req[w]` carries
`payer` and `payee` as read. `gateway[t]` is PesaPal's answer about an order
(external): it goes from pending to completed or failed by itself, and a
notification may come at any time and any number of times. A notification carries two
ids: PesaPal is asked about one (`payment.py:263`) and the row of the other is
worked on (287, 296); nothing compares them, nor the amount PesaPal answers (274).
`Notified` is the set of pairs that come (external), and the assumption
`NotificationsMatch` says that both name one order, as PesaPal sends them. Without it
a callback with the id of one paid order and the reference of another row credits that
row, and neither `SettledAtGateway` nor the ledger would hold. `Reopen` is the late tap
or GPS commit that puts a completed or paid ride on the road again (`Dispatch` has
these handlers); `openings` counts them. A ride keeps its driver here. `PayoutFails` writes
the balance *after* the deduction, because the ORM's UPDATE of line 585 also
changed the loaded object.

**Standing.** `account`, `profile`, `strikes` are the rows; `rides` counts what
dispatch has given a driver, so that only a matched driver is freed; an account
that is suspended when its subscription is renewed becomes `renewed`, which is the
one way back into the pool without a reinstatement. A renewal is for any number of
months, none and fewer included, as `admin.py:250` takes it; onboarding has 1 to 12
(`admin.py:47`). Uploads and verifications are steps here, but nothing is
claimed of them, see section 3. Time counts the months subscriptions are sold by; no
handler lasts a month (`MonthPasses` needs all workers idle). A strike grows 30
days old by `StrikeAges`.

**Conversation.** A turn is a worker that carries what its transaction has not
committed: `Save` is `get_db`'s commit, `Fails` and `Crash` lose it. `CreateRide` is
the commit in the middle (`agent.py:378`), which also saves the passenger's message.
A cancellation has sent its UPDATE when the model is asked for the reply, so the row
is `Locked` until the turn ends. Messages are rows with their turn or reply number
and the ride or ticket they refer to; their wording is left out. `AdminReply` is the
commit of a reply and `StartRelay` the `asyncio.create_task` after it; `relays` are the
tasks that run and die with the process, `lost` the replies whose handler
stopped between the two, or whose task failed. Pushes are output: they may reach
nobody (`notifications.py:91-112`, `217-230` return without tokens or
administrators and swallow FCM's errors) or tell of a ticket that is rolled back, and
no step depends on them. `ratings` counts the committed UPDATEs of a rating, the last of
which the row keeps. What drivers do to a ride is `DriverMoves` and
`Complete`: once a driver was searched, any of the moves of `Dispatch` at any time,
since their UPDATEs do not look at the status. Every intent of `agent.py` is a step: those
that only read before they answer are `AnswerQuestion`.

**Pricing.** Metres, seconds and UGX are whole numbers, `Rounded` is Python's
`round` (ties to even), and a stored route counts 10 m and 6 s, because the code
keeps two decimals of a kilometre and one of a minute. Products are exact here;
the code computes them in binary floats.

**Sessions.** `token[n].root` is the token of the login a token descends from and
`token[n].otp` the code it was issued for; neither is a column, both let properties
count. `held` is what clients have received: `CommitRefresh` adds nothing to
it, because the handler fails on an undefined name after its commit
(`auth.py:478`). `attempts[p]` has the counter and, for the property, the requests
`passed` and the counters deleted by a login (`resets`) since the last one expired. `uses` counts the resets done with each code. The unique constraint
on `users.phone_number` is the guard of `CommitOtp` and `CommitRegister`; the insert
that violates it is `NotUnique`. Passwords are set or not; their values, the
administrators' PIN and the devices' push tokens are left out.

## 3. Runs

| Run | Question | Bounds | Result |
|---|---|---|---|
| `dispatch_overlap` | what of a ride's row survives every interleaving: does it name a driver when offered and none when waiting, is it priced when completed or paid? | 1 ride, 1 driver, 2 workers, 1 crash, 1 reassignment, Celery, taps and switch at any time | holds (2 829 000 states) |
| `dispatch_apart` | as long as no two handlers are at work on one ride or for one driver: is dispatch a `RideLifecycle`, has a ride under way a driver, is every reassignment counted, does a match take a driver of the pool? | 1 ride, 2 drivers, 2 workers kept `Apart`, 1 crash, 1 reassignment, Celery, taps and switch at any time | holds (1 406 000) |
| `dispatch_auto` | does a ride at its dropoff complete? | 1 ride, 1 driver, 2 workers, Celery on, fair | holds (135 000) |
| `dispatch_timeout` | is an unanswered offer ended? | 1 ride, fair | **violated** |
| `dispatch_double_booking` | is a driver on one live ride? | 2 rides, 1 driver, 2 workers | **violated** |
| `wallet_overlap` | no negative balance, no PAID ride without commission, no row settled without the gateway, no ride charged more often than handlers overlap each time it is on the road? | 2 top-ups, 1 ride reopened once, 1 withdrawal, 2 workers, 1 crash | holds (7 615 000) |
| `wallet_apart` | does the service implement `Purse`, and does the ledger account for the balances, as long as no two handlers concern one user? | 1 passenger, 2 drivers, 2 top-ups, 1 ride reopened once, 1 withdrawal, 2 workers kept `Apart`, 1 crash | holds (180 000) |
| `wallet_early_ipn` | is a paid top-up credited? | 1 top-up, fair | **violated** |
| `wallet_failed_payout` | is a failed withdrawal given back? | 1 withdrawal | **violated** |
| `standing` | do suspended drivers stay out of the pool, does the third strike suspend, do expired subscriptions end, if strikes are counted one after the other? | 1 driver, 1 document, 2 workers with `StrikesApart`, limit 3, 4 strikes, renewals of -2 to 2 months, 1 month passes, 1 crash, fair | holds (1 820 000) |
| `conversation` | are turns saved whole, resolutions stamped, fares clean and fitting their routes, is a ride rated by one party as often as handlers overlap at most; is the conversation a `Helpdesk`; does a reply reach the passenger? | 2 handlers, 1 ride, 1 rating party, 1 ticket, 2 turns, 2 replies, prices of `config.py`, crashes and failures unbounded, fair | holds (237 000) |
| `sessions` | is a code one session, a reset code one password, a refresh a replacement, the number of codes from one login to the next limited, and does every counter expire? | 2 handlers, 1 number, limit 1, 1 code, 3 tokens, 1 reset code, 1 fault | holds (3 771 000) |

*Why the bounds are enough.* A race in this code needs two handlers: every handler
writes a row it has read, and a third one can only repeat what a second does. One
ride with two drivers is the least in which an offer passes from one driver to another
while both tap, switch and are struck; what two rides do to one driver is
`dispatch_double_booking`. A driver's rows do not interact with another driver's in `Standing`,
so one is enough there, as one number is in `Sessions` and one conversation in
`Conversation`: every handler works on one. The two parties of a ride rate different
columns, so one of them is enough. Documents are only counted as all there or
not, so one is enough. Three strikes need a bound of four to go
beyond the limit. `MaxReassign = 1` has a first reassignment, a last one and a
refusal; key and countdown of one tick let each run out first in `dispatch_apart`, since
a task waits for a worker, and overlap has them as the code does, 1 and 2. Amounts are
chosen so that a wallet can hold enough, too little and exactly
what is needed (`TopupAmount = Fare = 2`, `Commission = 1`). `MaxOpenings = 2` has one
ride paid, reopened and paid again. `MaxAuto`, `MaxFaults`,
`MaxNow`, `MaxOtps`, `MaxTokens`, `MaxCodes`, `MaxTurns`, `MaxReplies`, `MaxMonths`,
`MaxStrikes` and `MaxRides` bound counters that only repeat. Three tokens let one
login be followed by two refreshes read together, the case `RotationReplaces` is
about; two turns and two replies let a ticket be moved twice, a ride be created and
cancelled, and both overlap. A measured route of 875 m costs 2050 UGX, a tie of the
rounding to hundreds; the estimated one stays below the minimum. `Chosen` holds one
resolving and one plain status, which is what the code tells apart. All of these
bounds are gone in the theorems of section 5. Symmetry is used where no liveness
property is checked and the sets are interchangeable in every action.

*Why some runs constrain the handlers.* The properties of `dispatch_apart`, `Purse`, the
ledger and `ThirdStrikeSuspends` of `Standing` are false in this
code when two handlers are at work on the same rows: it takes no locks.
`dispatch_double_booking` shows the worst case. The runs `_apart` and `standing` let
handlers overlap and leave out only what breaks the promise, by a constraint that is
also the hypothesis of the theorem:

* `Apart` of `DispatchRefines`: two handlers in flight differ in ride and in driver.
  This is per ride and driver, not for the system: any number of rides go on at once.
  Nothing else is assumed: Celery runs, taps come for any ride at any time, and the
  switch is free.
* `Apart` of `WalletRefines`: no user is concerned by two handlers in flight. `Reopen` is
  under no constraint.
* `StrikesApart` of `Standing`: no two strikes of one driver are counted at once.

The overlap runs and the other theorems say what survives every interleaving, also on
one row; of `Standing`, this is `SuspendedOutOfPool`, proved
without the constraint. `ExpiredLeavesPool` is checked on the behaviours that keep the
constraint: what they leave out is strikes, which the nightly UPDATE does
not look at. `Conversation` and `Sessions` are checked with overlapping handlers only,
and where a property cannot hold exactly it says by how much the
handlers that overlap may exceed it. Deadlock checking is off because a finished
instance (all bounds used) stops.

*What is not claimed, although one would like it.* These are false in the code with
handlers one at a time, so no property states them:

* *A driver with a ride is not ONLINE, and is on one ride.* The switch does not look for
  a ride (`routes.py:386-418`), and the timeout task of an earlier offer frees a
  driver too: a driver who switches ONLINE during a ride is matched again. What holds is
  `MatchedFromPool`.
* *A cancelled, completed or paid ride stays so.* The key outlives a cancellation, and
  accept, decline, arrived and start do not test the status (`dispatch.py:290-298`,
  `329-347`, `routes.py:457-475`). A paid ride that is tapped "start" can be
  completed and charged again. What holds is `ServedByDriver`, and that each trip is
  charged once (`RefinesPurse`).
* *Verified documents were reviewed.* The administrator's look (`admin.py:313-337`) and the
  verification (340-369) are two requests that nothing ties together, so a document
  replaced between them is verified unseen, against `routes.py:553-555`.
* *An active subscription has time left.* See the renewals of `Standing`; what holds is
  `ExpiredLeavesPool`.
* *At most five codes in ten minutes* (`auth.py:56`). A login deletes the counter
  (`auth.py:183`), so request, verify and request again has no limit; what holds is the
  limit from one login to the next (`RequestsLimited`).
* *A delivery is announced to the administrators.* See `Conversation` in section 2.

And these take two handlers on one row: a reassignment that is not counted - two
overlapping declines both read 0, both write 1 and both send the ride out - an
ACCEPTED ride without a driver (an accept that commits after a decline), a rating
overwritten, against "exactly once" (`rides.py:147`). `ReassignmentsCounted` and
`ServedByDriver` are therefore for handlers that stay apart, and `RatedByReaders`
bounds the last.

*Configuration constants.* `CeleryRuns`: the repository's `render.yaml` deploys
the API alone and `docker-compose.yml` also starts a worker and beat; only
`dispatch_double_booking` is without.

### Disagreements with the documentation

1. *An unanswered offer never ends* (`dispatch_timeout`). The key lives 30 s
   (`cache.py:124`), the task runs after 35 s (`dispatch.py:263`), finds no key
   and returns. The ride stays MATCHED, the driver ON_RIDE.
2. *One driver, two rides* (`dispatch_double_booking`). Nothing tests, when the
   match is written, that the driver is still ONLINE (`dispatch.py:232`).
3. *A paid top-up is lost* (`wallet_early_ipn`). A notification while the order
   is pending marks the row FAILED (`payment.py:283`); the next one finds no
   PENDING row.
4. *A failed withdrawal is not given back* (`wallet_failed_payout`,
   `payment.py:647-661`).

Seen in the code, without a run, because one handler alone shows it:

* the list of tried drivers holds user ids where profile ids are compared
  (`dispatch.py:116`, `97`, `248`), so a driver who declined is asked again; it is
  also read, extended and written back (`dispatch.py:653`), so declines that overlap
  lose entries;
* `/auth/refresh` fails on an undefined name after its commit (`auth.py:478`),
  while `tests/integration/test_auth.py:229-262` expects an answer;
* the delivery status endpoint returns the agent's own confirmation as
  `admin_reply` (`routes.py:212-225`);
* an ACCEPTED ride cannot be cancelled in the chat, which answers that there is no
  active ride (`agent.py:569-572`);
* the agent says the service runs 24/7 (`agent.py:597`) and refuses rides outside
  its hours (`agent.py:346-348`);
* `_handle_destination_change` is reached by no intent and writes columns that do
  not exist; `recalculate_driver_rating` (`dispatch_tasks.py:194`) is rejected by
  PostgreSQL, `remind_admins_delivery` (`dispatch_tasks.py:226`) uses names it does
  not import and no schedule starts it;
* a message is given to the model twice, as history and as the current one, and the
  messages of one transaction share their `created_at`, by which `context.py:39`
  sorts them;
* `resolved_at` stays when an administrator reopens a delivery;
* a decline ignores that the redispatch found nobody (`dispatch.py:380`): the ride
  stays REQUESTED and the passenger is told nothing;
* `create_admin` and an administrator's withdrawal commit before the audit row
  (`admin.py:904`); a logout that names no device leaves its push token active
  (`auth.py:510`).

Seen, and true of overlapping handlers only:

* completions of one ride run twice; a late GPS update moves a
  ride that was cancelled, declined or completed; a driver with two live rides makes
  his GPS updates fail (`dispatch.py:638`);
* a timeout task of an earlier offer strikes a driver who still has time; two
  strikes counted together miss the third;
* a renewal of a
  suspended driver (`admin.py:267`) lets the end of his last ride free him ONLINE;
* the last of two changed passwords stays (`auth.py:317`);
* two first requests of one number: the second fails on the unique constraint
  with an error 500 (`models.py:144`);
* a chat turn keeps its database connection through both calls of the model
  (`db/session.py:48`), and a cancellation the lock of its ride (`agent.py:556`): up
  to 30 s in which taps and tasks of that ride wait, and 30 slow turns exhaust the
  pool.

## 4. Fairness

Safety runs assume none. The liveness runs assume the following.

* `WF(Continue(w))`: a coroutine that has started is resumed until it returns;
  all its awaits are on calls that answer or fail.
* `WF(Tick)`: time passes.
* `SF(TimeoutFires)`, `SF(AutoCompleteFires)`: Celery serves its queue in order,
  so a due task gets a worker although workers are taken again and again. Weak
  fairness is not enough: a worker that is free now may be busy next.
* `SF` of the notification of a completed order: PesaPal repeats it, and the API
  answers whenever it is not busy with something else.
* `WF(SubscriptionCheck)`: beat starts the task every day. It is a process of
  its own, and its UPDATE is enabled as long as someone has expired.
* `WF(Continue(w))` and `WF(Relay(n) \/ RelayFails(n))` in `Conversation`: the event
  loop runs every coroutine and every task it was given, and the client of the model
  has a time-out of 30 s, so that each wait ends with an answer or an exception.
  `ReplyReachesPassenger` needs the second one only.

`Sessions` has safety properties alone: a code or a token that is never used breaks
no promise.

`run_async` (`dispatch_tasks.py:56-62`) makes a new event loop for each task, and
the connection pool and the Redis client may still hold connections of an earlier
one; that tasks get through their first await is therefore an assumption about the
deployment. Clients are under no fairness: nobody has to tap anything.

## 5. Proofs

All theorems are for arbitrary sets of rides, drivers, users, rows, documents and
workers and arbitrary limits, from the named assumptions on the constants only.

| Theorem | Says |
|---|---|
| `DispatchProofs!TypeCorrect` | types of rows, keys, queues and requests |
| `DispatchProofs!OffersNameDrivers` | a waiting ride names no driver, an offered one does |
| `DispatchProofs!SettledRidesArePriced` | no COMPLETED or PAID ride without a final fare |
| `DispatchApartProofs!RidesServedByDriver` | a ride matched, under way or settled names its driver (\*) |
| `DispatchApartProofs!ReassignmentsAreCounted` | every reassignment is counted, up to the limit (\*) |
| `DispatchApartProofs!MatchesAreFromPool` | the driver matched is still in the pool (\*) |
| `DispatchApartProofs!DispatchImplementsLifecycle` | `Dispatch` implements `RideLifecycle` (\*) |
| `WalletProofs!BalancesNeverNegative` | types; no balance below zero |
| `WalletProofs!PaidRidesHaveCommission` | no PAID ride without a COMMISSION row |
| `WalletProofs!SettledRowsAreAtGateway` | COMPLETED rows are money received or paid out, if callbacks carry the ids of one order |
| `WalletProofs!OnePaymentEachAlways` | each time it is on the road a ride is charged once per handler in flight at most |
| `WalletProofs!WalletImplementsPurse` | `Wallet` implements `Purse` (\*) |
| `WalletProofs!LedgerAlwaysReconciles` | the ledger's rows account for the balances (\*) |
| `StandingProofs!TypeCorrect` | types of rows and requests |
| `StandingProofs!SuspendedStayOutOfPool` | a suspended driver is not in the pool |
| `StandingProofs!LastStrikesSuspend` | the strike that reaches the limit suspends (\*) |
| `ConversationProofs!TypeCorrect` | types of rows, messages and requests |
| `ConversationProofs!FaresAlwaysClean` | fares are multiples of 100, not below the minimum |
| `ConversationProofs!QuotesAlwaysFitRoute` | quotes fit the stored route within the slack of its rounding |
| `ConversationProofs!RatingsAreOfReaders` | a rating is written as often as handlers found none together, at most |
| `ConversationProofs!NoHalfTurnsEver` | turns are saved whole |
| `ConversationProofs!ResolvedAlwaysStamped` | a resolved delivery has its `resolved_at` |
| `HelpdeskProofs!ConversationImplementsHelpdesk` | `Conversation` implements `Helpdesk` |
| `SessionsProofs!TypeCorrect` | types of rows, counters and requests |
| `SessionsProofs!RequestsLimitedAlways` | from one login to the next the limit is exceeded by the handlers that asked together at most |
| `SessionsProofs!RotationReplacesAlways` | live tokens of one login: one per handler at most |
| `SessionsProofs!OneSessionPerOtpAlways` | sessions of one code: one per handler at most |
| `SessionsProofs!ResetCodeUsedUpAlways` | uses of one reset code: one per handler and fault at most |
| `SessionsProofs!CountersExpireAlways` | a counter without expiry is the work of a fault |

(\*) as long as handlers stay apart: the theorem is `Spec /\ []Apart => ...` in
`DispatchApartProofs` and `WalletProofs`, `Spec /\ []StrikesApart => ...` in
`StandingProofs`, with the definitions of section 3 and no other hypothesis. TLC shows
these properties false, or the code shows them false, without it. A run of handlers one
at a time satisfies it, and so do the 1 406 000, 180 000 and 1 820 000 states of these
runs, where two handlers are in flight. All theorems are for any number of workers.

*Assumptions on constants* are those of the modules, each beside the CONSTANTS.
`WalletAssumption` has the identifiers of top-ups, rides and withdrawals disjoint,
as UUIDs of rows are. It also has
finitely many workers, because `OnePaymentEach` counts them, as `RatedByReaders` does in
`ConversationAssumption`. `NotificationsMatch` is about PesaPal, not about this code, see
`Wallet` in section 2; `SettledRowsAreAtGateway`, the ledger and the refinement rest on
it.
`PricingAssumption` has a minimum fare that is a round hundred: with another one, a
fare could be rounded below it.

*The arguments.* No invariant here is inductive alone: a handler acts on what it
read some steps ago.

* *Under every interleaving* (`Dispatch`, `Wallet`, `Standing`). Each proof adds
  `Sound(w)`, what a worker at a given point relies on without looking again, and
  `IInv` is types, the invariants on the rows, and `Sound` of every worker. A step of
  `w` must restore `Sound(w)` and keep `Sound` of the others, which it does because
  it keeps what they rely on: `FaresKept` (a fare once set is never unset), `Kept` (a
  created order or row keeps its user, a completed order stays completed, a payout
  stays paid). In
  `Wallet` this is why lost updates never make a balance negative: what a handler
  writes is computed from the very reading it tested. `SuspendedInv` adds that a suspended account has no subscription,
  which the pool asks for; only a renewal breaks that.
* *Handlers that stay apart.* `Held(w)` says what a handler in flight still finds true of
  the rows it read. In `DispatchApartProofs` that is the status, the driver, the count a
  decline has read, and that the driver it is about to match is in the pool; `HeldInv` is
  `Held` of every worker, `ServedByDriver`, and `KeyFits`: an acceptance key names the
  driver the ride is matched with, which is what makes an accept safe although it looks
  at nothing else. In `WalletProofs` it is the
  status, the balances, and that a ride about to be charged is `Unpaid`: it was put on
  the road more often than it was charged. A step of `w` restores `Held(w)` because `w` writes what it
  read, and keeps `Held` of the others because what it writes is its own: its ride and
  its driver (`OwnWrites`), the rows and balances of the users it concerns
  (`WritesAreOwn`), which `Apart` keeps from theirs. Each commit is then exactly one
  step of `RideLifecycle` or `Purse`, and every other step a stutter. The runs without
  the constraint are the ways to lose `Held`.
* *Standing.* `CountInv`: a strike in flight has counted more strikes than are
  committed - they may age after they were counted, and only another strike of the same
  driver adds one.
* *The ledger.* `LedgerReconciles` counts rows: a payment row of ride `r` is a pair
  `<<r, n>>`, so that sums over rides are cardinalities and a new row is one more
  element (`RowAdded`, `WorthAdd`), without induction. `LedgerInv` adds that the rows
  of each user are finite in number, and counts the withdrawals that failed as taken,
  because the code does not give them back; `LedgerReconciles` leaves that open, so it
  would also hold of code that does.
* *One payment for each.* `ChargeInv`: the payments of a ride and the handlers that may
  still charge it are together no more than the workers, for each time it was put on the
  road; and a ride under way has a round of workers left. A handler joins only then.
* *Quotes.* `FitInv` says of every quote on its way from the arithmetic to the ride that
  it `Fits`: the rounding of kilometres and minutes moves the price by at most
  `Spread`, half a unit of each times its price. The products are taken apart into
  lemmas with one unknown each, so that what is left to the solver is linear.
* *Conversation.* `RequestInv` (a handler carries a ride that exists, and a clean
  quote), `RideInv` (no data without a ride, clean fares) and `RelayInv` (a relay has
  its message). `FareClean` is a lemma on `CalculateFare` for all metres and
  seconds. `RatedInv` counts the
  ratings written and the handlers that found none. For the refinement, `DeskInv` adds
  who may still open a ticket - one handler - and that a reply is about one ticket.
* *Sessions.* These invariants count. `LimitInv`: the counter and the handlers about
  to increment it together stay within the limit; `WindowInv`: what passed is the counter
  and one such limit for each login that deleted it. `RotationInv`: the later tokens of a
  login and the handlers that hold its token to rotate it are at most the workers,
  and there is no later one while the login's token is live. `OtpInv` and `ResetInv`
  do the same for codes and the handlers that have read them; `ResetInv` excuses
  one round of handlers for each fault, as a fault between the commit and the
  deletion leaves the code usable. `Stuck` are the counters without expiry that
  nobody is about to give one; a fault adds one per worker at most. Cardinalities are
  handled with the library's theorems on finite sets.

*Only model-checked.* Liveness (`ArrivedRideCompletes`, `ExpiredLeavesPool`,
`ReplyReachesPassenger`), which depends on fairness and ENABLED, out of the prover's
reach. Every invariant, action property and refinement of a passing run is a theorem.

## 6. Not modelled

* *Celery's event loops* (`run_async`): see section 4. Its two broken tasks change
  nothing and are left out.
* *The administrators' dashboards* and all lists and figures only read. The PIN of
  administrators and the registration of devices store what no modelled handler
  reads.
* *Geocoding, pushes, SMS, file storage, audit, logging* are output or input of
  outside services, which no step depends on.
* *Locations and scores.* A driver at hand may be found or not; which one of the
  pool is picked is open, so what is shown holds for every score.
* *The language model*: any intent, any error, any text.
* *Floats, the haversine, coordinates, message texts and the amounts of single
  rides* are abstracted; migrations, configuration and start-up run once.
* *The connection pool's limit* and other matters of load.

## 7. Plan

1. `Dispatch`, `RideLifecycle` and their refinement; overlap, apart and liveness
   runs; invariants proved; the refinement proved for handlers that stay apart. *Done.*
2. `Wallet`, `Purse` and their refinement, with their proofs. *Done.*
3. `Standing`, with the proofs of its safety properties. *Done.*
4. `Pricing`, `Conversation`, `Helpdesk` and their refinement, with proofs. *Done.*
5. `Sessions`, with the proofs of its safety properties. *Done.*
6. A composition of `Dispatch` and `Standing` over the shared columns `availability`
   and `subscription_active`. Today each has what the other
   writes there as steps of an environment (`NoShowStrike` and `SubscriptionExpires`
   in `Dispatch`, the rides counted in `Standing`), which covers the interleavings
   within each, but not a promise about both. *Open.*
7. The ledger as counts of rows, so that `LedgerReconciles` becomes a theorem without
   induction; the refinements for any number of handlers in flight. *Done.*
8. Celery, free taps and the free switch in the refinement of `RideLifecycle`, and
   reopened rides in `Purse`. *Done.*
9. A wallet whose rides may change drivers between two trips, which needs `Dispatch` and
   `Wallet` composed over `rides.driver_id`. *Open.*
