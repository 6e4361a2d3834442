# Elchi parcel marketplace: TLA+ models, checks and proofs

Elchi lets clients send parcels between cities with private drivers. A client
publishes an order, matched drivers bid, the client selects a bid, the driver
moves the parcel along, the client confirms. Staff can correct, assign and cancel,
and disputes can suspend an order. The server is a FastAPI application whose
handlers run in worker threads and share one PostgreSQL database.

The order is the heart of it: five services write the same
row, some under `SELECT ... FOR UPDATE`, some from a plain read. This
development models those services on their shared rows, checks what must hold
when requests overlap and what holds only when they do not, and proves the most
important invariants for every number of orders, drivers, threads and prices.

The people on the other side use three programs: a mobile app with a built-in
admin desk, a web front end, and an Android app. What these show and send
depends on answers that arrive late, out of order or not at all. The second half of
this development models the sign-in session that all calls share, and the screens.

## 1. Inventory

Server paths are relative to `app/`. *M* modelled, *P* partly, *-* not yet or not.

| Component | State | Operations | Hard behaviour | What makes it correct | |
|---|---|---|---|---|---|
| client orders (`services/order_service.py`) | `orders`, `bids`, `order_offers`, `status_history` | create, publish, edit, cancel, select, confirm, rate | publish, edit and cancel decide on an unlocked read and write later | a cancelled order stays cancelled; no cancellation after pickup; a published route stays; confirmed means paid | P |
| driver orders (`services/driver_order_service.py`) | the same | bid, change a bid, decline, pickup, transit, delivered, cancel | bids and declines are unlocked; the delivery steps lock the order after reading the driver | bids on open orders only; three price changes at most; the client pays the bid; one accepted bid | M |
| matching (`services/matching_service.py`) | `order_offers` | match drivers to a published order | uses the route as read by `publish_order` | an offer that was answered is not offered again | M |
| admin orders (`services/admin_order_service.py`) | the same, and the rate | set status, assign, cancel | can jump the lifecycle in any direction | payment, price and driver still fit the status | M |
| disputes (`services/dispute_service.py`) | `disputes`, the order's status | open, update and settle | no uniqueness constraint; the order may have moved on; repeated settlements | one active dispute; a disputed order can be settled; settled is final | M |
| commission (`services/system_settings_service.py`) | `system_settings` | change the rate; split a price | two roundings | fee and income add up to the price; none is negative | M |
| account deletion (`services/account_deletion_service.py`) | `users`, `driver_profiles`, `driver_routes` | delete own account | unlocked; orders in flight are tested earlier | no order is under way with a deleted driver | P |
| driver accounts (`services/driver_service.py`, `admin_driver_service.py`) | `driver_profiles`, `driver_routes`, documents | availability, block; profile, documents, approval, routes | going online races with being blocked | a blocked driver is not online | P |
| authentication (`services/auth_service.py`) | `otp_codes`, `refresh_sessions` | request and verify a code, refresh, logout | counters and revocations without locks | guesses are limited; a device is not left with a dead session | P |
| HTTP client and stored session (`api/http.ts` and `auth/AuthContext.tsx` of the three programs, `auth/SessionProvider.tsx` of the Android app) | tokens and user in the storage, the user on the screen | call with one renewal and repetition, sign in, sign out, start-up, reload | overlapping refreshes, lost answers, answers to a former session | the stored token is usable; the screen shows its owner; the start screen goes away | M |
| mobile app, client and driver (`mobile-app/src/app/ConnectedApp.tsx`) | screen, wizard, order on display, route form, the busy flag | every button, and what the answers change | answers after the user went on; one flag for all works | acts on the order shown; a form is sent once and keeps its content | P |
| mobile app, admin desk (`mobile-app/src/app/Admin*.tsx`) | filters and rows, drawer and dialog, staff session | search, open, change, sign in and out | list answers in any order; dialogs over a drawer that reloads | rows match filters; changes go where they were asked | P |
| web front end (`frontend/src/app/App.tsx`) and Android app (`android-app/src`) | page and tokens by role, the wizard's draft, the order open, the desk's forms | sign in by role, choose a route, publish, advance an order, edit a record | one store of tokens for two roles; the current location found late; reloads under the screen | the page is that of the tokens; the draft holds what was confirmed; a bid's sheet tells of its own bid | P |
| ratings (`order_service.py`, `models/rating.py`) | `ratings`, profile average | rate a driver | average recomputed from a stale set | one rating per order; the average is that of the ratings | - |
| cities and tariffs (`services/city_service.py`) | `cities`, `districts`, `route_tariffs` | create, edit, deactivate | uniqueness tested, not constrained | one active tariff per pair | - |
| notifications (`services/notification_service.py`) | `notifications` | create, list, mark read | - | read marks only grow | - |
| SMS gateway (`services/sms_service.py`) | cached token | send, retry after a 401 | token shared by threads | one retry, with a fresh token | - |
| client accounts, geography and maps, audit log, the prototype `mobile-app/src/app/App.tsx`, migrations | none that a handler decides on | | | | - |

On the server the services interact through rows only: no service calls another one with
consequences for an order, except that `publish_order` calls the matching
service, `select_driver_for_order` and `assign_driver_manually` call
`calculate_order_income`, and every status write adds a `status_history` row.
An eligible driver is one whose user is active, whose profile is approved and who
is available, so account operations change who may bid.

The programs on the devices interact with the server by HTTP calls and among
their own parts through the variables that screens share and the tokens in the
device's storage. Their state is touched by two sides: the user, who may go on at any moment,
and the answers, which come late, in any order, or not at all.

`PROJECT.json` lists each hazard of this code at its line, with the
properties that would catch it.

## 2. How the code is modelled

The order core:

| Module | Models | Main definitions |
|---|---|---|
| `Commission` | the money and rate arithmetic | `RoundHalfUp`, `PercentToRate`, `OrderIncome` |
| `OrderData` | the rows, transactions and worker threads | the variables, `Init`, `Begin`, `Finish`, `Abort`, `WriteStatus`, `Eligible` |
| `ClientOrders` | `order_service.py`, `matching_service.py` | `CreateOrderDraft`, `Begin/CommitPublish`, `Begin/CommitEdit`, `Begin/CommitCancel`, `SelectDriver`, `ConfirmDelivered` |
| `DriverOrders` | `driver_order_service.py` | `Begin/CommitBid`, `Begin/CommitUpdateBid`, `Begin/CommitReject`, `BeginDelivery`, `CommitMark`, `CommitDriverCancel` |
| `AdminOrders` | `admin_order_service.py`, the rate | `UpdateOrderStatus`, `AssignDriver`, `CancelOrderManually`, `UpdateDriverCommission` |
| `DriverAccounts` | availability, blocking, deletion | `Begin/CommitGoOnline`, `GoOffline`, `BlockDriver`, `Begin/CommitDeleteAccount` |
| `Disputes` | `dispute_service.py` | `OpenDispute`, `UpdateDispute` |
| `Marketplace` | all of them together | `Next`, `Spec`, the properties |
| `OrderLifecycle` | the repository README's "Order Lifecycle": abstract specification | `Advance`, `Accept`, `Cancel`, `RaiseDispute`, `Settle` |

Sessions and the programs on the devices:

| Module | Models | Main definitions |
|---|---|---|
| `Sessions` | `auth_service.py`'s refresh sessions with `http.ts`, `AuthContext.tsx` and `SessionProvider.tsx` of one device | `StartWork`, `ServeLogout`, `ReadSession`, `Rotate`, `Lose`, `OnUnauthorized`, `OnRotated`, `Settle` |
| `AppShell` | the frame of `ConnectedApp.tsx`: screens, `go`, `run`, signing in; the one-time code of `auth_service.py` | `Go`, `Run`, `Lower`, `VerifyRead`, `VerifyWrong` |
| `ClientScreens` | the client's screens of the mobile app | `Publish`, `BeginEditOrder`, `ConfirmSheet`, `UploadAnswered`, `NoticeRead` |
| `DriverScreens` | the driver's screens of the mobile app | `StartEditDriverRoute`, `SaveRoute`, `OrderShown` |
| `AdminLists` | the tables of its admin desk | `ChangeTab`, `AppliedFilter`, `CapturedPause`, `OpenRow`, `Listed` |
| `AdminRecords` | the drawers and dialogs of its admin desk | `LoadTable`, `OpenRecord`, `GoOn`, `AskInDrawer`, `Submit`, `BesidesLoaded` |
| `AdminStaff` | the staff session of its admin desk | `Login`, `LoadAll`, `Renewed`, `RenewRefused`, `Logout` |
| `MobileApp` | the mobile app: all of the above but `Sessions` | `Next`, the properties |
| `WebSignIn` | signing in by role, web and Android | the check of a stored session, renewals, the gate |
| `WebClient` | the client's page: choice of the route, publication, orders | `HandleCity`, `HandleConfirmLoc`, `MapPicker` |
| `WebDriver` | the driver's page: the active order, its steps, the sheet of a bid | `Ask`, `Unmounted`, `SheetTold`, `NextStatus`, `Reopen` |
| `WebDesk` | the admin desk of the web front end | `Mount`, `OpenVehicle`, `DeskAnswered` |
| `WebApp` | web front end and Android app together | `Next`, the properties |

Instances for TLC are `MCMarketplace`, `MCSessions`, `MCMobileApp` and `MCWebApp`.
Theorems and proofs are in `MarketplaceProofs`, `SerialProofs`, `SessionsProofs`,
`MobileProofs`, `ScreenProofs` and `WebProofs` (section 5).

### Transactions of the server

`db/session.py` sets no isolation level, so the database runs at READ
COMMITTED, with one transaction per request. A handler that begins by locking
the order row is one action. A handler that begins with a plain read is two:
`Begin...` reads and makes the decisions of the code, and remembers in `req[r]`
the values it will write or test; `Commit...` writes them to the rows as they are
by then. Other requests may commit in between. SQLAlchemy sends only the columns
whose value differs from the one that was read, so a commit overwrites those
columns and no others: a cancellation that read `accepted` sets `status` and
leaves the driver and the price alone.

The worker threads are `Slots`. With one thread nothing overlaps: a `FOR
UPDATE` handler needs a free thread (`FreeWorker`), so between a `Begin` and its
`Commit` nothing else happens. With two threads a handler overlaps with one other
unlocked handler or with any number of locked ones, which is enough for each
stale read in the code, since each concerns one reader and one writer.

`Abort` ends a begun request with no effect: a unique constraint refuses the
row, PostgreSQL picks the transaction as a deadlock's victim, the connection is lost, or the locked
row no longer passes the tests. An early return is no step at all.

### Calls and screens of the devices

What a user does up to the first request is one action; what the script does with
an answer, up to the next request or the end, is another. JavaScript runs each such
piece without interruption, so nothing is lost by this grain. In between anything else
may happen: other buttons, other answers in any order, a reload.
A call in flight is a record that holds what the code's closure holds: the
token it was made with, the record it is for, the screen it will go to.

`Sessions` models the server's side as well, with the same split of an unlocked read and a later write
(`ReadSession`, `Rotate`). A request or its answer may be lost at any time
(`Lose`), and a page that is gone leaves its requests behind (`Reload`, `Vanish`).
In the other modules the server answers with anything it could
answer: success, an error, for an order any status. What it keeps is the
subject of `Marketplace` and `Sessions`.

A component that leaves the screen forgets its state, and its calls answer nobody: in `WebDriver` a call
knows whether what made it is still there (`own`). A flag that several works share is one variable of the model too, so
`AdminRecords` has the loads of the table among its works, and `AdminLists` the opening of a row.

Modules of screens that share no state are put side by side in one
specification, of which a behaviour picks one (`surface` in `MobileApp`, `part` in
`WebApp`): a product of all would multiply states without adding a behaviour.

### Correspondence of the state

| Variable | In the code |
|---|---|
| `orders[o]` | `status`; `route` (the city and district columns); `assigned` = `assigned_driver_id`; `acceptedBid`, named by its driver, since (order, driver) is unique; `final` = `final_price`, `system_fee_rate`, `system_fee`, `driver_income`; `paid` = the payment status |
| `bids[o][d]` | `status`, `price`, `updates` = `price_update_count` |
| `offers[o][d]` | the offer's `result`; its `status` is written next to it and never read to decide |
| `history[o]` | the newest row of `status_history`; older ones are never read to decide |
| `drivers[d]` | `verification_status`, `is_available`, the status of the user, the active routes |
| `rate` | the commission in ten-thousandths |
| `disputes[k]` | order, status, `previous_order_status`, in the order of insertion |
| `req[r]` | what the request in thread `r` has read and will write |
| `session`, `owner`, `issued` | the rows of `refresh_sessions`: whether revoked, and whose; a token stands for the access and refresh token issued together |
| `stored`, `shown`, `loading` | `tokenStorage` and the stored user; `user` and `isLoading` of `AuthContext`, or `status` of `SessionProvider` |
| `job`, `call`, `list`, `work`, `waiting`, `ccalls`, `dcalls`, `dwork` | the works and calls in flight |
| `busy`, `listBusy`, `deskBusy`, `pageBusy` | the flag of that name in the component |
| `code` | the newest row of `otp_codes` for the phone, and how often it was guessed at |
| `editing`, `form`, `detail`, `selected`, `bidsOf`, `sheet` | `editingOrderId`, `orderForm`, `orderDetail`, `selectedOrderId`, `bids`, `confirmAction`: of each, whose content it holds |
| `tab`, `draft`, `filter`, `pause`, `rowsOf` | `activeTab`, `draftFilters`, `filters`, the timer of a typed search, the filters of the rows shown |
| `drawer`, `besides`, `dialog`, `due` | `selectedOrder` and its like, the drivers, districts or reverse tariff loaded for it, the dialog open, the timer of a typed search |
| `page`, `saved`, `staff` | which role's page shows, whose tokens are stored |
| `ends`, `pending`, `picked` | the draft's two ends, `pendingCity` and `pendingDist`, what the user confirmed |
| `opened`, `active`, `sheet` of `WebDriver` | `detailId`, `activeOrder`, `bidOrder` with the state `st` of `BidSheet` |

Variables marked *history* in their declaration are not in the code: they
remember that a behaviour went through something a property excepts, and no guard reads them.

### What is left out

Of the server:

* Timestamps, addresses, comments, contact data, map coordinates, notifications
  and audit rows: nothing in these handlers decides on them. The foreign-key
  locks that an inserted notification takes matter to deadlocks only.
* All the reads of one unlocked request happen at one moment (READ
  COMMITTED lets them happen at several), and in `SelectDriver`, `AssignDriver`
  and `OpenDispute` the reads of the driver and user count as part of the locked
  step. The delivery steps, where that gap is part of the behaviour, do have it.
* Drivers begin approved and online, with all the routes of the instance. How they
  get there is planned (module `DriverVerification`). Blocking is not undone.
* One client owns every order. Who may see which row is tested before the
  handlers modelled here by the identity of the client. `super_admin` acts as `admin`.
* An edit that keeps the route, a bid with an unchanged price and the updates of
  a dispute that change only its comment leave the modelled rows alone.
* Of `auth_service.py`: the limits per phone, per day and of resending in `request_otp`, several
  devices that guess at one code, expiry dates (a token or code may turn out
  expired at any time) and the creation of the user at the first sign-in.

Of the programs on the devices:

* Typed text, prices, pictures, income, profile and document fields, languages and
  themes: of a form it is followed whose content it holds and whether it can be sent.
* `App.tsx` of the mobile app is a prototype with invented data: its last line exports
  `ConnectedApp` in its place. The web front end's `App.tsx` is another file.
* The filters and rows of the web's admin desk; the same questions are asked of
  the mobile app's desk in `AdminLists`.
* A device belongs to one person, so in `AppShell` the role chosen never changes;
  the web, where both roles share one store of tokens, has `WebSignIn`.
* The check of the stored user at start-up, and reloads, are in `Sessions`; `AppShell` starts after it,
  and keeps of `refreshMe` that it may sign out.

### Bounds

`Orders`, `Drivers`, `Slots`, `Routes`, `Prices`, `RawPrices`, `Percents` and
`Ops` (the endpoints in use) are finite in every run; `MaxDisputes` bounds the
rows of `disputes` in the guard of `OpenDispute`. No counter is cut
off: price changes stop at `MAX_BID_PRICE_UPDATES` because the code stops them.
One order is enough: no handler relates two orders, except the test
before an account is deleted, and that one quantifies over orders independently.
Two drivers are enough for an auction: every property relates the
selected bid and one other. Two disputes let a settled one interfere with a later one.
`Works`, `Calls`, `Lists`, `Desks`, `SignCalls`, `WebCalls`, `DriverCalls` and `DeskCalls` bound the calls
in flight at once, with two each: one to wait and one to come in between, which is what every
excepted or excluded overlap consists of. `Overlapping` names the works that start
though another is in flight: those that a flag should hold back; the others
would overlap in the same way. `Statuses` are those in which orders are shown, `MaxAttempts` = 2 the limit of
guesses, so that two overlapping guesses matter. `OtpLength` = 6 is the length the mobile app's button asks for; the
server's default is 4 and `.env.example` says 5, with which that button is never enabled and no guess is sent at all.
`WideTab` is the orders panel's tab of two statuses. `MaxToken` = 3 bounds the tokens issued, in
the guards of `ServeLogin` and `Rotate`: one to start with, one per call in flight; when they are used up the
server can still answer with an error. Two orders, records, routes, cities (one with districts)
and members of staff tell one's own from another's.

The proofs of section 5 drop all these bounds.

## 3. Properties and runs

`SYMMETRY` is used on drivers, orders and calls in flight, in runs without liveness, where the specification treats
them alike. `MobileApp` and `WebApp` are checked for deadlock: there is always a
button, or an answer to come. Elsewhere it is not: a market whose orders are all cancelled or confirmed may
rightly stop, and with `MaxDisputes` reached and every driver gone nothing is left to do; a device at rest whose server has no
tokens left to issue may rest.

| Run | Instance | Shows |
|---|---|---|
| `SerialLifecycle` | one thread, two drivers, two disputes, no manual status | `ImplementsLifecycle`: each step of each service is a step of the documented lifecycle, by a party that may take it (798 thousand states) |
| `SerialOverride` | one thread, one driver, manual statuses and a dispute | `ConfirmedIsPaid`, `HistoryIsChain`, `CancelledIsFinal` |
| `SerialAuction` | one thread, two drivers, two prices, two routes, account operations | `AuctionIsSettled`, `ClientPaysTheBid`, `DeclinedIsNotActive`, `BlockedIsOffline`, `DeletedDriverCarriesNothing` (787 thousand states) |
| `ConcurrentAuction` | two threads, two drivers, two prices, a commission of 33.33 % | `MarketTypeOK`, `OneAcceptedBid`, `AssignmentIsPriced`, `BidAnswersOffer` survive every overlap (1.0 million states) |
| `ConcurrentDelivery` | two threads, one driver, manual assignment, two disputes | `AssignmentIsPriced`, `ConfirmedIsPaid`, `OneActiveDispute`, `DisputedCanBeSettled`, `DeliveryHasDriver` (2.1 million states) |
| `OverlappingCalls` | one device, two users, two calls, three tokens; both shells; fairness | `StoredTokenIsUsable`, `ScreenMatchesTokens`, and the liveness `StartCompletes`, `CallsSettle` (459 thousand states) |
| `MobileApp` | two orders, routes, records, members of staff, two works or calls | `ActsOnShownOrder`, `RatesConfirmedOrder`, `FormsKeepContent`, `PublishedOnce`, `GuessesAreLimited`; `RowsMatchFilter`, `TabMatchesFilter`, `ChangesWhatWasAsked`, `ShownDriversAreEligible`, `StaffPageMatchesTokens` (2.2 million states) |
| `WebApp` | both builds, two cities, two orders, two calls | `PageMatchesTokens`, `DraftKeepsChoices`, `DraftPublishedOnce`, `SheetTellsOfItsBid`, `VehicleFormIsTheDrivers` (1.8 million states) |

The first three runs say what the services promise to someone whose requests do
not overlap with others; the next two what is left when they do. Some invariants
hold only without staff corrections, and say so: an administrator can set
`disputed` with no dispute in the table, or `delivered` with no driver.

Most properties of the screens carry an exception: `~disturbed`, `~unlocked`, `~overtaken`, `~crossed`,
`~late` and so on. These are what the code does not guard against, found by TLC when
the property was stated without it, and named in the comment of the property:

* `ConnectedApp`'s one busy flag is lowered by whichever work ends first
  (`unlocked`): the code sent again, whose button nothing holds, frees the verify button under a guess, and the
  server then counts two guesses as one. So `GuessesAreLimited` is a statement about one device on which that does not happen.
* A user who goes on while a work is in flight gets the answer on top of the next screen (`disturbed`). The worst case
  is a confirmation during which another order is opened: the rating screen that follows rates that other order.
* The answers to two list calls may come in the wrong order (`overtaken`), and a filter changed
  within the 350 ms of a typed search is overwritten by the one captured before (`raced`).
  The orders panel's tab of two statuses asks the server for all of them, and leaves the choice to the select
  under it; `TabMatchesFilter` speaks of the tabs of one status.
* Works of a desk panel share a flag with the loads of its table, so any two of them may let a drawer change under
  its dialog, or offer the drivers of the former order (`crossed` of `AdminRecords`): refresh the orders, press
  "Manage" on another one, and when the list arrives "Assign driver" is free while the drivers are still on their way.
* Whoever signs out with a call in flight may find the former user back on the page when it is
  answered (`late`, `outlived`; `overtaken` of `WebSignIn` for two roles).
* A screen of the web left during its call forgets its busy flag (`crossed` of `WebClient`).

`SheetTellsOfItsBid` needs no exception: the sheet of a bid is unmounted when it is closed, and the answer to its bid
finds nobody to tell. Of the driver's other button nothing is stated: the Android app takes the order it shows and the order it
advances from one render. The web front end does not test that they are the same: a reload that
changes the active order under the page makes its button advance the other one, and with no active order the page
shows nothing and offers no way back (`DriverOrderDetail`, `Reopen`). No document speaks of either.

Percentages are chosen for their rounding: 15 % is the default; 33.33 % of 10 or
20 hundredths gives fees that have to be rounded (3.333 and 6.666); the price 70
thousandths is rounded to 7 hundredths, and its fee of 1.05 to 1.

### Disagreements with the documents

Each of these runs checks one sentence of the repository and ends in a
counterexample.

| Run | Sentence | What the code does |
|---|---|---|
| `LateCancel` | "Client cannot cancel order after pickup" | `cancel_order` tests a status it read without a lock; the pickup commits; the order is cancelled nevertheless |
| `SettledAgain` | "Resolved or rejected disputes are final" | the same final status is accepted again, and restores the order again, out of a newer open dispute |
| `DeletedMidDispute` | "Someone mid-delivery cannot disappear" | `disputed` is not among the statuses in flight; after the settlement the order is on its way with a deleted driver |
| `LogoutAfterExpiry` | "logout revokes refresh token" (`docs/stage_1_improve.md`) | a sign-out whose access token has expired renews the session and repeats the request with its first body: it revokes the token already replaced, and drops the new one alive |

The cause of `LateCancel`, an unlocked read, breaks six more statements about the services, three of which
a document makes as well. They can be reproduced with two threads and the endpoints named here, and are not runs of their own:
`BidsOnOpenOrders` with `bid` and `cancel` ("Driver can bid only on published or bidding orders",
`codex_backend_development_plan_v10.md`: a bid is stored on a cancelled order and reopens it),
`PriceChangesAreCounted` with `update_bid` and three prices ("Three price changes are allowed", `tests/test_driver_feed_bids.py`:
two changes read the same counter, and a fourth is possible), `PublishedRouteIsLocked` with `publish`, `edit` and two routes
("E'lon qilingan buyurtmada yo'nalishni o'zgartirib bo'lmaydi", the answer of `update_order`: the route of a published order changes),
`ClientPaysTheBid` with `update_bid` and `select` (the price of a selected bid changes),
`CancelledIsFinal` with `publish` and `cancel`, `BlockedIsOffline` with `availability` and `block`.
The first three are in no run: with one thread nothing comes between a test and its write, so that a run would
only restate the test. What the code owes to every other handler they say as theorems (section 5).
`AuctionIsSettled` fails under manual statuses and disputes even serially: an order taken back to
`bidding` and then assigned by hand keeps the bid it had accepted before.

Each property of a passing run has a mutant in `PROJECT.json`: a plausible bug
in one definition, written next to it in its module, that TLC finds with that property.

## 4. Fairness

`Sessions` has `FairSpec`: for each call, weak fairness of `ServerStep(c) \/ Lose(c) \/ ClientStep(c)`. A request
that was sent is answered or fails - the browser's `fetch` always settles - and the script runs on
when it has. Nothing is assumed of users, who need not start anything, nor of which
answer comes: the server may refuse, fail or lose every request. Under it the start
screen goes away (`StartCompletes`), and every call ends (`CallsSettle`), although a call repeats
itself after a 401. Without the flag `retried` it would not.

No fairness is assumed elsewhere. Whether a client selects, a driver delivers or staff settle a dispute is up to
people, and a worker thread may die between two steps, so the code justifies none for these actions
and no liveness is claimed. `DisputedCanBeSettled` is the safety half of such a
claim: what is needed for a disputed order to leave that status is always there. The
order of row locks, where the server itself must make progress, is planned as `LockOrder`.

## 5. What is proved

### The order core

`MarketplaceProofs`, for every value of the constants that satisfies the named
assumptions (`InputsAssumption`: positive prices, percentages up to a hundred;
`NoneIsFresh` and `DisputeIsFresh`: NULL is no value of a column;
`MaxDisputesAssumption`). Neither finiteness nor the number of threads is assumed.

| Theorem | Statement | Argument |
|---|---|---|
| `FeeSplitsPrice` | fee and income add up to the price, none is negative | `FeeIsBounded`: a price times a rate of at most 1, rounded half up, is at most the price |
| `TypeCorrect` | `Spec => []MarketTypeOK` | `TypeInv` |
| `PaidWhenConfirmed` | `Spec => []ConfirmedIsPaid` | `PaidInv`: also every dispute that remembers `confirmed` belongs to a paid order |
| `SingleActiveDispute` | `Spec => []OneActiveDispute` | inductive with the types: only `disputes` matters |
| `DisputedIsNotStuck` | `DisputedCanBeSettled` without manual statuses | inductive with the types: a stale write can take an order out of `disputed`, never into it |
| `DeliveryIsCarried` | `DeliveryHasDriver` without manual statuses | `DriverInv`: also every dispute that remembers a status from acceptance to confirmation belongs to an order with a driver |
| `OneBidWins` | `OneAcceptedBid` without manual assignments | inductive with the types: a selection closes every other bid, no other step accepts one |
| `AssignedIsPriced` | `Spec => []AssignmentIsPriced` | `PricedInv`: driver, price and accepted bid are written together or not at all, and a bid once made is never deleted (`AssignmentEffect`) |
| `BidsAnswerOffers` | `Spec => []BidAnswersOffer` | inductive with the types: an offer once answered is offered again by no step, stale matching included (`BidEffect`) |

`MarketTypeOK` is not inductive: a `Commit` writes what its `Begin` read, possibly
long before. `TypeInv` adds `RequestsOK`, which says of each begun request what its guards
established (the bid of a price change had been changed fewer than three times, an edit carries a route,
and so on). This is what bounds the counter at three though it is written from a stale
read. Likewise `ConfirmedIsPaid` and `DeliveryHasDriver` need a
statement on the statuses that disputes *remember*, since a settlement brings these
back when the order may have been through corrections and cancellations.

`OrderEffect` and the lemmas `HandlerEffect` and `RowEffect` say once, for all handlers that leave the disputes
alone, how an order's row can change; each invariant then argues on that and on
the two dispute handlers, instead of on each of the handlers again.

The hypotheses `"admin_status" \notin Ops` and `"assign" \notin Ops` are
needed: with these endpoints the statements are false, as section 3 says.

### The order core without overlaps

`SerialProofs` has what section 3 calls serial: one worker thread, stated as the
assumption `Serial == \A r, s \in Slots : r = s`, and any number of orders, drivers,
prices and disputes.

| Theorem | Property | Also assumed |
|---|---|---|
| `HistoryIsAChain` | `HistoryIsChain` | |
| `CancelledStays` | `CancelledIsFinal` | |
| `ClientCancelsInTime` | `ClientCancelsBeforePickup`, which the run `LateCancel` refutes for two threads | |
| `RouteIsLocked` | `PublishedRouteIsLocked`, which an overlap breaks (section 3) | |
| `BidsFindOrderOpen` | `BidsOnOpenOrders`, which an overlap breaks (section 3) | |
| `PriceChangesCounted` | `PriceChangesAreCounted`, which an overlap breaks (section 3) | |
| `DeclinedCannotWin` | `DeclinedIsNotActive` | |
| `BlockedStaysOffline` | `BlockedIsOffline` | |
| `PaidPriceIsTheBids` | `ClientPaysTheBid` | no manual assignment |
| `AuctionEnds` | `AuctionIsSettled` | no settlement, no manual status |
| `DeletedCarryNothing` | `DeletedDriverCarriesNothing` | no settlement, no manual status |
| `ServicesImplementLifecycle` | `ImplementsLifecycle` | no manual status |

The key is `ReadsAreCurrent`: what a pending request has read is what it will find, because
with one thread nothing happens between its `Begin` and its `Commit`. With it every handler, in
one step or in two, is one of the `AtomicStep`s on the rows of one order (`NextIsAtomic`): what its tests
established is true of the rows it writes. Every theorem then argues on these sixteen steps. It is also what fails
first when requests overlap: each counterexample of section 3 is a commit whose read is not current.

`AuctionEnds` and `DeletedCarryNothing` rest on `OpenIsUnassigned` (an order open for bids has no driver);
an old dispute settled again and a correction bring an order back to bidding with a driver, so without the hypotheses they are
false. `PaidPriceIsTheBids` needs the bid to be closed to changes wherever the order goes
(`AcceptedPriceInv`), disputes and corrections included; a driver assigned by hand is paid the price that staff enter.

For the refinement, `OrderLifecycle` is instantiated with the status, the driver and the author of each order's
newest history row, and the statuses its disputes remember. `AtomicIsLifecycle` maps every atomic step to a step of the lifecycle or to a
stutter (bids, edits, account operations), `LifecycleDispute` and `UpdateIsLifecycle` those of disputes, where what an
older dispute of the same order remembers is the reason that the lifecycle has a set of remembered statuses.

### Sessions and screens

For any number of calls and works in flight. The assumptions say that the
absent value (`None`, `NoUser`, `Nobody`, `NoRecord`) is none of the users, orders and so on
(`SessionsAssumption`, `AppShellAssumption`, `AdminRecordsAssumption`, `AdminStaffAssumption`, `WebDriverAssumption`, `WebSignInAssumption`), that the
cities with districts are cities (`WebClientAssumption`), that the choice and the search of an untouched table are among them
and the tab of two statuses is not (`AdminListsAssumption`), and that limits are numbers.

| Theorem | Statement | Argument |
|---|---|---|
| `SessionsTyped` | `Spec => []TypeOK` of `Sessions` | `TypeInv`: also a call past its refresh holds a token the server issued |
| `StoredTokenStaysUsable` | `Spec => []StoredTokenIsUsable` | `SessionInv` |
| `ScreenFollowsTokens` | `Spec => []ScreenMatchesTokens` | `OneUserInv` |
| `ChoicesAreKept` | `DraftKeepsChoices` | `DraftInv`: on a district or map screen the pending place is of the end that screen is for |
| `SheetTellsItsBid` | `SheetTellsOfItsBid` | `DriverInv`: a sheet that waits has its bid in flight, and only bids of a sheet still open know a sheet to tell, which then waits for that order |
| `VehicleFormOfDriver` | `VehicleFormIsTheDrivers` | `DeskInv`: only answers of the clients' section close a drawer and leave the dialog over it, and the vehicle form is in the drivers' section |
| `StaffPageFollowsTokens` | `StaffPageMatchesTokens` | `StaffInv`: all calls in flight carry one user, or no one is signed in and one sign-in at most is on its way |
| `ChangesGoWhereAsked`, `OfferedDriversAreEligible` | `ChangesWhatWasAsked`, `ShownDriversAreEligible` | `RecordInv` |
| `FormsAreSentOnce`, `GuessesStayWithinLimit` | `PublishedOnce`, `GuessesAreLimited` | `WorksInv` |
| `RowsFollowFilter`, `TabFollowsFilter` | `RowsMatchFilter`, `TabMatchesFilter` | `ListInv` |
| `SheetActsOnItsOrder`, `RatingGoesToConfirmed`, `FormsHoldTheirOwn` | `ActsOnShownOrder`, `RatesConfirmedOrder`, `FormsKeepContent` | `ClientInv` |
| `DraftIsPublishedOnce` | `DraftPublishedOnce` | `OnceInv` |
| `PageCallsForItsRole` | `PageMatchesTokens` | `OneClaim` |

`StoredTokenIsUsable` excepts a revocation that is on its way to the device. To be inductive
this needs to know where a token can be: `Issued` says that storage and calls name only tokens that were
issued, so that a new one is nowhere yet; `Unheard` that a token on its way to the client is live and is named nowhere
else, so that no other call can revoke it before it is stored. An overlap of two refreshes with the same token is the case that
makes it interesting: one rotates, the other is refused and clears the storage, or
both rotate and the later answer is kept.

`ScreenMatchesTokens` speaks of the storage and the screen at rest. `OneUserInv` says of every call of the
page why they will still agree when it is answered: whatever token it carries, and whatever user it brings back, is of
the one user whose token is stored; a sign-in is in flight alone, with nobody on the screen; and the check at start-up
is the only call while the start screen shows.

`WorksInv` is the meaning of the busy flag: as long as no work has lowered the flag of another one, it is
up while any work is in flight. A work that needs it down to start then starts alone. That is why one form is sent
at a time, and why the server's unlocked counter of guesses (`GuessesCounted`) is
never behind: the number a comparison will write was read when no other was under way.
`RecordInv` says of the desk's drawers that, as long as no two works of the panel ran at once, loads of its table included, the
flag is up while one that moves the drawer is in flight, and none is while a dialog is open over it.

`ListInv` says that the call in flight carries the filters in force, and that the timer of a typed search
will bring back the choice in force: every action that changes the filters asks for the rows at once, except the one that is excepted.
A lit tab of one status prevails over the select whenever filters are applied, which keeps `TabMatchesFilter`; the tab of two
statuses does not, and is no status to compare.
`ClientInv` says what each work is about, by what the screen shows: the order selected is the order on display wherever
an order is acted on; the two part after a publication and while the next order opens, where there is nothing to edit (`LagsBehind`).

In `WebSignIn` four things can become the page or the tokens: the tokens stored, those being renewed, the page
entered, and the check that the sign-in page still waits for. `Claim(r)` says that one of them is of role `r`, and `OneClaim` that no two
roles have a claim. Every step but two gives a claim to a role that has one. The two are a sign-in, which `overtaken` excepts
when another role is being renewed, and an opened address, which drops all calls. `OnceInv` says of the
web client's draft that, unless a screen was left under its call, every call in flight is of the
screen that shows, so that the review's own flag holds its button through both halves of a publication.

### Checked by TLC only

Liveness (`StartCompletes`, `CallsSettle`), which is out of the prover's reach with fairness and
`ENABLED` in it, and that the four runs of section 3 end in counterexamples. Every other property of a passing run is stated by a theorem
above, with the hypotheses named there: what a run excludes by its constants (manual statuses, settlements) the theorem
excludes by an assumption on `Ops`. That a hypothesis is needed is itself checked by TLC only.

## 6. Plan

Done: the order core, the sessions, the screens of the three programs, and the proofs above. Next, by importance:

1. Theorems: weaker statements for overlapping requests, where the serial ones fail (what is left of `ClientPaysTheBid` when a
   price change overlaps the selection); `SettledIsFinal` for disputes settled once; the refinement of
   `OrderLifecycle` under manual statuses, for a lifecycle extended by corrections.
2. `Ratings` (one per order, the recomputed average) and `LockOrder` (row locks of the handlers,
   foreign-key locks of inserted rows, deadlock detection; the liveness "a request that waits is answered"
   under fairness of the database).
3. `DriverVerification`: profile, documents, approval, blocking and the routes, composed with `DriverAccounts`
   in place of the initially approved drivers; deletion of a client's account.
4. The limits of `request_otp` with several devices; `Tariffs`, `Notifications`, `SmsToken`.

## 7. Running

    tlc -workers 2 -config SerialAuction.cfg MCMarketplace
    tlc -workers 2 -config OverlappingCalls.cfg MCSessions
    tlc -workers 2 -config MobileApp.cfg MCMobileApp
    tlc -workers 2 -config WebApp.cfg MCWebApp
    tlapm MarketplaceProofs.tla
    tlapm SerialProofs.tla
    tlapm SessionsProofs.tla
    tlapm MobileProofs.tla
    tlapm ScreenProofs.tla
    tlapm WebProofs.tla

The other configurations of the market run with `MCMarketplace` as well, `LogoutAfterExpiry` with `MCSessions`.
