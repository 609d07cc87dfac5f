# Verification of zalo-bot

TLA+ models of the ordering bot in this repository, the TLC runs that check
them, and theorems about them that TLAPS proves. The models follow the source
under `src/`; `PROJECT.json` maps every definition to the lines it stands for.

Modules, from the core outwards:

| module | what it is |
| --- | --- |
| `OrderLifecycle` | what one order promises: placed once, decided once (abstract) |
| `OrderService` | the platform-neutral ordering core; implements `OrderLifecycle` |
| `TelegramSession` | the Durable Object per chat with its D1 stock; implements `OrderService` |
| `SnapshotSync` | the mirror of the chats in Google Sheets, through a queue |
| `Mirror` | what the mirror promises: each snapshot is taken once, in one step, and the latest is shown (abstract); `SnapshotSync` implements it |
| `PaymentNotification` | decisions about payments, their messages, and the alarm that sends them; implements `OrderLifecycle` |
| `UpdateDelivery` | the way of an update: Telegram, Worker, object or queue, Apps Script, replies |
| `CatalogAdmin` | menu and stock in D1: the admin's chat, the copy of the POS menu, the orders |
| `Channel` | the two adapters: rendering, packing and unpacking of buttons (no state) |
| `Booking` | booking a sleepbox on the conversation record shared with ordering; extends `Channel` |
| `MC...` | instances for TLC, one per module that has runs |
| `OrderService_proofs`, `TelegramSession_proofs`, `SnapshotSync_proofs`, `PaymentNotification_proofs`, `UpdateDelivery_proofs`, `CatalogAdmin_proofs`, `Booking_proofs` | theorems |
| `SumTheorems` | what the proofs need to know of sums over finite sets |

## 1. Inventory of the system

The bot takes orders for a shop over Telegram and Zalo. There are two ways
for a Telegram update: the *fast path* (Cloudflare Worker → one Durable Object
per chat → Telegram API, with stock in D1) and the *legacy path* (Worker →
queue → Apps Script → Sheets and the POS). Zalo, booking and the staff menus
live on Apps Script.

**Ordering core** (`src/src/core/orderService.js`, `stateMachine.js`,
`domain.js`). State: a conversation per customer (state and context: cart,
order id, bill, step of the profile questions), customers, orders.
Operations: `handleMessage` (about fifteen actions behind a profile gate),
`confirmPayment`, `expireOrder`. The caller serialises them (`withLock`,
`transactionSync`). Hard: contexts outlive the orders they name, buttons of
old messages stay pressable, staff decisions arrive when the conversation has
moved on. Right means: the conversation and its order agree; an order is
placed as it was reviewed; it is resolved once.

**Telegram session** (`src/telegram-gateway/src/fastpath.ts`). State: the SQLite
tables of the object (domain records, `processed_updates`,
`inventory_effects`, `queue_outbox`, `notification_outbox`, links from orders
to reservations) and a promise chain that handles one update at a time.
Operations: `process`, `confirmPayment`, `expirePayment`, `alarm`,
`flushOutbox`, payment QR claims, admin commands. Interaction: awaited calls to D1, the
queue and Telegram. Hard: whatever is not in the promise chain (alarm, payment,
drains) runs at its awaits; the object may be evicted at any of them; a D1
call may be applied and still fail; Telegram redelivers. Right means: a live
order has its stock, stock is held only for somebody, an update has its effect
once, and everything comes to an end.

**D1 stock** (`migrations/0004_daily_inventory.sql`): `daily_inventory` per day
and product, `inventory_reservations` per reservation and product, shared by
all chats. Right means: nothing is created or lost, and two chats never hold
the same piece. `products` beside it is changed by an admin in the chat and by a
job that copies the POS menu every five minutes. Right means: what is left is what was
set less what was taken, and the menu follows the POS.

**Gateway Worker** (`src/telegram-gateway/src/index.ts`): authenticates, routes an update to
its object or to the queue, sends the answers, consumes the queue, offers the
payment and QR endpoints to Apps Script, watches webhook and DLQ by cron.
State: none of its own.

**Snapshot mirror** (`FastPathSync.gs`, `SheetRepositorySupport.gs`, the
snapshot branch of the consumer). State: rows of customers, orders and
conversations, `FastPathSyncedUpdates`, `FastPathSyncState`, the script lock.
Hard: at-least-once delivery in any order, forwards that time out while the
script goes on, no transactions. Right means: the sheets never go back, are
whole, and catch up.

**Booking** (`src/src/core/bookingService.js`, `bookingStateMachine.js`,
`PosBookingRepository.gs`). State: the conversation record it shares with the
ordering core, told apart by `activeFlow`, and the bookings at the POS. Hard: states of
the same name in both flows, rooms that others take between two messages, a POS
call that is done and not answered. Right means: who holds a room knows it, a payment meets the booking
it is for, and neither flow acts on the other's record. That a room is held once is the promise of the POS.

**Adapters** (`mapInboundMessage.js`, `renderOutboundMessage.js` for Telegram and for Zalo): no
state; a button is rendered, packed and unpacked in different files. Right means: what is
pressed arrives as what was offered.

**Apps Script side**: the Telegram webhook (claim of an update, lock,
processing, answer), Sheets repositories with a cache of 300 s, the POS client
with idempotency keys, payment confirmation, expiry and QR dispatch (each asks the
object first), the Zalo webhook with its
single-use refresh token, the admin API. Hard: claims followed by a crash,
saves of which one fails, the lock timing out, state split between Sheets, POS
and objects.

`PROJECT.json` lists every component with its status, and 40 hazards, each at its
line, with the properties that cover it or why none does.

## 2. What is modelled, and how it corresponds to the code

### OrderLifecycle and OrderService

An order is unused, then `AWAITING_PAYMENT`, then one of `PAID`, `CANCELLED`,
`EXPIRED` for good: that is `OrderLifecycle`. `OrderService` has one action per
branch of `handleMessageTransaction` (`AddItem`, `EditCart`, `Checkout`,
`ConfirmOrder`, `Cancel`, `StartFreshOrder`, the profile questions), each with
a guard `Can...` made of the conditions the code tests on the way there, and one
for each decision (`ConfirmPayment`, `ExpireOrder`). Everything that only
answers is `Reply`; what throws is `Throws` and changes nothing.

A message is an action with or without an operand, pressed or typed. That
distinction stays because the code acts on it: a typed word has no payload.
`Effective` is the code's rule for which action a message amounts to.

Abstracted: names, prices and the order of the lines of a cart (a cart is the quantity of each product), the
amount of a bill (a bill is the cart it was made from), texts. The catalogue is
fixed and every product available; `MaxQuantity` bounds a cart line.

### TelegramSession

| model | code |
| --- | --- |
| `handler[c]`, `Receive` … `Transact` | `processUnlocked`, cut at every await of a D1 call |
| `Transact` | the `transactionSync`, with `Bookkeep` for links and effects |
| `RollBack`, `Reject`, `Abort` | its `catch`: the transaction threw because of the message, or for another reason |
| `effects`, `drain[c][w]`, `Claim`, `Call`, `Verify`, `Settle`, `CallFails` | `drainInventoryEffects` with its leases; a drain claims by lease, so two drains (`w`) may work on one effect once a lease ran out |
| `StaffConfirms`, `AlarmExpires` | `resolvePayment` from the endpoint and the alarm |
| `ReserveBatch`, `CommitRows`, `ReleaseRows` | the D1 batches, each one atomic |
| `Crash` | eviction: handler and drains are forgotten, SQLite is not |

A handler that is at work blocks the next update of its chat and nothing else,
as the promise chain does. `processed` is `processed_updates`.

A D1 call is one step: a call in flight when its object is evicted was applied
before or is not applied at all. One that lands after the redelivery started
is not modelled. The clock is left out: leases, retry delays and the payment
timeout may end at any time. The day does not change.

### SnapshotSync

`Change` is a domain transaction: the next revision and its outbox row.
`Send`/`Publish` are the two halves of `drainQueueOutbox`, so a snapshot may be
sent and not recorded. The queue is a set of messages with copies
and attempts, delivered in any order; the consumer handles one at a time
(`max_concurrency: 1`) and either acknowledges, retries, or gives up waiting while the
script goes on (`GiveUp`, the 60 s timeout). A run of the script is `Enter` (lock, duplicate and
revision check), `WriteRow` for each row, `WriteMarker`, `WriteState`; it may fail to get the lock or die
between any two writes, which releases the lock. Dead letters are replayed by
hand, as `telegram-gateway/README.md` tells staff to do.

A row of a sheet is abstracted to the revision it was written from. Every snapshot has the
same rows; schema version 1 is left out.

`Mirror` is the abstract view: snapshots are made (`Change`), taken in any order, once each (`Take`), and the latest one
taken is shown. It has no outbox, queue, script, lock or rows. Under the refinement mapping (`Mirrored`) a new snapshot is
taken when its last row is written, a stale one when it is marked, and what is shown is what stands in the last row. Once a
script has died between two writes `Mirror` promises nothing more (`Break`); what is left then is `TornSheetsAreRetried`.

### PaymentNotification

| model | code |
| --- | --- |
| `handler[c]`, `Ask`, `CallResolves`, `CallEnds` | `handlePaymentOperation` of the Worker, cut at its calls into the object |
| `Resolve`, `DecideOrder` | `resolvePayment`: status and outbox row in one transaction, or the answer that it is resolved already |
| `DrainEnds`, `FlushReads`, `Receive`, `RecordDelivery`, `RecordFailure` | `flushOutbox`, cut at its awaits; it is entered by the endpoint and the alarm |
| `SendFails`, `AnswerLost` | Telegram refuses, or has the message when the 5 s timeout ends (`fastpath.ts:577`) |
| `AlarmFires` … `AlarmEnds`, `SetAlarm` | `alarm()` and `scheduleNextAlarm` |
| `Place`, `Cancel`, `ChatSchedules`, `Redeliver` | the updates of the chat, as far as they place or cancel an order and set the alarm |
| `Evict`, `Lost` | an eviction, and what the endpoint then answers |

Confirming and expiring each answer with one message, so the progress index of an outbox
is the same as its `delivered`. `again` is history: what may make the customer hear a message again.
The orders of the one chat implement `OrderLifecycle` (`Lifecycle`: the chat is the only customer, carts are one value).

### UpdateDelivery

An update is one of three kinds by where it goes (`FastUpdates`, `QrUpdates`, `RawUpdates`). A Worker is
`routing`, `sending`, `releasing` and then answers `ok` or `error`; a script is `waiting` for the lock,
`handling` under it, `sending` after it. What the domain does with an update is one step, `performed`
counts it. `TelegramGivesUp` and `ForwardTimesOut` let the other side go on. `processed` is
`processed_updates` of the objects, where the claims of QR requests are kept too.
`abandoned` is history: updates whose Worker or script died, was not waited for, had no lock or failed.

### CatalogAdmin

`handleAdmin` has an action per command and per step of a draft; those that call D1 are cut where they wait
(`admin.step`), and `CutShort` is an eviction or failed call there, after which Telegram delivers the update
again. `FetchMenu` and `CopyMenu` are the two halves of `syncCatalogFromPos`. An order takes one piece:
`Confirm` fixes the day, `Reserve` and `Release` are the batches. `older` and
`back` are history: which reservations were made before the stock was last set, and what of them came back.
Name and price are one value, categories are never deactivated, `/kho` and the like only show something.

### Channel and Booking

`Channel` has what the adapters decide: which buttons a list or a button message shows on each platform
(`Rendered`), what is packed into the data (`Encode`) and what comes out (`Decode`). `Booking` has an action per branch of `handleTransaction`
(`StartBooking`, `ChooseUnit`, `ChooseSlot`, `ChooseRoom`, `Booked`, `Taken`, `CancelBooking`), taken by pressing any
button of any answer, packed and unpacked by `Channel`; messages run under the script lock and are one step each.
`BookedUnanswered` is a POS call that is done and not answered. The order service is present with the steps between
its states. `WalkIn` and `PosCancels` are staff at the POS. `Screens` names the answers that can be last on the
screen in each state. `lost`, `dropped` and `told` are history.

Slots are what the service's contract and tests send; see the deviations below.

## 3. The runs

Every property has a mutant in `PROJECT.json`: a plausible bug in one
definition that makes the run fail.

| run | question | bounds |
| --- | --- | --- |
| `order_service` | does the core keep its promises, and implement the life cycle? | 2 customers, 1 product, 2 orders, quantity ≤ 2, every message |
| `session_stock` | is every live order backed, all held stock owned, and at rest only that gone which live orders contain, when two chats want the last pieces? | 2 chats, 2 products with 1 piece each, 2 orders, 2 updates, 2 drains, 1 failing D1 call |
| `session_faults` | eviction, abort and a failing D1 call together | 1 chat, 2 products (one sold out), 2 updates, 2 drains, 1 fault of each kind |
| `session_liveness` | is everything answered, and stock returned? | 1 chat, 2 updates, 1 eviction, 1 failing D1 call |
| `sync_reordered` | do the sheets move forward, whole, without loss, as `Mirror` says, and are half-written rows taken up again? | 2 revisions, 2 copies each, 3 rows, 2 scripts at once, 1 retry, 2 failed forwards or lock timeouts, 1 death |
| `sync_liveness` | do the sheets catch up? | 2 revisions, 2 failures |
| `payments` | is an order decided once, does the customer hear the decision, and staff the truth? | 2 orders, 2 requests one after the other beside the alarm, 1 fault |
| `deliveries` | does an update take effect once, and do its replies arrive? | 1 update of each kind, 2 replies, 2 Workers, 2 scripts, 3 deliveries, 2 attempts of the queue, 2 faults |
| `catalog` | do the books of the stock balance, do additions come out whole, and does the menu follow the POS? | 1 POS product, 2 new ones, 1 order, 2 days, 5 updates of the admin, 1 change at the POS, 1 update cut short |
| `bookings` | does who holds a room know it, is "somebody was faster" true, does a payment meet its booking, and do the flows stay apart? | 1 customer per platform, 1 room, 2 bookings, an hour and the night that follows it, 1 lost answer |

Why the bounds are enough: two orders of one chat are the least for a context
that names an earlier order; two chats and one piece for a race for
stock; two drains for an effect performed twice; two revisions for one that
comes after a newer one; two scripts for one that outlives its
forward. Two orders of one chat are needed for a message about the earlier one, two Workers for an attempt
that overlaps the next, five updates to add a product, two bookings for a room that is
gone, at times that do not overlap, so that one customer may hold both and be paying for one when the other
is paid. Two requests to the endpoint do not overlap in `payments`: the alarm is the second flush. `MCInit` starts the
sessions where earlier updates left a named customer with a reviewed cart, a
state `order_service` reaches, so that the updates of the bound are spent on
the interesting part.

`CHECK_DEADLOCK FALSE` in all runs but `order_service`: when the bounded updates, requests
or revisions are used up and everything is settled, the system really rests.

What a reader should know the properties say (each is stated beside its
definition): `ServiceInv`, `PlacedAsReviewed` and `RefinesLifecycle` for the core;
`LiveOrdersAreBacked`, `HeldStockHasAnOwner`, `BooksBalanceAtRest`, `StockInv`, `DoneEffectsHold`, `RowsMoveForward`,
`OneOrderPerConfirmation`, `ServiceSteps` for the sessions; `RowsNeverGoBack`,
`NothingIsLost`, `SheetsAreWhole`, `MarkedOnce`, `TornSheetsAreRetried`, `RefinesMirror` for the
mirror; `PaymentInv`, `PendingWorkIsScheduled`, `StaffAreToldTheTruth`, `RepeatsAreExplained`, `OrdersAreDecidedOnce` for
payments; `DeliveryInv`, `FastUpdatesAreComplete`, `QrArrivesOnce`, `NoUpdateIsDropped` for deliveries;
`StockAddsUp`, `AdditionsAreWhole` for the catalog; `BookingInv`, `HeldRoomsAreKnown`,
`TakenMeansTaken`, `PaymentsMeetTheirBooking`, `ScreensWork` for bookings; and the liveness properties of each.

Some of these are conjunctions of named parts, checked as one: `ServiceInv` has the types,
`ConversationFollowsOrder`, `ConfirmingIsReviewed` and `ShoppersAreNamed` in it; `StockInv` the types and `StockConserved`;
`PaymentInv` `ToldWhatWasDecided` and `DeliveredWasReceived`; `DeliveryInv` `PerformedOnce` and
`GasRepliesOnce`; `BookingInv` `FlowsStayApart`. `ResolvedIsFinal` follows from `RefinesLifecycle` and has no run of
its own. The types of `SnapshotSync` are proved and not run. `NoUpdateIsDropped` asks for the replies too: an update that is neither
on its way nor given up has taken effect and all its replies were sent.

`LiveOrdersAreBacked`, `HeldStockHasAnOwner`, `BooksBalanceAtRest` and `DoneEffectsHold` are checked without evictions and
aborts, and with confirmations by button: an eviction between reserve and transaction leaves rows that only the redelivery of
the same update takes up again, and takes for the whole (see the deviations). `UndisturbedOrdersAreBacked`,
`UndisturbedBooksBalance`, `HeldStockIsOwned` and `DoneEffectsHaveHappened` are proved with just that said in the formula, and
the last two with aborts. `SheetsAreWhole`, `RowsNeverGoBack` and
`NothingIsLost` speak of the time until a script dies (`Undisturbed`); after
that they fail, as `sync_stale` shows, and `TornSheetsAreRetried` says what is left.

What some of them leave open: `StockAddsUp` explains a late release into a stock that `/ton` has set anew (it is counted as `back`)
and does not forbid it; `AdditionsAreWhole` counts the products that were never given a stock and says nothing of the next day, for
which no code gives any product a stock; `HeldRoomsAreKnown` excepts the booking whose answer was lost. That no two bookings hold a
room at overlapping times is not checked: `PosBookingRepository.gs` only forwards a booking, and the POS looks for the overlap.

### Fairness

Sessions: a running handler and a running drain go on (the runtime resumes awaits); Telegram repeats an update until
it is answered with 200; `scheduleNextAlarm` leaves an alarm set while an order
waits or an effect is not done. Claims are strongly fair: older effects may be
claimed first, but a failed one comes due only after a growing delay. Customers, staff, crashes
and failures are never fair.

Payments: handlers run on, the platform fires the alarm it holds and runs an evicted one again. Retry delays and
the time to pay may end at any moment; picking a delayed message and expiring an order
are strongly fair because an alarm that finds them running is set again.

Deliveries: Telegram delivers what it has not been answered, the queue what it holds, Workers and scripts run to
an end. Deliveries exceed the faults by one, so that the bound does not end the story.

Catalog: the admin's update is delivered until it is processed; the job starts again, and does not fail every time (strong
fairness of `CopyMenu`).

Mirror: the drain goes on until everything is published; the queue delivers what it holds again
and again (strongly fair per message, as others may come first); scripts run to an
end; staff replay dead letters.

### Runs that fail: where the code and its documents disagree

| run | what it shows |
| --- | --- |
| `repeated_confirmation` | a confirmation that aborted and is redelivered takes its own released rows for a reservation |
| `sync_stale` | a script dies between marker and revision: an older snapshot is applied for good |

The quoted documents are in `PROJECT.json`, `findings`.

### Other deviations

Seen while modelling; no run is spent on them, and the properties above say how they step around them.

- `confirm_order` typed instead of pressed places an order with nothing reserved (`fastpath.ts:326` looks at the
  payload). The instances of `TelegramSession` confirm with buttons.
- An eviction can come between a reservation of which only some products were in stock and the undoing of it. The
  redelivered update finds rows under its id, takes them for a reservation (`fastpath.ts:779`) and places the order.
  One between the undoing and the answer lets the update reserve again under an id whose release is `DONE`. Hence
  the hypotheses about evictions.
- A COMMIT that is overtaken by the release of its order finds rows that are not committed and is retried for ever
  (`fastpath.ts:829`).
- `add_item` typed throws a `TypeError` without a message for the customer, so that Telegram repeats it for ever
  (`orderService.js:556`).
- A payment message is sent twice when Telegram's answer takes longer than the alarm that
  `scheduleNextAlarm` sets one second ahead: the alarm flushes what the endpoint is sending. `RepeatsAreExplained`
  counts it.
- An admin's `/ton` or last step of an addition that is cut short acts again: stock sold meanwhile is set
  back, or a second product appears; the first has no stock row and is sold without limit
  (`AdditionsAreWhole` counts it: one for each update cut short). So is every product on a day nobody has set its stock for.
- At the last step of an addition any button, whose text is empty, is read as the quantity 0 (`fastpath.ts:1283`).
- `-` in an edit writes back the name or price that `/suamon` has read, over what the POS has changed since. A product that an
  admin adds, or switches off, is switched off, or on, by the next copy of the POS menu: in the end the menu
  is the POS's and nothing else (`MenuFollowsPos`).
- `reserveInventory` does not look at `is_available`: a product switched off is still sold from a cart.
- An update whose script on Apps Script dies after the claim, has no lock or fails is not tried again
  (`abandoned` in `NoUpdateIsDropped`); the same holds for a QR request whose Worker died with the claim.
- No adapter unpacks `select_slot` and no answer offers a slot, so that from a phone a booking stops at `SELECTING_SLOT`.
- `/huydon` after a booking cancels the conversation and not the booking; a POS answer that is lost leaves the
  customer to hear that "somebody else" took the room they hold. `HeldRoomsAreKnown` and
  `TakenMeansTaken` except the two. Bookings never expire, and `confirmPayment` of the booking
  service has no caller outside the tests.

## 4. What is proved

All theorems hold for every value of the constants that satisfies the named assumptions beside them. TLC evaluates the
assumptions in every run. They say that

- the reserved values (`NoOrder`, `NoUpdate`, `None`, `Alarm`, `Walkin`, ...) are not members of the sets, and that kinds
  of updates and products do not overlap;
- bounds are natural numbers, stocks and quantities too;
- what is added up or counted is finite: `Updates` and `OrderIds` of `TelegramSession`, `Calls` of
  `PaymentNotification`, `Orders` of `CatalogAdmin`;
- inputs are what the code can be given: messages and slots have the shape of their payloads, and an edit, a stock and a
  switch of the admin name a product.

Sums and cardinalities would need induction over finite sets, whose theorems take an operator and are out of the
prover's reach. `SumTheorems` goes another way: the subsets for which a claim fails are a set, and if it is not empty it has a
minimal element (the strict subset order of a finite set is well founded), which is led to a contradiction.

**`OrderService_proofs`.** The inductive invariant is `ServiceInv`: types; a
conversation awaiting payment names an order of its own customer that is awaiting, and
vice versa; a conversation that can still shop names no order; who confirms
has a bill that equals the cart; who shops has a name. None of
`ConversationFollowsOrder`, `ConfirmingIsReviewed` and `ShoppersAreNamed` is
inductive alone: cancelling by the context's order id, for one, is harmless only
because the ids in the contexts are those of the customer's own orders. From `ServiceInv` follow the action properties
`ResolvedIsFinal` and `PlacedAsReviewed` and the refinement `RefinesLifecycle`.

**`TelegramSession_proofs`.** `SessionsImplementService`: every step of the
objects (with any number of drains, faults and redeliveries) is a step of
`OrderService` or leaves its variables alone. The argument needs `Delivered`: a
handler at work holds an update that was delivered to it. The theorems about
the core carry over, down to `OrderLifecycle`.

The stock rests on `StockSessionInv`. Its parts: types and `StockConserved`; what each handler knows of the rows of its
update (`HandlerAgrees`); an order that is linked has a reservation to itself, and is live or has its release
enqueued (`LinkAgrees`, `ReleaseAgrees`); a commit belongs to a link (`CommitAgrees`); a row that
names an order is of the reservation that order is linked to (`RowAgrees`); a drain past its claim holds an effect that was enqueued
(`DrainAgrees`); an effect that is `DONE` is achieved (`DoneAgrees`); rows belong to a handler at work, a release or a link
(`Accounted`); and, until something disturbs, what a reservation holds is the cart and then the order
(`Fresh`, `CartHeld`, `Backed`). None is inductive alone: that a commit does not find released rows needs to
know who may release them, and that needs the links.

The proof does not take actions one by one through all parts. Each of the actions is shown to be one of a few *moves*
(`SessionMoves`: what a step may do to a row, an effect, a link, a drain, a handler), and each part is shown to survive any move.
It gives `StockInv`, `StockConserved` and `RowsMoveForward` under all faults, and without hypothesis also that orders do not share
a reservation and that commits and releases of orders that are `DONE` have happened. `DoneEffectsHold` and
`HeldStockHasAnOwner` are proved until an object is evicted, `LiveOrdersAreBacked` until an eviction, an abort or a
confirmation by typing. TLC finds counterexamples without these hypotheses.
`UndisturbedBooksBalance` puts the three together: when no update is being handled and every release has been performed, held
stock belongs to live orders, each to its own; a sum over reservations is then a sum over live orders (renaming along the
links), and with `StockConserved` what is gone of a product is what live orders contain. That is the account a shop would draw up in the evening, and
no single step of the code states it.
`OneOrderPerConfirmation` compares two cardinalities step by step: a step places one order at most, and then answers a
confirmation that was not answered before.

**`SnapshotSync_proofs`.** `LockInv` (one script writes; one that has still to
mark its snapshot found it unmarked; a consumer that waits has a message) gives
types and `SnapshotsMarkedOnce`, with any number of deaths and failures. `Whole` adds what
the sheets show while a script is at work: its own revision above the row it has reached, the last
recorded one below, and its own is the newer. It holds until a script dies
(`Undisturbed => Whole` is the inductive form) and gives `SheetsStayWhole` and
`SheetsOnlyAdvance`, with any number of failed forwards and lock timeouts.
`Tracked` follows each snapshot: published, so sent; sent, so in the queue, among the dead letters or marked. `RowsInv`
says what a script that dies leaves behind: rows are written from the top, then the marker, then the revision, so
that of two rows that differ the upper one has a snapshot that is sent, unmarked and newer than the revision on record; with
`Tracked` it is still to come (`TornSheetsComeAgain`, with any number of deaths). `MarkedShown` (what is marked is in the
rows, until a script dies) gives `SnapshotsAreNotLost`.
`SyncImplementsMirror` takes the steps of the outbox, queue, consumer and script one by one: all but three change nothing that `Mirror`
sees. Writing the last row and marking a stale snapshot are its `Take`; the lock and `Tracked` make them so, as the snapshot was made and nobody else
takes it. `SettledSheetsAreCurrent` is the safety half of `SheetsCatchUp`: while no script has died, every row of a customer of whom nothing
is on its way shows the last snapshot made.

**`PaymentNotification_proofs`.** `Agreement` says of every order that it has a message just when it is decided, and of
that decision, and that nothing else was ever told (`OrderAgrees`); of every handler that what it flushes is decided
(`WorkAgrees`); of every request that what it knows is so (`CallAgrees`). It needs no order of the steps, as
decisions and what was heard are never taken back. It gives `CustomersHearTheDecision` and `StaffHearTheTruth`.
`PendingWorkIsScheduled` is inductive with it. `Explained` counts for each order what was heard and what is being
sent, against one and the explanations: a message that nobody is flushing and that was not recorded has an explanation for
every time it was heard. It gives `CustomersHearOnceOrExplained`, with any number of requests, orders and evictions.
`PaymentsImplementLifecycle` shows that placing, cancelling, expiring and the answer to a request are the steps of `OrderLifecycle`, and all other
steps stutters: who decides looks at the status in the turn that writes it. `RestMeansInformed` is the safety half of `CustomersAreTold`:
an object with no alarm, no alarm handler and no update under way has no order open, and its customer received every decision.

**`UpdateDelivery_proofs`.** All four invariants of the run, on one type invariant (`TypeInv`, which also says what each Worker and script
is at work on). `GasInv`: what Apps Script has not claimed has had no effect, and one script at most works under a claim; with `EdgeInv` (an
update of the fast path has taken effect just when it is on record) it gives `DeliveryInv`. `SentInv` and `DoneInv` (who sends has delivered
all replies before the next one; who is done has delivered all) give `FastUpdatesAreComplete`. `QrInv` (one Worker at most holds the claim of a
QR; who takes it over finds only replies of sendings that failed) and `CalmInv` (until a Worker dies or Telegram gives up, Telegram waits for the
only Worker at work) give `QrArrivesOnce`. `ClaimsHandled` (a claim stands for an update that is handled or being handled) makes it safe to
acknowledge a known update, `AnswersKept` follows, and `ClaimsAnswered` (a claim that was not abandoned stands for replies that were all sent, or
for a script that has sent those it has passed) completes it: `NoUpdateIsDropped`. A step concerns one update (`StepsConcernOne`).

**`CatalogAdmin_proofs`.** `CatalogInv` adds to the types and `StockAddsUp` what the admin's update and draft name
(`ChatInv`), that a reservation is older than a stock only if it was made (`ReservationInv`), and that the products left behind without a stock are
finitely many and no more than the updates cut short (`AdditionInv`). Both counts are cardinalities: each batch adds or removes one
taker of one product and day, setting a stock leaves none; an update cut short leaves one product behind at most (`OneLeftBehind`), and no other
step does (`NoneLeftBehind`). `NameInv` follows a name from the message through the draft, and from the POS through the fetched menu, to the product: an
addition that reaches its last step has one. With `AdditionInv` it gives `AdditionsStayWhole`.

**`Booking_proofs`.** `RecordInv` is proved customer by customer: a booking under way has no id yet; an id leaves the record before an
order is written over it; who confirms was offered a room that no booking of their own has taken, unless its answer was lost. It gives
`BookingInv`, `HeldRoomsAreKnown` and `TakenMeansTaken`. `PaymentsMeet` needs only what ties a record to the booking it names
(`Met`): the POS never changes whose a booking is, nor its room and times, so that what moves are the status and the record, and `confirmPayment` moves
both when it finds its own id. It gives `PaymentsMeetTheirBooking`.

`EveryScreenWorks` has no invariant to find: the contents of a screen are a function of the record. It is proved button by button: an
encoder writes an action and at most two arguments, and the decoder of the same platform reads them back
(`PayloadsWork`, from one lemma per shape of payload); all that a screen offers has such a shape (`ContentsRender`).

Only model-checked: liveness (`UpdatesAreAnswered`, `StockComesBack`, `SheetsCatchUp`, `CustomersAreTold`,
`UpdatesTakeEffect`, `MenuFollowsPos`), as the prover has no ENABLED. Every other property of a passing run is stated by a theorem; four
of them, as said above, with the bounds of their run on faults as a hypothesis.

## 5. Not modelled, and the plan

Not modelled:

- Saves of an order on Sheets and the POS of which one fails, the customer cache, the POS order client: they
  hang on external services whose promises (idempotency keys, quotas) the repository does not state.
- The Zalo webhook and token manager: the webhook claims and processes like the one of Telegram; the refresh is one
  locked call to an external service.
- The loop of the expiry trigger on Apps Script and the QR dispatch: each order goes the way of `PaymentNotification` or
  `OrderService`.
- The message to the operations group, which takes the way of a snapshot through the same outbox and queue.
- Health checks and alerts of the Worker, read-only endpoints, the sums of a bill, labels and byte limits, static pages, deployment,
  metrics, logging, build files: no protocol state.

What remains to be done, in order of what it would tell: the saves on Sheets and the POS behind `handleMessage` of Apps Script, if their
services' promises were written down; the second day of `TelegramSession` (its stock is that of one day; `CatalogAdmin` has midnight); a
D1 call that lands after its object was evicted and the update was delivered again.
