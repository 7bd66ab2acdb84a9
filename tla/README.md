# OFSP backend: verification project

The OFSP backend is a NestJS service over PostgreSQL (Prisma) for the trade of
orange-fleshed sweet potato: farmers list or pool produce, buyers order it,
transport providers pick it up and deliver it, aggregation centres receive,
grade, store and release it, and payments are held until delivery. This
directory holds TLA+ models of it, the TLC runs that check them and theorems
that TLAPS proves about them.

Paths below are relative to the repository's `src/` directory of services
(`src/modules/...`), line numbers refer to the commit the models were read from.

## 1. The system

### 1.1 How a request runs

Every endpoint is an `async` method of a service. It reads rows, checks them,
and writes rows, with an `await` between any two statements; the Node process
(and several processes behind the load balancer) runs other requests during
each `await`. Only the pickup endpoints group their *writes* in a
`$transaction`; no endpoint holds a lock from its reads to its writes. So the
unit of atomicity of the models is one database statement, or one
`$transaction` of blind writes, and what a handler remembers of its reads is
part of the state. The database itself enforces CHECK and UNIQUE constraints
(`prisma/migrations/20260121120002_views_constraints`, `prisma/schema.prisma`)
and runs triggers (`prisma/migrations/20260121120001_triggers`) inside the
statement that fires them: a constraint is a guard of the write action, a
trigger is part of it. Errors of notifications, activity logs and secondary
writes are mostly caught and logged, so a handler may stop half-way.

### 1.2 Components

| Component | State | Operations | Talks to |
|---|---|---|---|
| Pickup scheduling (`transport.service.ts` 780-1860) | schedules with capacity counters, slots, bookings, receipts | create, update, publish, cancel schedule; book, cancel, confirm a slot | writes stock transactions |
| Aggregation (`aggregation.service.ts`) | centres, stock transactions, inventory items, quality checks, wastage | stock-in, stock-out, confirm/reject a stock transaction, transfer, quality check | listings, orders; the inventory trigger moves `currentStock` |
| Orders (`marketplace.service.ts` 566-1385) | `MarketplaceOrder` with status and history | create, status updates by buyer, farmer, staff, transporter; processing, collection, delivery confirmation | listings, inventory, transport requests |
| Payments and escrow (`payment.service.ts`) | payments, escrow transactions | create, status update, confirmation by buyer and by farmer, escrow release and dispute | order status; escrow trigger |
| Listings (`marketplace.service.ts` 73-396) | listings with status, approval and reason | create, update, delete, approve, reject | orders, stock-in |
| RFQs, sourcing requests, offers (`marketplace.service.ts` 566-815, 1458-3165) | calls with fulfilled quantity and awarded suppliers, responses, offers, their orders | create, publish, edit, evaluate, close, cancel, respond, award, accept, convert | orders; triggers keep the list of the awarded, the count of responses and the offer's status |
| Negotiations, recurring orders (`marketplace.service.ts` 3240-3834) | negotiated terms and total; active flag | initiate, counter, accept, reject, convert; create, update, delete | orders |
| Transport requests (`transport.service.ts` 100-780, 1990-2100) | requests with status and provider | create, accept, status, tracking | orders |
| Input orders (`input.service.ts`) | agro-input stock, orders | create, status, stock | stock trigger |
| Auth (`auth.service.ts`) | refresh tokens | login, refresh, logout | users |
| USSD (`ussd.service.ts`) | one menu object for all calls; per call: the session object; per farmer: the PIN | every key of every menu state | orders, payments, pickup bookings, RFQ responses, inventory prices |
| Badges, notifications, analytics cache, users, locations, farmer groups, traceability, uploads | see `PROJECT.json` | | |

### 1.3 What is hard

- *Check then act across an await*: capacity, stock and status are read, checked
  and then written by separate statements (bookings, stock confirmation,
  offers, listing approval, transport acceptance).
- *Blind status writes*: `update({status: ...})` by id overwrites what a
  concurrent request committed (publish after cancel, confirm after reject).
- *Swallowed errors*: the second half of a handler can be skipped (payment
  secured but order not; stock confirmed but inventory refused by a CHECK).
- *Two writers of one fact*: triggers and services both maintain status
  history, supplier lists and response counts; `currentStock` follows the
  inventory rows by trigger.
- *Absolute writes of values read earlier* (`quantity = read + q`) lose updates.
- *One object for many requests*: all USSD calls share one menu, whose arguments
  name the call of the latest request; a handler that comes back from an
  `await` acts on that call.
- *Retries*: stock-out, stock-in and confirmations can be repeated by a client;
  unique columns stop only some of the repetitions.

### 1.4 What makes each component correct

| Component | What must hold |
|---|---|
| Pickup scheduling | a schedule is never overbooked; the capacity counters equal the sum over the bookings that were not cancelled; a pickup makes one receipt and one stock-in; a cancelled schedule expects nobody |
| Aggregation | a centre's `currentStock` is the sum of its inventory and within its capacity; one live item per batch; nothing enters the inventory that was not confirmed, and nothing twice; a listing offers no more than was received |
| Orders | no fulfilment before the farmer confirmed the payment; no hand-out before the stock check of PROCESSING came through and the stock-out was recorded; one request at a time, PROCESSING once and a cancelled order stays cancelled; each order whose payment is confirmed goes on |
| Payments and escrow | a confirmation is never lost; a secured payment has an escrow; only a secured escrow is released |
| Listings and negotiations | what buyers see carries no rejection, and a lead farmer approved it or a stock-in made it; a stored total is that of the stored terms |
| RFQ, sourcing, offers | an accepted offer gets its order; nothing counts as fulfilled that was not ordered; the list of the awarded holds the suppliers of awarded responses only; a response counts once |
| Transport requests | goods leave after their release; only the requester and those who were named provider act; the order follows its request |
| Input orders | an accepted order was taken from the stock; the stock is short by no more than what acceptances took |
| Auth | a refresh token works once: one login never becomes two chains of tokens |
| USSD | a PIN is stored only when typed twice; nobody is known by a PIN that was not typed; the latest request is answered; an order or a booking changes only as its page said of the key |

## 2. Plan

The pickup schedules came first, because they hold the system's clearest
promise (capacity), then the stock that pickups feed, then the orders that take
from it; then what surrounds an order: its transport, the calls and offers it
comes from, the phone menu that acts on it; then listings with negotiations,
input orders and refresh tokens. All of these are written. What a next step
would add:

1. the analytics cache (invalidation against a computation in flight) and the
   member counts of farmer groups, which are recounted after each change;
2. payments of input orders and of transport;
3. the composition of `Procurement` with `StockInventory`: an offer's batch is
   looked up in `Procurement` and its kilograms deducted in `StockInventory`.

Proofs follow the runs. For the pickup schedules, the stock, the orders, the
transport requests, the calls and their answers, the listings, the input orders,
the tokens and the phone menu, each safety property that a run checks is proved
for every value of the constants, and two more of the orders from the hypothesis
that handlers run one at a time. No module that is proved about declares a
RECURSIVE operator: sums are `Load` of `Quantities`, the cardinality of a finite
set, about which `QuantitiesTheorems` proves what is needed; the walk of the
phone menu is a recursive function. What a next step would add: an abstract
ledger of a centre's stock that `StockInventory` implements, as
`PickupScheduling` implements `CapacityLedger`.

A run is kept for each distinct question. Where a property is known to fail and
no run shows it any more, section 7 says how to see it.

## 3. The modules

| Module | Models | State | Actions |
|---|---|---|---|
| `Quantities` | whole kilograms and their sums over rows | | |
| `CapacityLedger` | the abstract promise of a booking system | limit, held claims, weights | `SetLimit`, `Admit`, `Release` |
| `PickupScheduling` | `transport.service.ts` 813-1860 | schedules, bookings, slot counters, receipts, stock-in rows per batch, handlers | one per read and per `$transaction` of create, update, publish, cancel, book, cancel booking, confirm; `Fail` |
| `StockInventory` | `aggregation.service.ts`, the stock part of `updateOrderStatus`, the inventory trigger and CHECKs | centres, items, transactions, listings, handlers | confirm, reject, stock-in, transfer, stock-out, sale and deduction, statement by statement; `Skip`, `Fail` |
| `OrderStatuses` | the status enum of an order and the table of its transitions | | |
| `OrderLifecycle` | order status and flags, payment, escrow | one order, its payment and escrow, handlers | `updateOrderStatus` in four steps and every caller of it; the payment endpoints; `Fail` |
| `TransportRequests` | transport requests of an order | the order's status, requests, handlers | create (by hand, for an order), accept, status and reject, tracking, what the order is told; other components' writes of the order's status |
| `Procurement` | RFQs with responses, sourcing requests with offers | one call, its answers, handlers | create, publish, edit, evaluate, close, cancel, submit, award, judge, accept, convert, and `createOrder` on an answer |
| `Listings` | approval of listings, negotiations, recurring orders | one row of each, handlers | create, update, delete, approve, reject; initiate, counter, accept, reject, convert; create, update, delete |
| `InputOrders` | agro-inputs and their orders | one input, its orders, handlers | create, edit, delete; order, status with the taking of stock; `Interrupt` |
| `AuthTokens` | accounts and refresh tokens | accounts, tokens, handlers | register, login, refresh, logout, suspend; `Interrupt` |
| `UssdSession` | the phone menu of a farmer, while no other call's request overlaps | the PIN, keys of the call, session, screen, what was asked of other services | `Dial` and `Run`, one per key: the walk along all keys and the run of the state it ends in; `HangUp`, `Restart` |
| `UssdCalls` | several calls that sign in through the one menu | PINs, keys and sessions of the calls, `menu.args`, handlers | `DialIn`, the entries of the sign-in (`EnterPin`, `EnterNewPin`, `RefuseNewPin`, `ConfirmPin`), `OpenMenu` for all behind it, and the handlers await by await; `Unreachable`, `GiveUp`, `ProcessRestart` |
| `MCPickup`, `MCStock`, `MCOrders`, `MCTransport`, `MCProcurement`, `MCUssd`, `MCUssdCalls`, `MCListings`, `MCInputs`, `MCTokens` | model values and sizes for TLC | | |
| `QuantitiesTheorems` | lemmas on sums, for all that follow | | |
| `PickupScheduling_proofs`, `StockInventory_proofs`, `OrderLifecycle_proofs`, `TransportRequests_proofs`, `Procurement_proofs` | theorems about the module each is named after | | |
| `ListingsAndUssd_proofs` | theorems about `Listings`, about `UssdSession` and about `UssdCalls` | | |
| `InputsAndTokens_proofs` | theorems about `InputOrders` and about `AuthTokens` | | |

How the code corresponds to a module, in all of them but the two of the menu:

- **A row** is a record. Rows are named by primary key; a row that was not
  inserted has a status such as `absent`, a quantity of 0 or `none`.
- **A handler** is `request[r]`: `op` names the statement it comes to next, the
  other fields are what it read and will use. `Idle` is a slot for the next
  request; the number of slots is the number of requests in flight.
- **A read** (with the checks up to the next `await`) is the action that starts
  a handler or moves it on. **A write** is one statement or one `$transaction`,
  with its triggers, and is guarded by the CHECK and UNIQUE constraints and by
  nothing else: what the handler checked before may be stale. An endpoint whose
  reads give nothing to its one write, the parties aside, is a single action.
- **Failure**: `Fail(r)` (`Interrupt(r)` in `InputOrders` and `AuthTokens`)
  drops a handler between two statements, for an error the handler does not
  catch, a refused constraint or a restart. `Skip(r)` in `StockInventory` is the
  statement whose error is caught and logged. `TransportRequests`,
  `Procurement` and `Listings` have no such action: a handler that never takes
  its next step leaves the same rows behind, and their safety properties hold
  of every prefix.
- Definitions headed "Seeded fault" belong to no behaviour of `Spec`: they are
  plausible bugs, put in the place of a definition to see that a property
  notices.

`OrderLifecycle` has one order, as orders share nothing but stock; that part
is in `StockInventory`, where an order entering PROCESSING is a
`SellRead`/`SellWrite` (listing) or `DeductRead`/`DeductWrite` (batch).
`OrderLifecycle` keeps only that a handler *came through* these statements
(`processed`): the code stops at a `BadRequestException` (too little stock in
the batch) and logs every other failure, so that an order that came through
may have taken nothing, and one that was refused may have taken from its
listing (section 7). `fromStock` of a listing in `Listings` marks the row that
`createStockIn` inserts as ACTIVE; its quantities are in `StockInventory`.
`PickupStockIn` in
`StockInventory` is the row that `ConfirmTx` of `PickupScheduling` inserts.
`TransportRequests` keeps of the order its status and lets the rest of the
system write it (`OrderMoves`); what `OrderLifecycle` calls a transport
provider is the caller whose calls `OrderRead` and `OrderWrite` make here. An
answer of `Procurement` that is converted is an `OrderLifecycle` that starts.

In `UssdSession` the unit is a whole request, which assumes that no request of
another call comes while its handler waits; `UssdCalls` is about what happens
when one does. There a handler goes from one input or output to the next as one
step: the session store and the library's walk answer without one, so that
Node runs no other request in between. `args` is the call that `menu.args`
names, to whose session every handler writes and whose caller it answers;
`crossed` remembers the calls with a request that came while another call's
handler was waiting. The two modules share the text of the sign-in, and nothing
else of the menu sets what `UssdCalls` keeps.

`ussd-builder` is not in the repository; its walk, from the start state along
*all* keys of the call with the session as it is now, is modelled as an external
definition (version 1.3.2, which `package.json` names), `Walk`. `next` of each
state is in `Goes`, its `run` an operator of the state's name, such as
`OrderView`. `screen.offers` is what the text on the caller's screen says that
keys will do, and `shown` keeps what the page of an order and that of a booking
last said; `deed` is what the request then asked of another service.

## 4. The runs

`CHECK_DEADLOCK FALSE` everywhere: the server may rest when no client calls,
and a small model may have used up its ids.

| Run | Question | Bounds |
|---|---|---|
| `pickup` | Do the counters, the receipts and the ledger survive every interleaving of the pickup endpoints? Yes. | 1 schedule, 3 bookings, 2 batches, 3 handlers, quantities up to 2, capacity up to 3: 451,557 states |
| `stock` | Do the centre's books follow the inventory; can stock enter or be offered unearned? They follow, it cannot. | a main and a satellite centre, 1 batch, 2 items, 2 transactions, 2 handlers, 1 or 2 kg: 501,123 states |
| `orders` | Can any order of calls and failures reach fulfilment unpaid, or hand out goods before the stock check came through and the stock-out is on record; can a confirmation vanish? No. | one order, 2 handlers, failures, a provider free to ask for IN_TRANSIT and DELIVERED: 1.5 million states |
| `order_escrow_missing` | Has each secured payment an escrow? No. | 2 handlers |
| `transport` | Do goods leave only after their release, do only those act who were named, and does a provider's delivery reach the order? Yes. | 1 request, 1 provider and the buyer, 2 handlers, fairness: 581,152 states |
| `procurement` | Is what counts as fulfilled ordered, does the list of the awarded name awarded suppliers only, does an accepted offer get its order? Yes, failures of the batch aside. | a call of 2 kg, 2 answers of 1 or 2 kg, 1 farmer with 2 batches, 2 handlers, a list of the awarded that starts empty: 1,975,229 states |
| `rfq_counted_twice` | Is the number of responses that of the rows? No. | as `procurement`, 1 handler |
| `ussd` | Is a PIN stored only when typed twice running, and does an order or a booking change only as its page, last seen, said of the key? Yes. | 8 keys to a call, 1 restart, 2 PINs and an invalid entry, the keys 1, 2, 6 and 98 after the main menu, one line to a page: 1,127,259 states |
| `ussd_calls` | When calls overlap, is a farmer known only by a PIN that was typed, and a PIN stored only when typed twice; is the latest request answered? Yes. | 2 users, one with a PIN or both, 2 calls of 2 entries, 2 handlers, 2 PINs, fairness: 496,112 states |
| `listings` | Is what buyers see free of a rejection and approved, unless a stock-in made it, and a stored total that of the stored terms? Yes. | 1 lead farmer, 2 handlers, terms of 0, 1 and 2, 1 conversion: 972,908 states |
| `inputs` | Was an accepted order taken from the stock, and is the stock short by no more than was taken? Yes. | orders of 2 and of 1, counts of 0 and 2, 2 handlers, an order taken twice at most, hence 4 kg in all: 49,473 states |
| `tokens` | Does a refresh token work once? Yes. | 2 users, 4 tokens, 3 logins, 3 handlers: 132,072 states |

Why the bounds are enough. Every hazard of the pickup endpoints takes a victim,
a rival and at most one bystander (a booking that lets the rival in, or that
shares its schedule), hence three handlers and three bookings; a capacity of 3
with quantities of 1 and 2 has full, exact and partial fits. Schedules do not
share rows, so that one is enough, and the theorems hold for any number. In the
stock two handlers interleave on one batch, since batches share only the
capacity of a centre; two item ids are what it takes for a second item of
a batch to be tried, and two centres for a transfer. In the orders three of
the rows are single (order, payment, escrow), and the properties that hold
under two handlers are proved for any number of them and any set of statuses
asked for. In `orders` the caller of the unguarded endpoints is a transport
provider, who bypasses the transition table and asks for the statuses of the transport
service and for ORDER_ACCEPTED: that reaches every status the farmer's, the
buyer's and the centre's own endpoints go by, out of the usual order. Staff is
covered by the theorems, whose `Callers` are arbitrary.

A transport request is moved by one handler while another moves it, the order or
its provider, which takes two; the requests of an order read each other only to
see that one exists, and a row that was read is written by its id, so that one
row has every overlap. Besides the order deliveries that the system makes,
callers ask for produce deliveries, the type that tells the order without
waiting for a release. In `procurement` two answers compete for the fulfilled
quantity, for the award and for the batch, and one supplier with both is the
case in which the list of the awarded can go wrong (a second response of a
listed supplier). Two answers of 1 or 2 kg to a call for 2 fall short of it,
meet it and pass it. Where `awardedTo` starts as NULL, as the Prisma migration
leaves it (`migrations/003` gives it a default), the trigger adds nobody
(`ListHasDefault`); the theorems cover both. In `ussd` eight keys reach every
state of the menu, the PIN typed twice included; the lists are long enough for a
second page, of which one line each is shown; a restart can come before any key.
In `ussd_calls` one call's handler waits while the other's request takes the
menu over, which takes two of each; two entries are a PIN typed twice, or a PIN
and a choice in the menu, and three wrong PINs can come from two calls. A
listing is decided by two handlers that overlap, as each ends in one blind write
that leaves nothing of what the row was; one conversion lets offers come before
it, in the middle of it and after it; 0 is among the terms because the code
takes it for "not given". An input's stock is shared by orders, hence two of
different size; a third handler could only repeat one of the two. A refresh
token is used by two handlers while a third logs in or out, and three logins
allow each user a chain and one a second.

Fairness. Only liveness needs it: `FairSpec` of `TransportRequests` adds weak
fairness of `HandlerStep(r)` for each handler slot, and `CallsSpec` that of each
handler of the menu going on, with what it waits for or with an error. It is
justified by Node's event loop: a handler that awaits is resumed when the
database answers, so that one that began comes to its end. No fairness is
assumed of clients: nobody has to call. A server that stops for ever would owe
nothing; `LatestIsAnswered` allows for the restart, which forgets whom to
answer.

Each property of a passing run has a mutant in `PROJECT.json`: a definition
with a plausible bug (a dropped guard, a check made too weak, a missing
reset) under which TLC finds the property violated.

## 5. What is proved

The theorems hold for every value of the constants that the ASSUMEs admit: any
sets of schedules, bookings, centres, batches, items, transactions, requests,
providers, answers, suppliers, input orders, users, tokens and handlers, any
statuses of the API asked by any callers, with or without errors, calls of any
length over lists of any length. The
assumptions are these:

- rows that are summed or counted are finitely many (`IsFiniteSet` of bookings,
  items, transactions, answers and input orders; of the handlers in
  `Procurement`, where those about to count a response are counted), and a
  quantity is at most `MaxQty`, which is any number. In `InputOrders`,
  whose stock is any number, `MaxQty` only serves to weigh what was taken:
  `MaxTaken * Size[o]` fits it;
- inputs are within their DTO's range or enum (`Sizes`, `Counts`, `Asked`,
  `Wanted`, `Terms`);
- the sets of one kind fit together: `None` is none of the values it stands
  beside, nor is `Nobody` in `UssdCalls`, a requester is no provider, main
  centres are centres, a batch has an
  owner, there is a farmer;
- in `UssdSession`, keys are numbers, a page has 1 to 5 lines (the menu's keys
  1 to 5 select one), a list has a length and a centre that is listed has its
  list of schedules;
- in `TransportRequests`, what the rest of the system writes to an order
  (`Moves`) is not DELIVERED, the status that transport writes itself.

In most components a property says something of the rows, and fails to be
inductive because of the handlers: one that is about to write may write
anything, unless it is said what it saw and that this still holds. Each
inductive invariant therefore has a conjunct about handlers (`Entitled`,
`Handlers`, `Relies`, `AcceptsTaken`), and the work is in showing that what a
handler relies on is never taken back by another (`Kept`).

**Pickup** (`PickupScheduling_proofs`). `NoOverbooking` is not inductive: an
update must know that the counter it compares with *is* the sum. `CapacityInv`
adds this: types, references between rows, every slot counter equal to its own
booking, every schedule counter equal to the sum over its bookings not yet
released. The heart is the pair of lemmas on the two cancelling transactions:
the slot's CHECK (`usedCapacity >= 0`) refuses a second release, so that the
increment and decrement of the schedule cancel out whichever order requests
commit in. `ReceiptInv` does the same for receipts, from the two unique
columns. `Implements` maps schedules to accounts and bookings to claims and
shows that each step is a step of `CapacityLedger` or leaves it alone; its
facts about sums are in `QuantitiesTheorems`.

**Orders** (`OrderLifecycle_proofs`). The status alone cannot carry the
argument, as a handler may be about to write a status that it justified long
before. `OrderInv` therefore speaks of both: the row and *every handler in
flight* is `Entitled` to the status it holds or is after, where entitlement to
fulfilment is the farmer's confirmation, to what follows processing that some
handler came through the deduction, and to collection a recorded stock-out.
These facts never become false again (the confirmation flag is never reset, the
history only grows), so that an entitlement once earned survives whatever other
handlers do; each action has only to show that it earns what it asks for. From
it follow `PaidFirst`, `CheckedFirst`, `StockedOutFirst`, and directly from the
writes `ConfirmedForGood`.

The last two theorems of the module are about handlers that run one at a
time (`OneAtATime`: no two elements of `Requests`), which is their hypothesis;
section 7 says how each fails without it. Nothing else is assumed of the
calls, their number or their order, but where the code by its design allows
more: `ProcessedOnceInTurn` also assumes that handlers do not fail (`~Errors`),
as a handler that stops after the deduction lets the next one come through it
again, and `CancelledInTurn` that the callers of the unguarded endpoints are
parties, as staff and providers may change a cancelled order. Their invariants
say what a handler found and, being alone, still finds: `TakesOnce` an order not
yet processed, `Finds` an order that is not cancelled. `ProcessedOnce` is about
the way through the deduction and says nothing of kilograms: what a
refused try leaves behind, section 7 says.

**Stock** (`StockInventory_proofs`). The invariant falls into three parts that
different statements move. *Books*: a centre's stock is the weight of its items;
every write of an item carries the trigger, so that an absolute quantity written
from a stale read moves both alike (`LoadReplace`), and the UNIQUE index keeps
one item per batch. *Papers*: a handler books only a transaction that no longer
awaits its confirmation (`Justified`), and no statement makes one wait again,
whatever another handler decided meanwhile; and a transaction that is to be
listed has one handler (`OneLister`), as only its own `createStockIn` lists it.
*Sales*: `ListingRows` and `ListingReads` bound what a listing holds, and what a
handler *saw* it hold, by the stock-ins that no handler is still to list
(`Done`). That is what makes stale writes harmless: a handler adds its own
transaction to something it saw without it. `NeverListsMoreThanReceived`
follows, as `Done` is a part of all stock-ins.

**Transport** (`TransportRequests_proofs`). `Inv` joins what is on record
(`Records`: a departure has a release, an arrival a delivery, each act a person
named) with what each handler relies on. `Kept` lists what no step takes back:
the release of the order, the existence, type and delivery of a request, and
who was ever named on it. `ReliesStays` concludes that checks made several awaits
ago still count, which the theorem `ChecksStillCount` states.

**Procurement** (`Procurement_proofs`). `FulfilledIsOrdered` is in danger from
two sides: a handler writes a sum of what it saw and an offer, and two handlers
may add the same offer. Against the second, `OneConverter`: an answer gets its
order once, by the unique link, and only who inserted it goes on to add it.
Against the first, `Sums`: what is fulfilled, and what any handler saw of it,
weighs no more than the *settled* answers, those with an order and no handler
still busy with it; adding one's own offer while settling it keeps this. `Counts` does
the like for responses, counted twice or about to be. `AwardedToAreAwarded`
rests on the trigger alone, which adds a supplier in the statement that awards
a response and removes it in any that takes an award back;
`AcceptedIsOnItsWay` on the one statement that accepts an offer leaving its
handler about to insert the order.

**Listings** (`ListingsAndUssd_proofs`). `ACTIVE` has two writers, as an update
that asks for it is ignored: the approval, which stores the lead farmer and
clears the reason in the same statement, and the stock-in that makes the row,
without either. A rejection writes a status of its own beside its reason. So no
interleaving publishes half of two decisions. A counter offer writes the total
or empties it, and there is none before the first (`NoTotalYet`).

**Input orders** (`InputsAndTokens_proofs`). A handler about to write ACCEPTED
has taken the order's quantity or found it accepted (`AcceptsTaken`), and
`taken` never decreases. For the stock, each take moves the weight of what was taken by
as much as the stock (`LoadReplace`), and a recount starts from a number that
is not negative.

**Tokens** (`InputsAndTokens_proofs`). `OneChainPerLogin` lacks one thing to be
inductive: that a new login is none of those whose chain exists. `Issued` says
that chains are numbered up to `logins`. A chain is always in one place: a
stored token, or the handler that deleted it and will store the next; each of
the two statements of a refresh moves it, and every other step only removes
chains or starts a new one (`OnlyLess`, `NewChain`).

**USSD** (`ListingsAndUssd_proofs`). Every request walks all keys of the call
again, with the session of now, so what can happen depends on where walks can
end, for any number of keys. A walk exists and follows `Goes` key by key
(`WalkSteps`): the set of lengths without a walk has no least element, and every
set of numbers that is not empty has one (`Least`, from the library's theorem
that finite sets are well founded, which needs no operator as a parameter).
Walks are then argued about in the same way: no key leads from a menu back to
where a PIN is asked for (`MenusStay`), hence a set of states closed under
`Goes` is never left (`WalkStays`), and the session alone tells the two halves
of the menu apart: without a verified PIN a request ends in `auth.verifyPin`, or
in the dialogue of a new PIN if there is none yet; with one, in the menus
(`WhereItLeads`). The invariant `UssdInv` says what the session knows:
`CallInv`, of the caller (a verified caller has typed something; a first entry
that counts as valid *is* the last key typed), and `PagesInv`, of the chosen row
(what the session would do with it is what its page said). The second is not
that of the screen: `DoneAsOffered`, its obvious form, is false (section 7).
Most screens leave both alone (`Quiet`), which is most of the proof; the two
pages and the four requests that handle a PIN re-establish them. `UssdPinTwice`
and `UssdDoneAsShown` follow for each step: the routes into a deed look at the
flags and the row that the page was made from (`RowRoutes`).

**USSD, several calls** (`ListingsAndUssd_proofs`). A handler writes to a session
that need not be its own call's, so `GoodWork` must say what it may: while
`menu.args` names another call than the handler's, that call is `crossed`,
because its request came while the handler waited. `GoodSession` says of a
session what holds whoever wrote it (some call has had the PIN of its user
typed, the first entry kept in it was typed in its own call) and, unless the
call is crossed, that its users are its caller. Both are stated of what was
typed, of the PINs there were and of the crossed calls, all of which only grows
(`Grown`); what a session or a handler knows hence stays good
(`SessionStaysGood`, `WorkStaysGood`), and each step has to show it only of
the row it writes and of the handler it moves (`OvertakingKeeps` for requests,
`HandlerKeeps` for handlers). `StoredTypedTwice` holds without exception, as
only a request of the call itself puts a first entry into its session: handlers
of other calls can only empty it, and then the comparison fails.

**Only model-checked**: liveness (`ProviderDeliveryReachesOrder`,
`LatestIsAnswered`), which is beyond the prover, and the two runs that
show violations.

## 6. What is left out

- Floating point: kilograms and money are whole numbers. The columns are `Float`; a
  residue of increments and decrements at a CHECK's boundary
  (`transport.service.ts:1257`) is not seen.
- `createPickupSlot`: nothing reads a slot made ahead.
- Notifications, activity logs, history rows: they are written after the fact
  and their failure, where awaited uncaught, is a handler's failure.
- Quality checks and wastage rows (they add rows; the status a quality check
  asks for is in `OrderLifecycle`), a centre's type, names and texts
  of all kinds, prices and quantities that a farmer edits by hand on a listing.
- Expiry and deadlines: no code acts on them; where a row that is past its
  deadline is refused, that is one more refusal. Passwords and JWT signatures
  likewise.
- The columns `status` and `paymentStatus` of inputs and their orders, which
  decide nothing; payments that are not of a marketplace order.
- In `UssdSession`: requests of other calls that overlap, more than two pages, and
  what the other services answer to a deed, which is in their own modules. In
  `UssdCalls`: everything behind the sign-in, which is one wait. So
  nothing is said of which rows the menus show or change when calls overlap;
  they go by `userId` and by what the session keeps, and as sessions are
  written across calls, `DoneAsShown` is a statement about calls that are alone.
- Analytics and its cache: the reports are arithmetic over read-only queries,
  and what the cache holds no other component reads.
- The components that `PROJECT.json` lists as `not_modelled`, with the reason.

## 7. What the models found

Kept as violation runs, each against a sentence of the repository (see
"findings" in `PROJECT.json`): `order_escrow_missing` and `rfq_counted_twice`.

Further properties are stated in the modules and *fail*. No run shows them; to
see one, add it to the configuration named, under INVARIANTS or (marked \*)
PROPERTIES.

| Property | Configuration | What happens |
|---|---|---|
| `PickupScheduling!CancelledScheduleHasNoBooking` | `MCPickup` | a booking commits between the list of bookings that a cancellation reads and its transaction (T:1034) |
| `PickupScheduling!OpenScheduleCanBeCancelled` | `MCPickup` | a booking cancelled earlier is released a second time and the slot's CHECK refuses the whole cancellation (T:1053) |
| `StockInventory!EnteredOnce` | `MCStock` | two confirmations of one transaction both see it pending (A:388) |
| `StockInventory!DeductionFits` | `MCStock` | a deduction of all a batch holds writes 0, which a CHECK refuses; the error is logged (M:921) |
| `StockInventory!EverySaleIsDeducted` \* | `MCStock` | two sales write a listing's quantity from their own reads (M:892) |
| `OrderLifecycle!StockOutIsMarked` \* | `MCOrders` (a) (b) | the status update that would mark the stock-out is refused after it is on record (A:1134) |
| `OrderLifecycle!ProcessedOnce` | `MCOrders` | two `startOrderProcessing` both find READY_TO_PROCESS, or one stops after the deduction (M:1188) |
| `OrderLifecycle!CancelledIsFinal` \* | `MCOrders` (b) | a status checked before the cancellation is written after it (M:1131) |
| `OrderLifecycle!ReleasesSecuredOnly` \* | `MCOrders` | a dispute and a release both read SECURED and the release is written last (P:325) |
| `OrderLifecycle!ConfirmationMovesOn` \* | `MCOrders` (a) | the farmer's confirmation overtakes the order status of the buyer's (P:779) |
| `TransportRequests!DeliveryReachesOrder` \* | `MCTransport` | a delivery recorded by the requester is refused by the order's table, and a repetition passes nothing on (T:417) |
| `Listings!ShownIsApproved` | `MCListings` | a stock-in lists its batch as ACTIVE (A:832), where the comment of `getListings` (M:112) says that buyers see what was approved |
| `UssdCalls!KnownInOwnCall` | `MCUssdCalls` | see below |
| `UssdCalls!EveryoneIsAnswered` \* | `MCUssdCalls` | see below |
| `UssdSession!BackChangesNothing` \* | `MCUssd` | see below |
| `UssdSession!DoneAsOffered` \* | `MCUssd` with `MaxInputs = 17`, and only the keys listed below typed, in their order | see below |

(a) with `FairSpec`, `Errors = FALSE` and without SYMMETRY; (b) with
`Callers = {"party"}`, who is held to the transition table, and `"CANCELLED"`
in `Asked`. T, M, A and P are `transport`, `marketplace`, `aggregation` and
`payment.service.ts`.

What PROCESSING takes from the stock is known less well than the status says. A
failed update of the listing, a batch without an inventory item, and any error
of the batch's update that is not a `BadRequestException`, such as the CHECK
that refuses a quantity of 0, are logged, and the order goes on
undeducted (M:899, M:927, M:930). And the listing is written (M:893) before the batch
is compared (M:915), so that an order refused for want of stock, and tried
again, is taken from the listing twice even if nothing overlaps. Therefore
`CheckedBeforeCollection` and `ProcessedOnce` speak of handlers that came
through, and not of kilograms.

All USSD calls share one menu (`ussd.service.ts:36`), and `session.set` takes the
session from the arguments of the latest request. While the handler of one
call waits for the database or for `bcrypt`, a request of another call makes
the menu its own; the first handler then marks *that* call's session as verified and
stores its own caller's `userId` there (`KnownInOwnCall` fails), and the answer
of the menu goes to the second caller, so that the first waits until the
provider gives up (`EveryoneIsAnswered`). What holds is `KnownByTypedPin`:
a call of which no request came while another call's handler was waiting is
known by its own caller's PIN.

The phone menu keeps no position of its own: every key makes the library walk all
keys of the call again, with the session as it is *now*. A flag that was cleared
since gives earlier keys another meaning. After PIN, PIN, 6 (inventory), 1 (a
batch), 2 (not a line of the list: the selection is marked invalid), 1 (the
batch, which clears the mark) the screen offers "98. Back"; the walk now takes
the first 1 for the batch, the last for "set price" and 98 for the price, which
is stored. The same cause can submit a booking or an offer past its confirmation,
which is why `DoneAsShown` does not speak of these.

It can even do to a row what the screen does not offer. A farmer without a PIN
types 1111 twice, 1 (orders), 1 (order o1, which is placed: the page offers
to accept it), 99 (main menu), 2, 1, 1, 1, 1 (pickups, a centre, a schedule, its
details, the quantity), 0 (refused), 2, 99 (more than is free), 1, 1: now 1 kg fits,
and the screen offers "1. Confirm" of the booking. But with the booking *ready*
the walk takes the 2 for the way back to the pickups, 99 for the main menu, and
1, 1, 1 for the orders, o1 and its acceptance: the last 1 accepts the order and
books nothing (`ussd.service.ts:1325`). So `DoneAsOffered` fails, in 16 keys, more
than the run `ussd` looks at; what holds is `DoneAsShown`: o1's own page did offer
that 1.

Present in the models, without a property of their own, as no sentence of the
repository promises the contrary or the cause is the same blind write:

- a schedule published after it was cancelled; a booking cancelled after its
  pickup was confirmed, or confirmed after it was cancelled;
- a stock transaction rejected after it was confirmed and entered; one that
  stays CONFIRMED though a constraint refused its inventory;
- a stock-out recorded for more than its batch held: only the centre's total
  stock is compared;
- two open transport requests of one order; a provider replaced by another who
  accepted at the same time;
- an order placed by `createOrder` on an offer for another quantity than the
  offer's (M:605): what is fulfilled grows by the offer's;
- the fulfilled quantity of a sourcing request losing one of two acceptances; an
  accepted offer whose batch is unknown stays accepted without an order;
- a listing decided by two lead farmers at once: the later write wins; and an
  update that puts a listing back to PENDING_LEAD_APPROVAL from any status,
  where a comment (M:248) names REVISION_REQUESTED only;
- a negotiation that is accepted, rejected or converted more than once and from
  any status;
- input stock below zero, when orders that each fitted are accepted together,
  and an order accepted again after another status taken from the stock again;
  `updateInput` writes a lowercase `status` that the database enum refuses;
- a logout that a refresh overlaps leaves one token behind (`auth.service.ts:281`), and
  a suspended account can still refresh its tokens;
- `ORDER_REJECTED` and `PAYMENT_CONFIRMED_BY_FARMER`, which the transition table
  or the USSD menu name and the database enum does not have, so that these
  requests always fail.
