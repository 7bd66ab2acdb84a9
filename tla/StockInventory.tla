--------------------------- MODULE StockInventory ---------------------------
(***************************************************************************)
(* Stock of the aggregation centres (src/modules/aggregation/              *)
(* aggregation.service.ts): stock transactions, the inventory item of each *)
(* batch, the listing a stock-in puts on sale, and the deductions that     *)
(* updateOrderStatus (marketplace.service.ts) makes when an order enters   *)
(* PROCESSING.  No handler uses a transaction: each action is one database *)
(* statement, with the trigger inventory_stock_update, which moves the     *)
(* currentStock of the centre, inside the statement that fires it.         *)
(*                                                                         *)
(* request[r] is what handler r read so far.  Inventory rows are written   *)
(* by the primary key read before, with an absolute quantity computed from *)
(* the quantity read.  A statement on the inventory that a constraint      *)
(* refuses is caught and logged and the handler goes on: the action Skip.  *)
(* What the handlers do to orders is in OrderLifecycle; what farmers do to *)
(* listings by hand, and the type of a centre once created, is left out.   *)
(***************************************************************************)
EXTENDS Quantities

CONSTANTS
    Centers,        \* ids of aggregation_centers rows
    MainCenters,    \* those of type MAIN; the others are SATELLITE
    Batches,        \* batch ids
    Items,          \* primary keys of inventory_items, never used twice
    Transactions,   \* ids of stock_transactions rows
    Requests,       \* handlers in flight at the same time
    Sizes,          \* the kilograms a stock transaction or an order can have
    None

ASSUME StockAssumption ==
    /\ IsFiniteSet(Items)
    /\ IsFiniteSet(Transactions)
    /\ MainCenters \subseteq Centers
    /\ Sizes \subseteq 1 .. MaxQty
    /\ None \notin Centers \cup Batches \cup Transactions

VARIABLES
    center,     \* aggregation_centers: totalCapacity and currentStock
    item,       \* inventory_items
    tx,         \* stock_transactions
    listing,    \* produce_listings, by batchId: quantity and availableQuantity
    request,    \* handlers between two statements
    entered     \* history: how many inventory writes stand for a transaction

vars == <<center, item, tx, listing, request, entered>>

Capacities == 1 .. MaxQty

Idle == [op |-> "idle"]

CenterRow == [total : 0 .. MaxQty, stock : 0 .. MaxQty]   \* total = 0: no such row

ItemRow == [state : {"unused", "live", "deleted"}, center : Centers \cup {None},
            batch : Batches \cup {None}, qty : Quantity]

\* pickup: written by confirmPickup, awaiting the centre's confirmation.
TxRow == [type : {"none", "STOCK_IN", "TRANSFER", "STOCK_OUT"},
          status : {"none", "PENDING_CONFIRMATION", "CONFIRMED", "REJECTED"},
          center : Centers \cup {None}, batch : Batches \cup {None},
          qty : Sizes \cup {0}, pickup : BOOLEAN]

ListingRow == [quantity : Nat, available : Nat]            \* quantity = 0: no such row

\* A stock-in or confirmation books its transaction tx into the inventory and
\* then the listing; a stock-out of tx and an order in PROCESSING take from a
\* batch.  item and was are the row read and its quantity.
Request ==
    [op : {"idle"}]
    \cup [op : {"confirm", "reject", "find", "create", "list", "createListing", "findOut"},
          tx : Transactions]
    \cup [op : {"add", "take"}, tx : Transactions, item : Items, was : Quantity]
    \cup [op : {"addListing"}, tx : Transactions, was : ListingRow]
    \cup [op : {"stockOut"}, center : Centers, batch : Batches \cup {None}, qty : Sizes]
    \cup [op : {"sell"}, batch : Batches, qty : Sizes, was : Nat]
    \cup [op : {"deduct"}, batch : Batches, qty : Sizes, was : Quantity]

TypeOK ==
    /\ center \in [Centers -> CenterRow]
    /\ item \in [Items -> ItemRow]
    /\ tx \in [Transactions -> TxRow]
    /\ listing \in [Batches -> ListingRow]
    /\ request \in [Requests -> Request]
    /\ entered \in [Transactions -> Nat]

NoItem == [state |-> "unused", center |-> None, batch |-> None, qty |-> 0]

NoTx == [type |-> "none", status |-> "none", center |-> None, batch |-> None, qty |-> 0,
         pickup |-> FALSE]

Init ==
    /\ center  = [c \in Centers |-> [total |-> 0, stock |-> 0]]
    /\ item    = [i \in Items |-> NoItem]
    /\ tx      = [t \in Transactions |-> NoTx]
    /\ listing = [b \in Batches |-> [quantity |-> 0, available |-> 0]]
    /\ request = [r \in Requests |-> Idle]
    /\ entered = [t \in Transactions |-> 0]

(***************************************************************************)
(* The database.                                                           *)
(***************************************************************************)

LiveOf(b) == {i \in Items : item[i].state = "live" /\ item[i].batch = b}

\* aggregation_centers_capacity_check
CenterCheck(c, stock) == center[c].total > 0 /\ 0 <= stock /\ stock <= center[c].total

\* Seeded fault: an update forgets the old quantity.
StockAddsNew(c, old, new) == center[c].stock + new

\* update_center_stock(): old = 0 on INSERT, new = 0 on DELETE.
StockAfter(c, old, new) == center[c].stock - old + new

\* Seeded fault: batchId is not unique.
InsertFitsAnyBatch(c, b, q) == q > 0 /\ CenterCheck(c, StockAfter(c, 0, q))

\* inventory_items.batchId is unique, its quantity positive.
InsertFits(c, b, q) == LiveOf(b) = {} /\ q > 0 /\ CenterCheck(c, StockAfter(c, 0, q))

UpdateFits(i, q) ==
    /\ item[i].state = "live"
    /\ q > 0
    /\ CenterCheck(item[i].center, StockAfter(item[i].center, item[i].qty, q))

\* The trigger inventory_stock_update: part of the statement on the item, which
\* the centre's CHECK refuses together with it.
MoveStock(c, old, new) == center' = [center EXCEPT ![c].stock = StockAfter(c, old, new)]

InsertItem(i, c, b, q) ==
    /\ item[i].state = "unused"
    /\ InsertFits(c, b, q)
    /\ MoveStock(c, 0, q)
    /\ item' = [item EXCEPT ![i] = [state |-> "live", center |-> c, batch |-> b, qty |-> q]]

UpdateItem(i, q) ==
    /\ UpdateFits(i, q)
    /\ MoveStock(item[i].center, item[i].qty, q)
    /\ item' = [item EXCEPT ![i].qty = q]

DeleteItem(i) ==
    /\ item[i].state = "live"
    /\ CenterCheck(item[i].center, StockAfter(item[i].center, item[i].qty, 0))
    /\ MoveStock(item[i].center, item[i].qty, 0)
    /\ item' = [item EXCEPT ![i].state = "deleted", ![i].qty = 0]

InsertTx(t, row) ==
    /\ tx[t].type = "none"
    /\ tx' = [tx EXCEPT ![t] = row]

(***************************************************************************)
(* Handlers.                                                               *)
(***************************************************************************)

Goto(r, req) == request' = [request EXCEPT ![r] = req]

Begin(r, req) == request[r] = Idle /\ Goto(r, req)

Finish(r) == Goto(r, Idle)

rows == <<center, item, tx, listing, entered>>

CreateAggregationCenter(c, n) ==
    /\ center[c].total = 0
    /\ center' = [center EXCEPT ![c].total = n]
    /\ UNCHANGED <<item, tx, listing, request, entered>>

\* updateAggregationCenter: no read, only the CHECK.
UpdateAggregationCenter(c, n) ==
    /\ center[c].total > 0
    /\ center[c].stock <= n
    /\ center' = [center EXCEPT ![c].total = n]
    /\ UNCHANGED <<item, tx, listing, request, entered>>

\* The stock transaction of confirmPickup (transport.service.ts); the batch of
\* a pickup receipt is unique among receipts.
PickupStockIn(t, c, b, q) ==
    /\ center[c].total > 0
    /\ \A u \in Transactions : tx[u].pickup => tx[u].batch # b
    /\ InsertTx(t, [type |-> "STOCK_IN", status |-> "PENDING_CONFIRMATION", center |-> c,
                    batch |-> b, qty |-> q, pickup |-> TRUE])
    /\ UNCHANGED <<center, item, listing, request, entered>>

ConfirmRead(r, t) ==
    /\ tx[t].status = "PENDING_CONFIRMATION"
    /\ tx[t].type = "STOCK_IN"
    /\ Begin(r, [op |-> "confirm", tx |-> t])
    /\ UNCHANGED rows

\* Seeded fault: the inventory is entered before the status is written.
ConfirmWriteLate(r) ==
    /\ request[r].op = "confirm"
    /\ Goto(r, [op |-> "find", tx |-> request[r].tx])
    /\ UNCHANGED rows

\* The status is written by id, whatever it has become since it was read.
ConfirmWrite(r) ==
    /\ request[r].op = "confirm"
    /\ LET t == request[r].tx
       IN  /\ tx' = [tx EXCEPT ![t].status = "CONFIRMED"]
           /\ IF tx[t].batch = None THEN Finish(r) ELSE Goto(r, [op |-> "find", tx |-> t])
    /\ UNCHANGED <<center, item, listing, entered>>

\* rejectStockTransaction does not look at the type.
RejectRead(r, t) ==
    /\ tx[t].status = "PENDING_CONFIRMATION"
    /\ Begin(r, [op |-> "reject", tx |-> t])
    /\ UNCHANGED rows

RejectWrite(r) ==
    /\ request[r].op = "reject"
    /\ tx' = [tx EXCEPT ![request[r].tx].status = "REJECTED"]
    /\ Finish(r)
    /\ UNCHANGED <<center, item, listing, entered>>

\* createStockIn.  With a source centre and a MAIN destination it is a transfer:
\* the source must be a satellite, and a stock-out named with it must be one
\* of the source.  The transaction is CONFIRMED at once.
CreateStockIn(r, t, c, b, q, source, out) ==
    /\ center[c].total > 0
    /\ LET transfer == source # None /\ c \in MainCenters
       IN  /\ transfer => /\ source \in Centers \ MainCenters
                          /\ center[source].total > 0
                          /\ out # None => /\ tx[out].type = "STOCK_OUT"
                                           /\ tx[out].center = source
           /\ InsertTx(t, [type |-> IF transfer THEN "TRANSFER" ELSE "STOCK_IN",
                           status |-> "CONFIRMED", center |-> c, batch |-> b, qty |-> q,
                           pickup |-> FALSE])
    /\ Begin(r, [op |-> "find", tx |-> t])
    /\ UNCHANGED <<center, item, listing, entered>>

\* Seeded fault: a transfer is put on sale again at its destination.
AfterInventoryListsTransfers(r, t) ==
    IF ~tx[t].pickup THEN Goto(r, [op |-> "list", tx |-> t]) ELSE Finish(r)

\* What follows the inventory: createStockIn lists the produce for sale, unless
\* it is a transfer; confirmStockTransaction is done.
AfterInventory(r, t) ==
    IF tx[t].type = "STOCK_IN" /\ ~tx[t].pickup
    THEN Goto(r, [op |-> "list", tx |-> t]) ELSE Finish(r)

\* findUnique by batchId.
FindItem(r) ==
    /\ request[r].op = "find"
    /\ LET t == request[r].tx
           found == LiveOf(tx[t].batch)
       IN  \/ found = {} /\ Goto(r, [op |-> "create", tx |-> t])
           \/ \E i \in found : Goto(r, [op |-> "add", tx |-> t, item |-> i, was |-> item[i].qty])
    /\ UNCHANGED rows

EnterNewItem(r, i) ==
    /\ request[r].op = "create"
    /\ LET t == request[r].tx
       IN  /\ InsertItem(i, tx[t].center, tx[t].batch, tx[t].qty)
           /\ entered' = [entered EXCEPT ![t] = @ + 1]
           /\ AfterInventory(r, t)
    /\ UNCHANGED <<tx, listing>>

EnterExistingItem(r) ==
    /\ request[r].op = "add"
    /\ LET t == request[r].tx
       IN  /\ UpdateItem(request[r].item, request[r].was + tx[t].qty)
           /\ entered' = [entered EXCEPT ![t] = @ + 1]
           /\ AfterInventory(r, t)
    /\ UNCHANGED <<tx, listing>>

FindListing(r) ==
    /\ request[r].op = "list"
    /\ LET t == request[r].tx
           row == listing[tx[t].batch]
       IN  IF row.quantity = 0 THEN Goto(r, [op |-> "createListing", tx |-> t])
           ELSE Goto(r, [op |-> "addListing", tx |-> t, was |-> row])
    /\ UNCHANGED rows

CreateListing(r) ==
    /\ request[r].op = "createListing"
    /\ LET t == request[r].tx
       IN  /\ listing[tx[t].batch].quantity = 0
           /\ listing' = [listing EXCEPT ![tx[t].batch] =
                             [quantity |-> tx[t].qty, available |-> tx[t].qty]]
    /\ Finish(r)
    /\ UNCHANGED <<center, item, tx, entered>>

AddToListing(r) ==
    /\ request[r].op = "addListing"
    /\ LET t == request[r].tx
       IN  listing' = [listing EXCEPT ![tx[t].batch] =
                          [quantity |-> request[r].was.quantity + tx[t].qty,
                           available |-> request[r].was.available + tx[t].qty]]
    /\ Finish(r)
    /\ UNCHANGED <<center, item, tx, entered>>

\* createStockOut compares with the centre's stock, not with the batch.
StockOutRead(r, c, b, q) ==
    /\ center[c].total > 0
    /\ center[c].stock >= q
    /\ Begin(r, [op |-> "stockOut", center |-> c, batch |-> b, qty |-> q])
    /\ UNCHANGED rows

\* The status of the row is the column's default.
StockOutWrite(r, t) ==
    /\ request[r].op = "stockOut"
    /\ LET q == request[r]
       IN  /\ InsertTx(t, [type |-> "STOCK_OUT", status |-> "PENDING_CONFIRMATION",
                           center |-> q.center, batch |-> q.batch, qty |-> q.qty,
                           pickup |-> FALSE])
           /\ IF q.batch = None THEN Finish(r) ELSE Goto(r, [op |-> "findOut", tx |-> t])
    /\ UNCHANGED <<center, item, listing, entered>>

FindItemOut(r) ==
    /\ request[r].op = "findOut"
    /\ LET t == request[r].tx
           found == LiveOf(tx[t].batch)
       IN  \/ found = {} /\ Finish(r)
           \/ \E i \in found : Goto(r, [op |-> "take", tx |-> t, item |-> i, was |-> item[i].qty])
    /\ UNCHANGED rows

\* A batch taken whole, or more than whole, is deleted.
TakeFromItem(r) ==
    /\ request[r].op = "take"
    /\ LET i == request[r].item
           q == request[r].was - tx[request[r].tx].qty
       IN  IF q <= 0 THEN DeleteItem(i) ELSE UpdateItem(i, q)
    /\ Finish(r)
    /\ UNCHANGED <<tx, listing, entered>>

\* An order enters PROCESSING: its quantity leaves its listing, if it was made
\* from one, or the inventory of its batch.
SellRead(r, b, q) ==
    /\ listing[b].quantity > 0
    /\ Begin(r, [op |-> "sell", batch |-> b, qty |-> q, was |-> listing[b].available])
    /\ UNCHANGED rows

\* Seeded fault: the floor at zero is dropped.
SellWriteNoFloor(r) ==
    /\ request[r].op = "sell"
    /\ LET b == request[r].batch
           left == request[r].was - request[r].qty
       IN  /\ left <= listing[b].quantity
           /\ listing' = [listing EXCEPT ![b].available = left]
    /\ Finish(r)
    /\ UNCHANGED <<center, item, tx, entered>>

\* produce_listings_quantity_check refuses more available than was ever listed.
SellWrite(r) ==
    /\ request[r].op = "sell"
    /\ LET b == request[r].batch
           left == request[r].was - request[r].qty
       IN  /\ left <= listing[b].quantity
           /\ listing' = [listing EXCEPT ![b].available = IF left > 0 THEN left ELSE 0]
    /\ Finish(r)
    /\ UNCHANGED <<center, item, tx, entered>>

DeductRead(r, b, q) ==
    /\ \E i \in LiveOf(b) :
          /\ q <= item[i].qty
          /\ Begin(r, [op |-> "deduct", batch |-> b, qty |-> q, was |-> item[i].qty])
    /\ UNCHANGED rows

\* By batchId; a deduction down to zero is refused by the item's CHECK.
DeductWrite(r) ==
    /\ request[r].op = "deduct"
    /\ \E i \in LiveOf(request[r].batch) : UpdateItem(i, request[r].was - request[r].qty)
    /\ Finish(r)
    /\ UNCHANGED <<tx, listing, entered>>

\* The inventory statement is refused, because it breaks a constraint or the
\* item was deleted meanwhile: the error is caught and the handler goes on.
Skip(r) ==
    /\ \/ /\ request[r].op = "create"
          /\ LET t == request[r].tx IN ~InsertFits(tx[t].center, tx[t].batch, tx[t].qty)
       \/ /\ request[r].op = "add"
          /\ ~UpdateFits(request[r].item, request[r].was + tx[request[r].tx].qty)
    /\ AfterInventory(r, request[r].tx)
    /\ UNCHANGED rows

\* The handler ends early: an error, its own or of a statement that was not its
\* last, a stock-in without a farmer to list for, or a restart of the server.
Fail(r) ==
    /\ request[r] # Idle
    /\ Finish(r)
    /\ UNCHANGED rows

CenterStep ==
    \E c \in Centers, n \in Capacities :
        CreateAggregationCenter(c, n) \/ UpdateAggregationCenter(c, n)

PickupStep ==
    \E t \in Transactions, c \in Centers, b \in Batches, q \in Sizes : PickupStockIn(t, c, b, q)

ConfirmStep(r) ==
    \/ \E t \in Transactions : ConfirmRead(r, t) \/ RejectRead(r, t)
    \/ ConfirmWrite(r)
    \/ RejectWrite(r)

StockInStep(r) ==
    \/ \E t \in Transactions, c \in Centers, b \in Batches, q \in Sizes,
          source \in Centers \cup {None}, out \in Transactions \cup {None} :
          CreateStockIn(r, t, c, b, q, source, out)
    \/ FindItem(r)
    \/ \E i \in Items : EnterNewItem(r, i)
    \/ EnterExistingItem(r)
    \/ FindListing(r)
    \/ CreateListing(r)
    \/ AddToListing(r)
    \/ Skip(r)

StockOutStep(r) ==
    \/ \E c \in Centers, b \in Batches \cup {None}, q \in Sizes : StockOutRead(r, c, b, q)
    \/ \E t \in Transactions : StockOutWrite(r, t)
    \/ FindItemOut(r)
    \/ TakeFromItem(r)

ProcessingStep(r) ==
    \/ \E b \in Batches, q \in Sizes : SellRead(r, b, q) \/ DeductRead(r, b, q)
    \/ SellWrite(r)
    \/ DeductWrite(r)

Next ==
    \/ CenterStep
    \/ PickupStep
    \/ \E r \in Requests :
          ConfirmStep(r) \/ StockInStep(r) \/ StockOutStep(r) \/ ProcessingStep(r) \/ Fail(r)

Spec == Init /\ [][Next]_vars

(***************************************************************************)
(* Properties.                                                             *)
(***************************************************************************)

ItemWeights == [i \in Items |-> item[i].qty]

ItemsAt(c) == {i \in Items : item[i].state = "live" /\ item[i].center = c}

\* The stock a centre shows, which only the trigger moves, is the weight of its
\* inventory, whatever stale quantities the handlers write, and never more than
\* its capacity, even when the capacity is lowered meanwhile.
StockMatchesInventory ==
    \A c \in Centers : /\ center[c].stock = Load(ItemsAt(c), ItemWeights)
                       /\ center[c].stock <= center[c].total

\* A batch has one inventory item, however many handlers found none to add to.
OneItemPerBatch ==
    \A i, j \in Items :
        item[i].state = "live" /\ item[j].state = "live" /\ item[i].batch = item[j].batch => i = j

\* Produce waiting for the centre's confirmation is not in its inventory yet.
NothingEntersUnconfirmed ==
    \A t \in Transactions : entered[t] > 0 => tx[t].status # "PENDING_CONFIRMATION"

TxWeights == [t \in Transactions |-> tx[t].qty]

\* The stock transactions that createStockIn puts on sale under batch b.
ListedStockIns(b) ==
    {t \in Transactions : tx[t].type = "STOCK_IN" /\ ~tx[t].pickup /\ tx[t].batch = b}

\* A listing never offers more of a batch than its stock-ins received: neither
\* transfers between centres nor stale writes add to it.
NeverListsMoreThanReceived ==
    \A b \in Batches : /\ listing[b].available <= listing[b].quantity
                       /\ listing[b].quantity <= Load(ListedStockIns(b), TxWeights)

(***************************************************************************)
(* The inductive invariant behind the two properties about quantities.     *)
(***************************************************************************)

EnterOps == {"find", "create", "add"}
ListOps  == {"list", "createListing", "addListing"}

LiveItems == \A i \in Items : item[i].state = "live" => item[i].center \in Centers /\ item[i].qty > 0

TxRows ==
    \A t \in Transactions :
        /\ tx[t].type = "none" => tx[t].status = "none" /\ entered[t] = 0
        /\ tx[t].type # "none" => tx[t].center \in Centers /\ tx[t].qty \in Sizes
        /\ tx[t].type \in {"STOCK_IN", "TRANSFER"} => tx[t].batch \in Batches
        /\ tx[t].type = "STOCK_IN" /\ tx[t].status = "PENDING_CONFIRMATION" => tx[t].pickup

\* What a handler that has come to q.op knows of its transaction.
Justified(q) ==
    LET t == q.tx
    IN  /\ q.op \in EnterOps \cup ListOps \cup {"confirm", "reject", "findOut", "take"}
               => tx[t].type # "none"
        /\ q.op = "confirm" => tx[t].type = "STOCK_IN" /\ tx[t].pickup
        /\ q.op \in EnterOps => /\ tx[t].type \in {"STOCK_IN", "TRANSFER"}
                                /\ tx[t].status # "PENDING_CONFIRMATION"
        /\ q.op \in ListOps => tx[t].type = "STOCK_IN" /\ ~tx[t].pickup

Handlers == \A r \in Requests : Justified(request[r])

\* Only its own createStockIn books a transaction that is to be listed.
OneLister ==
    \A r, s \in Requests :
        /\ request[r].op \in EnterOps \cup ListOps
        /\ request[s].op \in EnterOps \cup ListOps
        /\ request[r].tx = request[s].tx
        /\ ~tx[request[r].tx].pickup
        => r = s

\* The stock-ins of b that no handler is still to list.
Done(b) ==
    {t \in ListedStockIns(b) :
        \A r \in Requests : request[r].op \in EnterOps \cup ListOps => request[r].tx # t}

ListingRows ==
    \A b \in Batches : /\ listing[b].available <= listing[b].quantity
                       /\ listing[b].quantity <= Load(Done(b), TxWeights)

ListingReads ==
    \A r \in Requests, b \in Batches :
        request[r].op = "addListing" /\ tx[request[r].tx].batch = b =>
            LET was == request[r].was
            IN  /\ was.available <= was.quantity
                /\ was.quantity <= Load(Done(b), TxWeights)

StockInv ==
    /\ LiveItems
    /\ StockMatchesInventory
    /\ OneItemPerBatch
    /\ TxRows
    /\ Handlers
    /\ NothingEntersUnconfirmed
    /\ OneLister
    /\ ListingRows
    /\ ListingReads

(***************************************************************************)
(* What the code's comments say and races break.                           *)
(***************************************************************************)

\* confirmStockTransaction: a transaction goes into the inventory once.
EnteredOnce == \A t \in Transactions : entered[t] <= 1

\* A deduction that updateOrderStatus found covered by the batch can be written.
DeductionFits ==
    \A r \in Requests : request[r].op = "deduct" => request[r].was - request[r].qty > 0

\* Entering PROCESSING takes the order's quantity out of what the listing offers.
EverySaleIsDeducted ==
    [][\A r \in Requests, b \in Batches :
          request[r].op = "sell" /\ request'[r] = Idle /\ request[r].batch = b
              => listing'[b].available <= listing[b].available]_vars
=============================================================================
