------------------------ MODULE StockInventory_proofs ------------------------
(***************************************************************************)
(* Theorems about StockInventory, for any numbers of centres, batches,     *)
(* items, transactions and handlers.                                       *)
(*                                                                         *)
(* The invariant falls into three parts, which the database and the        *)
(* handlers move one at a time: the books (centres and inventory items),   *)
(* the papers (stock transactions and the handlers that book them) and     *)
(* the sales (listings).  Each has its lemmas on what moves it.            *)
(***************************************************************************)
EXTENDS StockInventory, QuantitiesTheorems

Books ==
    /\ center \in [Centers -> CenterRow]
    /\ item \in [Items -> ItemRow]
    /\ LiveItems
    /\ StockMatchesInventory
    /\ OneItemPerBatch

Papers ==
    /\ tx \in [Transactions -> TxRow]
    /\ request \in [Requests -> Request]
    /\ entered \in [Transactions -> Nat]
    /\ TxRows
    /\ Handlers
    /\ NothingEntersUnconfirmed
    /\ OneLister

Sales ==
    /\ listing \in [Batches -> ListingRow]
    /\ ListingRows
    /\ ListingReads

Inv == Books /\ Papers /\ Sales

LEMMA InvIsWhole == Inv <=> TypeOK /\ StockInv
BY DEF Inv, Books, Papers, Sales, TypeOK, StockInv

-----------------------------------------------------------------------------
(* The books.                                                              *)

\* A centre's items are finitely many, and none weighs more than the centre's stock.
LEMMA Weights ==
    ASSUME Books, NEW c \in Centers
    PROVE  /\ IsFiniteSet(ItemsAt(c))
           /\ center[c].stock = Load(ItemsAt(c), ItemWeights)
           /\ center[c].stock <= center[c].total
           /\ center[c].stock \in Nat /\ center[c].total \in 0 .. MaxQty
           /\ \A i \in ItemsAt(c) : item[i].qty <= center[c].stock
<1>1. ItemsAt(c) \in SUBSET Items /\ IsFiniteSet(Items)
  BY StockAssumption DEF ItemsAt
<1>2. IsFiniteSet(ItemsAt(c))
  BY <1>1, FS_Subset
<1>3. center[c].stock = Load(ItemsAt(c), ItemWeights) /\ center[c].stock <= center[c].total
  BY DEF Books, StockMatchesInventory
<1>4. center[c].stock \in Nat /\ center[c].total \in 0 .. MaxQty
  BY MaxQtyAssumption DEF Books, CenterRow
<1>5. ASSUME NEW i \in ItemsAt(c)
      PROVE  item[i].qty <= center[c].stock
  <2>1. i \in Items /\ ItemWeights[i] = item[i].qty /\ item[i].qty \in Quantity
    BY <1>1 DEF Books, ItemRow, ItemWeights
  <2>2. Load({i}, ItemWeights) = item[i].qty
    BY <2>1, LoadSingle
  <2>3. Load({i}, ItemWeights) <= Load(ItemsAt(c), ItemWeights)
    BY <1>2, <1>5, LoadMonotone
  <2> QED
    BY <1>3, <2>2, <2>3
<1> QED
  BY <1>2, <1>3, <1>4, <1>5

\* A new item brings its weight to its centre.
LEMMA InsertKeepsBooks ==
    ASSUME Books, NEW i \in Items, NEW c \in Centers, NEW b \in Batches, NEW q \in Quantity,
           InsertItem(i, c, b, q)
    PROVE  Books'
<1>1. /\ item[i].state = "unused"
      /\ item' = [item EXCEPT ![i] = [state |-> "live", center |-> c, batch |-> b, qty |-> q]]
      /\ center' = [center EXCEPT ![c].stock = center[c].stock - 0 + q]
      /\ LiveOf(b) = {} /\ q > 0
      /\ center[c].stock - 0 + q <= center[c].total
  BY DEF InsertItem, InsertFits, MoveStock, StockAfter, CenterCheck
<1>2. q \in Int /\ center[c].stock \in Nat /\ center[c].total \in 0 .. MaxQty
  BY Weights, MaxQtyAssumption DEF Quantity
<1>3. center' \in [Centers -> CenterRow]
  BY <1>1, <1>2, MaxQtyAssumption DEF Books, CenterRow
<1>4. item' \in [Items -> ItemRow]
  BY <1>1 DEF Books, ItemRow
<1>5. LiveItems'
  BY <1>1 DEF Books, LiveItems
<1>6. OneItemPerBatch'
  <2>1. \A j \in Items : item[j].state = "live" => item[j].batch # b
    BY <1>1 DEF LiveOf
  <2> QED
    BY <1>1, <2>1 DEF Books, OneItemPerBatch
<1>7. ASSUME NEW d \in Centers
      PROVE  /\ center'[d].stock = Load(ItemsAt(d), ItemWeights)'
             /\ center'[d].stock <= center'[d].total
  <2>1. \A j \in ItemsAt(d) : ItemWeights[j] = ItemWeights'[j]
    BY <1>1 DEF ItemsAt, ItemWeights, Books
  <2>2. Load(ItemsAt(d), ItemWeights) = Load(ItemsAt(d), ItemWeights')
    BY <2>1, LoadSame
  <2>3. CASE d = c
    <3>1. ItemsAt(d)' = ItemsAt(d) \cup {i} /\ i \notin ItemsAt(d)
      BY <1>1, <2>3 DEF ItemsAt, Books
    <3>2. ItemWeights'[i] = q
      BY <1>1 DEF ItemWeights, Books
    <3>3. Load(ItemsAt(d) \cup {i}, ItemWeights') = Load(ItemsAt(d), ItemWeights') + q
      BY <3>1, <3>2, Weights, LoadAdd
    <3>4. center'[d].stock = center[d].stock + q /\ center'[d].total = center[d].total
      BY <1>1, <1>2, <2>3 DEF Books, CenterRow
    <3>5. Load(ItemsAt(d), ItemWeights)' = Load(ItemsAt(d) \cup {i}, ItemWeights')
      BY <3>1
    <3> QED
      BY <1>1, <1>2, <2>2, <2>3, <3>3, <3>4, <3>5, Weights
  <2>4. CASE d # c
    <3>1. ItemsAt(d)' = ItemsAt(d)
      BY <1>1, <2>4 DEF ItemsAt, Books
    <3>2. center'[d] = center[d]
      BY <1>1, <2>4 DEF Books
    <3>3. Load(ItemsAt(d), ItemWeights)' = Load(ItemsAt(d), ItemWeights')
      BY <3>1
    <3> QED
      BY <2>2, <3>2, <3>3, Weights
  <2> QED
    BY <2>3, <2>4
<1>8. StockMatchesInventory'
  BY <1>7 DEF StockMatchesInventory
<1> QED
  BY <1>3, <1>4, <1>5, <1>6, <1>8 DEF Books

\* A changed quantity moves its centre's stock by the difference, and stays one that a row
\* can hold.
LEMMA UpdateKeepsBooks ==
    ASSUME Books, NEW i \in Items, NEW q \in Int, UpdateItem(i, q)
    PROVE  Books'
<1> DEFINE c == item[i].center
<1>1. /\ item[i].state = "live"
      /\ item' = [item EXCEPT ![i].qty = q]
      /\ center' = [center EXCEPT ![c].stock = center[c].stock - item[i].qty + q]
      /\ q > 0
      /\ center[c].stock - item[i].qty + q <= center[c].total
      /\ 0 <= center[c].stock - item[i].qty + q
  BY DEF UpdateItem, UpdateFits, MoveStock, StockAfter, CenterCheck
<1>2. c \in Centers /\ i \in ItemsAt(c) /\ item[i].qty \in Quantity
  BY <1>1 DEF Books, LiveItems, ItemRow, ItemsAt
<1>3. /\ center[c].stock \in Nat /\ center[c].total \in 0 .. MaxQty
      /\ item[i].qty \in Int /\ item[i].qty <= center[c].stock
  BY <1>2, Weights, MaxQtyAssumption DEF Quantity
<1>4. q \in Quantity
  BY <1>1, <1>3, MaxQtyAssumption DEF Quantity
<1>5. center[c].stock - item[i].qty + q \in 0 .. MaxQty
  BY <1>1, <1>3, MaxQtyAssumption
<1> HIDE DEF c
<1>6. center' \in [Centers -> CenterRow]
  BY <1>1, <1>2, <1>5 DEF Books, CenterRow
<1>7. item' \in [Items -> ItemRow]
  BY <1>1, <1>4 DEF Books, ItemRow
<1>8. \A j \in Items : /\ item'[j].state = item[j].state
                       /\ item'[j].center = item[j].center
                       /\ item'[j].batch = item[j].batch
  BY <1>1 DEF Books, ItemRow
<1>9. LiveItems' /\ OneItemPerBatch'
  <2>1. \A j \in Items : item[j].state = "live" => item'[j].qty > 0
    BY <1>1, <1>4 DEF Books, LiveItems, ItemRow
  <2> QED
    BY <1>8, <2>1 DEF Books, LiveItems, OneItemPerBatch
<1>10. ASSUME NEW d \in Centers
       PROVE  /\ center'[d].stock = Load(ItemsAt(d), ItemWeights)'
              /\ center'[d].stock <= center'[d].total
  <2>1. ItemsAt(d)' = ItemsAt(d)
    BY <1>8 DEF ItemsAt
  <2>2. Load(ItemsAt(d), ItemWeights)' = Load(ItemsAt(d), ItemWeights')
    BY <2>1
  <2>3. /\ \A j \in Items \ {i} : ItemWeights[j] = ItemWeights'[j]
        /\ ItemWeights[i] = item[i].qty /\ ItemWeights'[i] = q
    BY <1>1 DEF Books, ItemRow, ItemWeights
  <2>4. ItemsAt(d) \subseteq Items
    BY DEF ItemsAt
  <2>5. CASE d = c
    <3>1. Load(ItemsAt(d), ItemWeights')
            = Load(ItemsAt(d), ItemWeights) - ItemWeights[i] + ItemWeights'[i]
      BY <1>2, <1>4, <2>3, <2>4, <2>5, Weights, LoadReplace
    <3>2. /\ center'[d].stock = center[c].stock - item[i].qty + q
          /\ center'[d].total = center[d].total
      BY <1>1, <1>2, <2>5 DEF Books, CenterRow
    <3> QED
      BY <1>1, <1>2, <2>2, <2>3, <2>5, <3>1, <3>2, Weights
  <2>6. CASE d # c
    <3>1. i \notin ItemsAt(d)
      BY <1>2, <2>6 DEF ItemsAt
    <3>2. \A j \in ItemsAt(d) : ItemWeights[j] = ItemWeights'[j]
      BY <2>3, <2>4, <3>1
    <3>3. Load(ItemsAt(d), ItemWeights) = Load(ItemsAt(d), ItemWeights')
      BY <3>2, LoadSame
    <3>4. center'[d] = center[d]
      BY <1>1, <2>6 DEF Books
    <3> QED
      BY <2>2, <3>3, <3>4, Weights
  <2> QED
    BY <2>5, <2>6
<1>11. StockMatchesInventory'
  BY <1>10 DEF StockMatchesInventory
<1> QED
  BY <1>6, <1>7, <1>9, <1>11 DEF Books

\* A deleted item takes its weight from its centre.
LEMMA DeleteKeepsBooks ==
    ASSUME Books, NEW i \in Items, DeleteItem(i)
    PROVE  Books'
<1> DEFINE c == item[i].center
<1>1. /\ item[i].state = "live"
      /\ item' = [item EXCEPT ![i].state = "deleted", ![i].qty = 0]
      /\ center' = [center EXCEPT ![c].stock = center[c].stock - item[i].qty + 0]
  BY DEF DeleteItem, MoveStock, StockAfter
<1>2. c \in Centers /\ i \in ItemsAt(c) /\ item[i].qty \in Quantity
  BY <1>1 DEF Books, LiveItems, ItemRow, ItemsAt
<1>3. /\ center[c].stock \in Nat /\ center[c].total \in 0 .. MaxQty
      /\ item[i].qty \in Int /\ 0 <= item[i].qty /\ item[i].qty <= center[c].stock
      /\ center[c].stock <= center[c].total
  BY <1>2, Weights, MaxQtyAssumption DEF Quantity
<1>4. center[c].stock - item[i].qty + 0 \in 0 .. MaxQty
  BY <1>3, MaxQtyAssumption
<1>5. 0 \in Quantity
  BY MaxQtyAssumption DEF Quantity
<1> HIDE DEF c
<1>6. center' \in [Centers -> CenterRow]
  BY <1>1, <1>2, <1>4 DEF Books, CenterRow
<1>7. item' \in [Items -> ItemRow]
  BY <1>1, <1>5 DEF Books, ItemRow
<1>8. /\ \A j \in Items \ {i} : item'[j] = item[j]
      /\ item'[i].state = "deleted"
  BY <1>1 DEF Books, ItemRow
<1>9. LiveItems' /\ OneItemPerBatch'
  BY <1>8 DEF Books, LiveItems, OneItemPerBatch
<1>10. ASSUME NEW d \in Centers
       PROVE  /\ center'[d].stock = Load(ItemsAt(d), ItemWeights)'
              /\ center'[d].stock <= center'[d].total
  <2>1. ItemsAt(d)' = ItemsAt(d) \ {i} /\ ItemsAt(d) \ {i} \subseteq Items
    BY <1>8 DEF ItemsAt
  <2>2. \A j \in ItemsAt(d) \ {i} : ItemWeights[j] = ItemWeights'[j]
    BY <1>8, <2>1 DEF ItemWeights
  <2>3. Load(ItemsAt(d), ItemWeights)' = Load(ItemsAt(d) \ {i}, ItemWeights')
    BY <2>1
  <2>4. Load(ItemsAt(d) \ {i}, ItemWeights') = Load(ItemsAt(d) \ {i}, ItemWeights)
    BY <2>2, LoadSame
  <2>5. CASE d = c
    <3>1. Load(ItemsAt(d) \ {i}, ItemWeights)
            = Load(ItemsAt(d), ItemWeights) - Load({i}, ItemWeights)
      BY <1>2, <2>5, Weights, LoadDifference
    <3>2. Load({i}, ItemWeights) = item[i].qty
      BY <1>2, LoadSingle DEF ItemWeights
    <3>3. /\ center'[d].stock = center[c].stock - item[i].qty
          /\ center'[d].total = center[d].total
      BY <1>1, <1>2, <1>3, <2>5 DEF Books, CenterRow
    <3> QED
      BY <1>2, <1>3, <2>3, <2>4, <2>5, <3>1, <3>2, <3>3, Weights
  <2>6. CASE d # c
    <3>1. ItemsAt(d) \ {i} = ItemsAt(d)
      BY <1>2, <2>6 DEF ItemsAt
    <3>2. center'[d] = center[d]
      BY <1>1, <2>6 DEF Books
    <3> QED
      BY <2>3, <2>4, <3>1, <3>2, Weights
  <2> QED
    BY <2>5, <2>6
<1>11. StockMatchesInventory'
  BY <1>10 DEF StockMatchesInventory
<1> QED
  BY <1>6, <1>7, <1>9, <1>11 DEF Books

\* The capacity of a centre may change down to its stock.
LEMMA CapacityKeepsBooks ==
    ASSUME Books, NEW c \in Centers, NEW n \in Capacities,
           CreateAggregationCenter(c, n) \/ UpdateAggregationCenter(c, n)
    PROVE  Books'
<1>1. item' = item /\ center' = [center EXCEPT ![c].total = n]
  BY DEF CreateAggregationCenter, UpdateAggregationCenter
<1>2. center[c].stock <= n
  BY Weights DEF CreateAggregationCenter, UpdateAggregationCenter, Capacities
<1>3. center' \in [Centers -> CenterRow]
  BY <1>1 DEF Books, CenterRow, Capacities
<1>4. \A d \in Centers : /\ center'[d].stock = center[d].stock
                         /\ center'[d].total = IF d = c THEN n ELSE center[d].total
  BY <1>1 DEF Books, CenterRow
<1>5. \A d \in Centers : ItemsAt(d)' = ItemsAt(d) /\ ItemWeights' = ItemWeights
  BY <1>1 DEF ItemsAt, ItemWeights
<1>6. StockMatchesInventory'
  BY <1>2, <1>4, <1>5 DEF Books, StockMatchesInventory
<1> QED
  BY <1>1, <1>3, <1>6 DEF Books, LiveItems, OneItemPerBatch

\* The books rest when nobody writes in them.
LEMMA BooksRest ==
    ASSUME Books, UNCHANGED <<center, item>>
    PROVE  Books'
<1>1. StockMatchesInventory'
  BY DEF Books, StockMatchesInventory, ItemsAt, ItemWeights
<1> QED
  BY <1>1 DEF Books, LiveItems, OneItemPerBatch

-----------------------------------------------------------------------------
(* The papers.                                                             *)

\* Requests that book a transaction into the inventory or the listings.
Active(q) == q.op \in EnterOps \cup ListOps

\* No step changes what a transaction is about, or brings it back to PENDING_CONFIRMATION.
TxKept ==
    \A t \in Transactions : tx[t].type # "none" =>
        /\ tx'[t].type = tx[t].type /\ tx'[t].pickup = tx[t].pickup
        /\ tx'[t].batch = tx[t].batch /\ tx'[t].qty = tx[t].qty
        /\ tx'[t].status \in {tx[t].status, "CONFIRMED", "REJECTED"}

\* What handler r books next is what it booked before, a new transaction or a pickup.
TakesUp(r, q) ==
    Active(q) => \/ Active(request[r]) /\ q.tx = request[r].tx
                 \/ tx[q.tx].type = "none"
                 \/ tx[q.tx].pickup

\* At most handler r moves, to a request that it is justified to make.
Moves(r) ==
    \A s \in Requests :
        \/ request'[s] = request[s]
        \/ s = r /\ Justified(request[s])' /\ TakesUp(s, request'[s])

\* What the fields of a request are.
LEMMA RequestFields ==
    ASSUME NEW q \in Request
    PROVE  /\ q.op \in EnterOps \cup ListOps \cup {"confirm", "reject", "findOut", "take"}
                  => q.tx \in Transactions
           /\ q.op \in {"add", "take"} => q.item \in Items /\ q.was \in Quantity
           /\ q.op = "addListing" => q.was \in ListingRow
           /\ q.op = "stockOut" => /\ q.center \in Centers /\ q.qty \in Sizes
                                   /\ q.batch \in Batches \cup {None}
           /\ q.op \in {"sell", "deduct"} => q.batch \in Batches /\ q.qty \in Sizes
           /\ q.op = "sell" => q.was \in Nat
           /\ q.op = "deduct" => q.was \in Quantity
BY DEF Request, EnterOps, ListOps

\* A step of one handler keeps the papers when the transactions keep theirs.
LEMMA MoveKeepsPapers ==
    ASSUME Papers, NEW r, Moves(r), TxKept,
           tx' \in [Transactions -> TxRow], request' \in [Requests -> Request],
           entered' \in [Transactions -> Nat], TxRows', NothingEntersUnconfirmed'
    PROVE  Papers'
<1>1. \A s \in Requests : request[s] \in Request /\ Justified(request[s])
  BY DEF Papers, Handlers
<1>2. ASSUME NEW s \in Requests
      PROVE  Justified(request[s])'
  <2>1. CASE request'[s] = request[s]
    BY <1>1, <2>1, RequestFields DEF TxKept, Justified, EnterOps, ListOps
  <2> QED
    BY <2>1 DEF Moves
<1>3. Handlers'
  BY <1>2 DEF Handlers
<1>4. ASSUME NEW s \in Requests, NEW u \in Requests,
             Active(request[s])', Active(request[u])',
             request'[s].tx = request'[u].tx, ~tx'[request'[s].tx].pickup, s # u
      PROVE  FALSE
  <2> DEFINE t == request'[s].tx
  <2>1. ASSUME NEW v \in Requests, request'[v] = request[v], request'[v].tx = t,
               Active(request[v])'
        PROVE  Active(request[v]) /\ t \in Transactions /\ tx[t].type # "none" /\ ~tx[t].pickup
    <3>1. Active(request[v]) /\ request[v].tx = t
      BY <2>1 DEF Active
    <3>2. t \in Transactions /\ tx[t].type # "none"
      BY <1>1, <3>1, RequestFields DEF Active, Justified
    <3> QED
      BY <1>4, <3>1, <3>2 DEF TxKept
  <2>2. ASSUME NEW v \in Requests, NEW w \in Requests, v # w,
               request'[v].tx = t, request'[w].tx = t,
               Active(request[v])', Active(request[w])', request'[w] = request[w]
        PROVE  FALSE
    <3>1. Active(request[w]) /\ request[w].tx = t /\ tx[t].type # "none" /\ ~tx[t].pickup
      BY <2>1, <2>2
    <3>2. Active(request[v]) /\ request[v].tx = t
      <4>1. CASE request'[v] = request[v]
        BY <2>2, <4>1 DEF Active
      <4>2. CASE TakesUp(v, request'[v])
        BY <2>2, <3>1, <4>2 DEF Active, TakesUp
      <4> QED
        BY <4>1, <4>2 DEF Moves
    <3> QED
      BY <2>2, <3>1, <3>2 DEF Papers, OneLister, Active
  <2>3. request'[s] = request[s] \/ request'[u] = request[u]
    BY <1>4 DEF Moves
  <2> QED
    BY <1>4, <2>2, <2>3
<1>5. OneLister'
  BY <1>4 DEF OneLister, Active
<1> QED
  BY <1>3, <1>5 DEF Papers

\* The requests that handlers go on to.
LEMMA RequestShapes ==
    /\ Idle \in Request
    /\ \A t \in Transactions :
           /\ \A op \in {"confirm", "reject", "find", "create", "list", "createListing", "findOut"} :
                  [op |-> op, tx |-> t] \in Request
           /\ \A op \in {"add", "take"}, i \in Items, was \in Quantity :
                  [op |-> op, tx |-> t, item |-> i, was |-> was] \in Request
           /\ \A was \in ListingRow : [op |-> "addListing", tx |-> t, was |-> was] \in Request
    /\ \A c \in Centers, b \in Batches \cup {None}, q \in Sizes :
           [op |-> "stockOut", center |-> c, batch |-> b, qty |-> q] \in Request
    /\ \A b \in Batches, q \in Sizes :
           /\ \A was \in Nat : [op |-> "sell", batch |-> b, qty |-> q, was |-> was] \in Request
           /\ \A was \in Quantity :
                  [op |-> "deduct", batch |-> b, qty |-> q, was |-> was] \in Request
BY DEF Request, Idle

\* What the steps of a handler do to the papers and to who books what.
PaperStep(r) == Papers' /\ TxKept /\ Moves(r)

TxGood ==
    /\ tx' \in [Transactions -> TxRow]
    /\ entered' \in [Transactions -> Nat]
    /\ TxKept
    /\ TxRows'
    /\ NothingEntersUnconfirmed'

\* Reading leaves the transactions as they are.
LEMMA TxRest ==
    ASSUME Papers, UNCHANGED <<tx, entered>>
    PROVE  TxGood
BY DEF Papers, TxGood, TxKept, TxRows, NothingEntersUnconfirmed

\* A new transaction.
LEMMA TxInserted ==
    ASSUME Papers, NEW t \in Transactions, NEW row \in TxRow, InsertTx(t, row), entered' = entered,
           row.type # "none", row.center \in Centers, row.qty \in Sizes,
           row.type \in {"STOCK_IN", "TRANSFER"} => row.batch \in Batches,
           row.type = "STOCK_IN" /\ row.status = "PENDING_CONFIRMATION" => row.pickup
    PROVE  TxGood /\ tx'[t] = row /\ tx[t].type = "none"
<1>1. tx[t].type = "none" /\ entered[t] = 0 /\ tx' = [tx EXCEPT ![t] = row] /\ tx'[t] = row
  BY DEF Papers, InsertTx, TxRows
<1>2. \A u \in Transactions \ {t} : tx'[u] = tx[u]
  BY <1>1
<1>3. tx' \in [Transactions -> TxRow]
  BY <1>1 DEF Papers
<1> QED
  BY <1>1, <1>2, <1>3 DEF Papers, TxGood, TxKept, TxRows, NothingEntersUnconfirmed

\* A decision on a transaction.
LEMMA TxDecided ==
    ASSUME Papers, NEW t \in Transactions, tx[t].type # "none",
           NEW status \in {"CONFIRMED", "REJECTED"}, tx' = [tx EXCEPT ![t].status = status],
           entered' = entered
    PROVE  TxGood /\ tx'[t].status = status
<1>1. \A u \in Transactions :
          /\ tx'[u].type = tx[u].type /\ tx'[u].pickup = tx[u].pickup
          /\ tx'[u].batch = tx[u].batch /\ tx'[u].qty = tx[u].qty
          /\ tx'[u].center = tx[u].center
          /\ tx'[u].status = IF u = t THEN status ELSE tx[u].status
  BY DEF Papers, TxRow
<1>2. tx' \in [Transactions -> TxRow]
  BY DEF Papers, TxRow
<1> QED
  BY <1>1, <1>2 DEF Papers, TxGood, TxKept, TxRows, NothingEntersUnconfirmed

\* A transaction that was decided enters the inventory.
LEMMA TxEntered ==
    ASSUME Papers, NEW t \in Transactions, tx[t].type # "none",
           tx[t].status # "PENDING_CONFIRMATION",
           tx' = tx, entered' = [entered EXCEPT ![t] = @ + 1]
    PROVE  TxGood
<1>1. entered' \in [Transactions -> Nat] /\ \A u \in Transactions \ {t} : entered'[u] = entered[u]
  BY DEF Papers
<1> QED
  BY <1>1 DEF Papers, TxGood, TxKept, TxRows, NothingEntersUnconfirmed

\* A handler that goes on to a request it is justified to make.
LEMMA GoesOn ==
    ASSUME Papers, TxGood, NEW r \in Requests, NEW q \in Request, Goto(r, q), TakesUp(r, q),
           Justified(q)
    PROVE  PaperStep(r)
<1>1. request' = [request EXCEPT ![r] = q] /\ request \in [Requests -> Request]
  BY DEF Papers, Goto
<1>2. request' \in [Requests -> Request]
  BY <1>1
<1>3. request'[r] = q /\ \A s \in Requests \ {r} : request'[s] = request[s]
  BY <1>1
<1>4. Justified(request[r])'
  BY <1>3, RequestFields DEF TxGood, TxKept, Justified, EnterOps, ListOps
<1>5. Moves(r)
  BY <1>3, <1>4 DEF Moves
<1> QED
  BY <1>2, <1>5, MoveKeepsPapers DEF TxGood, PaperStep

\* A handler that ends.
LEMMA Ends ==
    ASSUME Papers, TxGood, NEW r \in Requests, Finish(r)
    PROVE  PaperStep(r)
<1>1. Idle \in Request /\ Justified(Idle) /\ TakesUp(r, Idle)
  BY RequestShapes DEF Idle, Justified, TakesUp, Active, EnterOps, ListOps
<1> QED
  BY <1>1, GoesOn DEF Finish

\* Nobody moves.
LEMMA NobodyMoves ==
    ASSUME Papers, TxGood, request' = request, NEW r
    PROVE  PaperStep(r)
<1>1. Moves(r)
  BY DEF Moves
<1>2. request' \in [Requests -> Request]
  BY DEF Papers
<1> QED
  BY <1>1, <1>2, MoveKeepsPapers DEF TxGood, PaperStep

\* What follows the inventory.
LEMMA AfterInventoryStep ==
    ASSUME Papers, TxGood, NEW r \in Requests, request[r].op \in EnterOps,
           AfterInventory(r, request[r].tx)
    PROVE  PaperStep(r)
<1> DEFINE t == request[r].tx
           q == [op |-> "list", tx |-> t]
<1>1. t \in Transactions
  BY RequestFields DEF Papers
<1>2. CASE tx[t].type = "STOCK_IN" /\ ~tx[t].pickup
  <2>1. Goto(r, q) /\ q \in Request
    BY <1>1, <1>2, RequestShapes DEF AfterInventory
  <2>2. Justified(q) /\ TakesUp(r, q)
    BY <1>2 DEF Justified, TakesUp, Active, EnterOps, ListOps
  <2> QED
    BY <2>1, <2>2, GoesOn
<1>3. CASE ~(tx[t].type = "STOCK_IN" /\ ~tx[t].pickup)
  <2>1. Finish(r)
    BY <1>3 DEF AfterInventory
  <2> QED
    BY <2>1, Ends
<1> QED
  BY <1>2, <1>3

\* A handler that goes on to the inventory with the transaction it has just written.
LEMMA GoesOnWithWritten ==
    ASSUME Papers, TxGood, NEW r \in Requests, NEW t \in Transactions, NEW op \in {"find", "findOut"},
           Goto(r, [op |-> op, tx |-> t]), TakesUp(r, [op |-> op, tx |-> t]),
           tx'[t].type # "none",
           op = "find" => /\ tx'[t].type \in {"STOCK_IN", "TRANSFER"}
                          /\ tx'[t].status # "PENDING_CONFIRMATION"
    PROVE  PaperStep(r)
<1> DEFINE q == [op |-> op, tx |-> t]
<1>1. q \in Request
  BY RequestShapes
<1>2. /\ request' = [request EXCEPT ![r] = q] /\ request \in [Requests -> Request]
      /\ request' \in [Requests -> Request]
  BY <1>1 DEF Papers, Goto
<1>3. request'[r] = q /\ \A s \in Requests \ {r} : request'[s] = request[s]
  BY <1>2
<1>4. Justified(request[r])'
  BY <1>3 DEF Justified, EnterOps, ListOps
<1>5. Moves(r)
  BY <1>3, <1>4 DEF Moves
<1> QED
  BY <1>2, <1>5, MoveKeepsPapers DEF TxGood, PaperStep

\* Centres, and pickups, which no handler has come to yet.
LEMMA PapersOfCenters ==
    ASSUME Papers, CenterStep \/ PickupStep, NEW r
    PROVE  PaperStep(r)
<1>1. CASE CenterStep
  <2>1. TxGood /\ request' = request
    BY <1>1, TxRest DEF CenterStep, CreateAggregationCenter, UpdateAggregationCenter
  <2> QED
    BY <2>1, NobodyMoves
<1>2. CASE PickupStep
  <2>1. PICK t \in Transactions, c \in Centers, b \in Batches, q \in Sizes :
           PickupStockIn(t, c, b, q)
    BY <1>2 DEF PickupStep
  <2> DEFINE row == [type |-> "STOCK_IN", status |-> "PENDING_CONFIRMATION", center |-> c,
                     batch |-> b, qty |-> q, pickup |-> TRUE]
  <2>2. InsertTx(t, row) /\ UNCHANGED <<request, entered>>
    BY <2>1 DEF PickupStockIn
  <2>3. row \in TxRow
    BY DEF TxRow
  <2>4. TxGood
    BY <2>2, <2>3, TxInserted
  <2> QED
    BY <2>2, <2>4, NobodyMoves
<1> QED
  BY <1>1, <1>2

\* The centre's decision on a transaction that awaits it.
LEMMA PapersOfConfirm ==
    ASSUME Papers, NEW r \in Requests, ConfirmStep(r)
    PROVE  PaperStep(r)
<1> DEFINE t == request[r].tx
<1>1. ASSUME NEW u \in Transactions, ConfirmRead(r, u)
      PROVE  PaperStep(r)
  <2> DEFINE q == [op |-> "confirm", tx |-> u]
  <2>1. Goto(r, q) /\ TxGood
    BY <1>1, TxRest DEF ConfirmRead, Begin, rows
  <2>2. tx[u].type = "STOCK_IN" /\ tx[u].pickup
    BY <1>1 DEF ConfirmRead, Papers, TxRows
  <2>3. q \in Request /\ Justified(q) /\ TakesUp(r, q)
    BY <2>2, RequestShapes DEF Justified, TakesUp, Active, EnterOps, ListOps
  <2> QED
    BY <2>1, <2>3, GoesOn
<1>2. ASSUME NEW u \in Transactions, RejectRead(r, u)
      PROVE  PaperStep(r)
  <2> DEFINE q == [op |-> "reject", tx |-> u]
  <2>1. Goto(r, q) /\ TxGood
    BY <1>2, TxRest DEF RejectRead, Begin, rows
  <2>2. tx[u].type # "none"
    BY <1>2 DEF RejectRead, Papers, TxRows
  <2>3. q \in Request /\ Justified(q) /\ TakesUp(r, q)
    BY <2>2, RequestShapes DEF Justified, TakesUp, Active, EnterOps, ListOps
  <2> QED
    BY <2>1, <2>3, GoesOn
<1>3. CASE ConfirmWrite(r)
  <2>1. /\ t \in Transactions /\ tx[t].type = "STOCK_IN" /\ tx[t].pickup
        /\ tx' = [tx EXCEPT ![t].status = "CONFIRMED"] /\ entered' = entered
        /\ Finish(r) \/ Goto(r, [op |-> "find", tx |-> t])
    BY <1>3, RequestFields DEF ConfirmWrite, Papers, Handlers, Justified
  <2>2. TxGood /\ tx'[t].status = "CONFIRMED"
    BY <2>1, TxDecided
  <2>3. tx'[t].type = "STOCK_IN"
    BY <2>1, <2>2 DEF TxGood, TxKept
  <2>4. TakesUp(r, [op |-> "find", tx |-> t])
    BY <2>1 DEF TakesUp
  <2> QED
    BY <2>1, <2>2, <2>3, <2>4, Ends, GoesOnWithWritten
<1>4. CASE RejectWrite(r)
  <2>1. /\ t \in Transactions /\ tx[t].type # "none"
        /\ tx' = [tx EXCEPT ![t].status = "REJECTED"] /\ entered' = entered /\ Finish(r)
    BY <1>4, RequestFields DEF RejectWrite, Papers, Handlers, Justified
  <2> QED
    BY <2>1, TxDecided, Ends
<1> QED
  BY <1>1, <1>2, <1>3, <1>4 DEF ConfirmStep

\* A stock-in writes its transaction, and finds the item of its batch.
LEMMA PapersOfCreateStockIn ==
    ASSUME Papers, NEW r \in Requests, NEW t \in Transactions, NEW c \in Centers, NEW b \in Batches,
           NEW q \in Sizes, NEW source \in Centers \cup {None}, NEW out \in Transactions \cup {None},
           CreateStockIn(r, t, c, b, q, source, out)
    PROVE  PaperStep(r)
<1>1. PICK type \in {"STOCK_IN", "TRANSFER"} :
          /\ InsertTx(t, [type |-> type, status |-> "CONFIRMED", center |-> c, batch |-> b,
                          qty |-> q, pickup |-> FALSE])
          /\ Goto(r, [op |-> "find", tx |-> t]) /\ entered' = entered
  BY DEF CreateStockIn, Begin
<1> DEFINE row == [type |-> type, status |-> "CONFIRMED", center |-> c, batch |-> b,
                   qty |-> q, pickup |-> FALSE]
<1>2. row \in TxRow
  BY DEF TxRow
<1>3. TxGood /\ tx'[t] = row /\ tx[t].type = "none"
  BY <1>1, <1>2, TxInserted
<1>4. TakesUp(r, [op |-> "find", tx |-> t])
  BY <1>3 DEF TakesUp
<1>5. tx'[t].type \in {"STOCK_IN", "TRANSFER"} /\ tx'[t].status = "CONFIRMED"
  BY <1>3
<1> HIDE DEF row
<1> QED
  BY <1>1, <1>3, <1>4, <1>5, GoesOnWithWritten

LEMMA PapersOfFindItem ==
    ASSUME Papers, NEW r \in Requests, FindItem(r), item \in [Items -> ItemRow]
    PROVE  PaperStep(r)
<1> DEFINE t == request[r].tx
<1>1. TxGood /\ t \in Transactions /\ Justified(request[r]) /\ request[r].op = "find"
  BY TxRest, RequestFields DEF FindItem, rows, Papers, Handlers, EnterOps
<1>2. CASE Goto(r, [op |-> "create", tx |-> t])
  <2> DEFINE q == [op |-> "create", tx |-> t]
  <2>1. q \in Request /\ Justified(q) /\ TakesUp(r, q)
    BY <1>1, RequestShapes DEF Justified, TakesUp, Active, EnterOps, ListOps
  <2> QED
    BY <1>1, <1>2, <2>1, GoesOn
<1>3. ASSUME NEW i \in Items, Goto(r, [op |-> "add", tx |-> t, item |-> i, was |-> item[i].qty])
      PROVE  PaperStep(r)
  <2> DEFINE q == [op |-> "add", tx |-> t, item |-> i, was |-> item[i].qty]
  <2>1. item[i].qty \in Quantity
    BY DEF ItemRow
  <2>2. q \in Request
    BY <1>1, <2>1, RequestShapes
  <2>3. Justified(q) /\ TakesUp(r, q)
    BY <1>1 DEF Justified, TakesUp, Active, EnterOps, ListOps
  <2> QED
    BY <1>1, <1>3, <2>2, <2>3, GoesOn
<1> QED
  BY <1>2, <1>3 DEF FindItem, LiveOf

\* A transaction enters the inventory, or the handler goes on without.
LEMMA PapersOfEnter ==
    ASSUME Papers, NEW r \in Requests,
           (\E i \in Items : EnterNewItem(r, i)) \/ EnterExistingItem(r) \/ Skip(r)
    PROVE  PaperStep(r)
<1> DEFINE t == request[r].tx
<1>1. /\ request[r].op \in EnterOps /\ tx' = tx /\ AfterInventory(r, t)
      /\ entered' \in {entered, [entered EXCEPT ![t] = @ + 1]}
  BY DEF EnterNewItem, EnterExistingItem, Skip, EnterOps, rows
<1>2. t \in Transactions /\ tx[t].type # "none" /\ tx[t].status # "PENDING_CONFIRMATION"
  BY <1>1, RequestFields DEF Papers, Handlers, Justified
<1>3. TxGood
  BY <1>1, <1>2, TxRest, TxEntered
<1> QED
  BY <1>1, <1>3, AfterInventoryStep

LEMMA PapersOfListing ==
    ASSUME Papers, NEW r \in Requests, FindListing(r) \/ CreateListing(r) \/ AddToListing(r),
           listing \in [Batches -> ListingRow]
    PROVE  PaperStep(r)
<1> DEFINE t == request[r].tx
<1>1. TxGood
  BY TxRest DEF FindListing, CreateListing, AddToListing, rows
<1>2. CASE FindListing(r)
  <2> DEFINE row == listing[tx[t].batch]
  <2>1. t \in Transactions /\ Justified(request[r]) /\ request[r].op = "list"
    BY <1>2, RequestFields DEF FindListing, Papers, Handlers, ListOps
  <2>2. CASE Goto(r, [op |-> "createListing", tx |-> t])
    <3> DEFINE q == [op |-> "createListing", tx |-> t]
    <3>1. q \in Request /\ Justified(q) /\ TakesUp(r, q)
      BY <2>1, RequestShapes DEF Justified, TakesUp, Active, EnterOps, ListOps
    <3> QED
      BY <1>1, <2>2, <3>1, GoesOn
  <2>3. CASE Goto(r, [op |-> "addListing", tx |-> t, was |-> row])
    <3> DEFINE q == [op |-> "addListing", tx |-> t, was |-> row]
    <3>1. tx[t].type = "STOCK_IN"
      BY <2>1 DEF Justified, ListOps
    <3>2. row \in ListingRow
      BY <2>1, <3>1 DEF Papers, TxRows
    <3>3. q \in Request
      BY <2>1, <3>2, RequestShapes
    <3>4. Justified(q) /\ TakesUp(r, q)
      BY <2>1 DEF Justified, TakesUp, Active, EnterOps, ListOps
    <3> QED
      BY <1>1, <2>3, <3>3, <3>4, GoesOn
  <2> QED
    BY <1>2, <2>2, <2>3 DEF FindListing
<1>3. CASE CreateListing(r) \/ AddToListing(r)
  BY <1>1, <1>3, Ends DEF CreateListing, AddToListing
<1> QED
  BY <1>2, <1>3

LEMMA PapersOfStockOut ==
    ASSUME Papers, NEW r \in Requests, StockOutStep(r), item \in [Items -> ItemRow]
    PROVE  PaperStep(r)
<1> DEFINE t == request[r].tx
<1>1. ASSUME NEW c \in Centers, NEW b \in Batches \cup {None}, NEW s \in Sizes,
             StockOutRead(r, c, b, s)
      PROVE  PaperStep(r)
  <2> DEFINE q == [op |-> "stockOut", center |-> c, batch |-> b, qty |-> s]
  <2>1. TxGood /\ Goto(r, q)
    BY <1>1, TxRest DEF StockOutRead, Begin, rows
  <2>2. q \in Request /\ Justified(q) /\ TakesUp(r, q)
    BY RequestShapes DEF Justified, TakesUp, Active, EnterOps, ListOps
  <2> QED
    BY <2>1, <2>2, GoesOn
<1>2. ASSUME NEW u \in Transactions, StockOutWrite(r, u)
      PROVE  PaperStep(r)
  <2> DEFINE q == request[r]
             row == [type |-> "STOCK_OUT", status |-> "PENDING_CONFIRMATION",
                     center |-> q.center, batch |-> q.batch, qty |-> q.qty, pickup |-> FALSE]
  <2>1. q.center \in Centers /\ q.batch \in Batches \cup {None} /\ q.qty \in Sizes
    BY <1>2, RequestFields DEF StockOutWrite, Papers
  <2>2. row \in TxRow
    BY <2>1 DEF TxRow
  <2>3. InsertTx(u, row) /\ entered' = entered
    BY <1>2 DEF StockOutWrite
  <2>4. TxGood /\ tx'[u] = row
    BY <2>1, <2>2, <2>3, TxInserted
  <2>5. TakesUp(r, [op |-> "findOut", tx |-> u])
    BY DEF TakesUp, Active, EnterOps, ListOps
  <2>6. tx'[u].type = "STOCK_OUT"
    BY <2>4
  <2>7. CASE Finish(r)
    BY <2>4, <2>7, Ends
  <2>8. CASE Goto(r, [op |-> "findOut", tx |-> u])
    <3> HIDE DEF row
    <3> QED
      BY <2>4, <2>5, <2>6, <2>8, GoesOnWithWritten
  <2> QED
    BY <1>2, <2>7, <2>8 DEF StockOutWrite
<1>3. CASE FindItemOut(r)
  <2>1. TxGood /\ t \in Transactions /\ Justified(request[r]) /\ request[r].op = "findOut"
    BY <1>3, TxRest, RequestFields DEF FindItemOut, rows, Papers, Handlers
  <2>2. ASSUME NEW i \in Items,
               Goto(r, [op |-> "take", tx |-> t, item |-> i, was |-> item[i].qty])
        PROVE  PaperStep(r)
    <3> DEFINE q == [op |-> "take", tx |-> t, item |-> i, was |-> item[i].qty]
    <3>1. item[i].qty \in Quantity
      BY DEF ItemRow
    <3>2. q \in Request
      BY <2>1, <3>1, RequestShapes
    <3>3. Justified(q) /\ TakesUp(r, q)
      BY <2>1 DEF Justified, TakesUp, Active, EnterOps, ListOps
    <3> QED
      BY <2>1, <2>2, <3>2, <3>3, GoesOn
  <2> QED
    BY <1>3, <2>1, <2>2, Ends DEF FindItemOut, LiveOf
<1>4. CASE TakeFromItem(r)
  BY <1>4, TxRest, Ends DEF TakeFromItem
<1> QED
  BY <1>1, <1>2, <1>3, <1>4 DEF StockOutStep

LEMMA PapersOfProcessing ==
    ASSUME Papers, NEW r \in Requests, ProcessingStep(r) \/ Fail(r),
           item \in [Items -> ItemRow], listing \in [Batches -> ListingRow]
    PROVE  PaperStep(r)
<1>1. TxGood
  BY TxRest DEF ProcessingStep, SellRead, SellWrite, DeductRead, DeductWrite, Fail, rows
<1>2. ASSUME NEW b \in Batches, NEW s \in Sizes, SellRead(r, b, s)
      PROVE  PaperStep(r)
  <2> DEFINE q == [op |-> "sell", batch |-> b, qty |-> s, was |-> listing[b].available]
  <2>1. Goto(r, q)
    BY <1>2 DEF SellRead, Begin
  <2>2. listing[b].available \in Nat
    BY DEF ListingRow
  <2>3. q \in Request
    BY <2>2, RequestShapes
  <2>4. Justified(q) /\ TakesUp(r, q)
    BY DEF Justified, TakesUp, Active, EnterOps, ListOps
  <2> QED
    BY <1>1, <2>1, <2>3, <2>4, GoesOn
<1>3. ASSUME NEW b \in Batches, NEW s \in Sizes, DeductRead(r, b, s)
      PROVE  PaperStep(r)
  <2>1. PICK i \in Items : Goto(r, [op |-> "deduct", batch |-> b, qty |-> s, was |-> item[i].qty])
    BY <1>3 DEF DeductRead, Begin, LiveOf
  <2> DEFINE q == [op |-> "deduct", batch |-> b, qty |-> s, was |-> item[i].qty]
  <2>2. item[i].qty \in Quantity
    BY DEF ItemRow
  <2>3. q \in Request
    BY <2>2, RequestShapes
  <2>4. Justified(q) /\ TakesUp(r, q)
    BY DEF Justified, TakesUp, Active, EnterOps, ListOps
  <2> QED
    BY <1>1, <2>1, <2>3, <2>4, GoesOn
<1>4. CASE SellWrite(r) \/ DeductWrite(r) \/ Fail(r)
  BY <1>1, <1>4, Ends DEF SellWrite, DeductWrite, Fail
<1> QED
  BY <1>2, <1>3, <1>4 DEF ProcessingStep

\* Every step is a step of the papers.
LEMMA EveryStepOfThePapers ==
    ASSUME Books, Papers, Sales, Next
    PROVE  \E r : PaperStep(r)
<1>1. item \in [Items -> ItemRow] /\ listing \in [Batches -> ListingRow]
  BY DEF Books, Sales
<1>2. CASE CenterStep \/ PickupStep
  BY <1>2, PapersOfCenters
<1>3. ASSUME NEW r \in Requests, ConfirmStep(r) \/ StockOutStep(r) \/ ProcessingStep(r) \/ Fail(r)
      PROVE  \E s : PaperStep(s)
  BY <1>1, <1>3, PapersOfConfirm, PapersOfStockOut, PapersOfProcessing
<1>4. ASSUME NEW r \in Requests, StockInStep(r)
      PROVE  \E s : PaperStep(s)
  BY <1>1, <1>4, PapersOfCreateStockIn, PapersOfFindItem, PapersOfEnter, PapersOfListing
     DEF StockInStep
<1> QED
  BY <1>2, <1>3, <1>4 DEF Next

-----------------------------------------------------------------------------
(* The books again: what the handlers ask of them.                         *)

LEMMA SizesAreQuantities ==
    /\ \A q \in Sizes : q \in Quantity /\ q > 0
    /\ \A q \in Quantity : q \in Int /\ q >= 0
BY StockAssumption, MaxQtyAssumption DEF Quantity

LEMMA NextKeepsBooks ==
    ASSUME Books, Papers, Next
    PROVE  Books'
<1>1. CASE CenterStep
  BY <1>1, CapacityKeepsBooks DEF CenterStep
<1>2. CASE UNCHANGED <<center, item>>
  BY <1>2, BooksRest
<1>3. ASSUME NEW r \in Requests, NEW i \in Items, EnterNewItem(r, i)
      PROVE  Books'
  <2> DEFINE t == request[r].tx
  <2>1. t \in Transactions /\ tx[t].type \in {"STOCK_IN", "TRANSFER"}
    BY <1>3, RequestFields DEF EnterNewItem, Papers, Handlers, Justified, EnterOps
  <2>2. tx[t].center \in Centers /\ tx[t].batch \in Batches /\ tx[t].qty \in Sizes
    BY <2>1 DEF Papers, TxRows
  <2>3. tx[t].qty \in Quantity
    BY <2>2, SizesAreQuantities
  <2> QED
    BY <1>3, <2>2, <2>3, InsertKeepsBooks DEF EnterNewItem
<1>4. ASSUME NEW r \in Requests, EnterExistingItem(r)
      PROVE  Books'
  <2> DEFINE t == request[r].tx
             q == request[r].was + tx[t].qty
  <2>1. /\ t \in Transactions /\ tx[t].type # "none"
        /\ request[r].item \in Items /\ request[r].was \in Quantity
    BY <1>4, RequestFields DEF EnterExistingItem, Papers, Handlers, Justified, EnterOps
  <2>2. tx[t].qty \in Sizes
    BY <2>1 DEF Papers, TxRows
  <2>3. q \in Int
    BY <2>1, <2>2, SizesAreQuantities
  <2> QED
    BY <1>4, <2>1, <2>3, UpdateKeepsBooks DEF EnterExistingItem
<1>5. ASSUME NEW r \in Requests, TakeFromItem(r)
      PROVE  Books'
  <2> DEFINE t == request[r].tx
             q == request[r].was - tx[t].qty
  <2>1. /\ t \in Transactions /\ tx[t].type # "none"
        /\ request[r].item \in Items /\ request[r].was \in Quantity
    BY <1>5, RequestFields DEF TakeFromItem, Papers, Handlers, Justified
  <2>2. tx[t].qty \in Sizes
    BY <2>1 DEF Papers, TxRows
  <2>3. q \in Int
    BY <2>1, <2>2, SizesAreQuantities
  <2> QED
    BY <1>5, <2>1, <2>3, UpdateKeepsBooks, DeleteKeepsBooks DEF TakeFromItem
<1>6. ASSUME NEW r \in Requests, DeductWrite(r)
      PROVE  Books'
  <2>1. PICK i \in Items : UpdateItem(i, request[r].was - request[r].qty)
    BY <1>6 DEF DeductWrite, LiveOf
  <2>2. request[r].was \in Quantity /\ request[r].qty \in Sizes
    BY <1>6, RequestFields DEF DeductWrite, Papers
  <2>3. request[r].was - request[r].qty \in Int
    BY <2>2, SizesAreQuantities
  <2> QED
    BY <2>1, <2>3, UpdateKeepsBooks
<1> USE DEF rows
<1>7. CASE PickupStep
  BY <1>2, <1>7 DEF PickupStep, PickupStockIn
<1>8. ASSUME NEW r \in Requests, ConfirmStep(r)
      PROVE  Books'
  BY <1>2, <1>8 DEF ConfirmStep, ConfirmRead, RejectRead, ConfirmWrite, RejectWrite
<1>9. ASSUME NEW r \in Requests, StockInStep(r)
      PROVE  Books'
  BY <1>2, <1>3, <1>4, <1>9
     DEF StockInStep, CreateStockIn, FindItem, FindListing, CreateListing, AddToListing, Skip
<1>10. ASSUME NEW r \in Requests, StockOutStep(r)
       PROVE  Books'
  BY <1>2, <1>5, <1>10 DEF StockOutStep, StockOutRead, StockOutWrite, FindItemOut
<1>11. ASSUME NEW r \in Requests, ProcessingStep(r) \/ Fail(r)
       PROVE  Books'
  BY <1>2, <1>6, <1>11 DEF ProcessingStep, SellRead, SellWrite, DeductRead, Fail
<1> QED
  BY <1>1, <1>7, <1>8, <1>9, <1>10, <1>11 DEF Next

-----------------------------------------------------------------------------
(* The sales.                                                              *)

\* What was received and booked for a batch stays received.
LEMMA DoneGrows ==
    ASSUME Papers, NEW r, PaperStep(r), NEW b
    PROVE  /\ Done(b) \subseteq Done(b)' /\ IsFiniteSet(Done(b)')
           /\ Load(Done(b), TxWeights') = Load(Done(b), TxWeights)
           /\ Load(Done(b), TxWeights) <= Load(Done(b), TxWeights)'
<1>1. Papers' /\ TxKept /\ Moves(r)
  BY DEF PaperStep
<1>2. ASSUME NEW t \in Done(b)
      PROVE  t \in Done(b)' /\ TxWeights[t] = TxWeights'[t]
  <2>1. /\ t \in Transactions /\ tx[t].type = "STOCK_IN" /\ ~tx[t].pickup /\ tx[t].batch = b
        /\ \A s \in Requests : Active(request[s]) => request[s].tx # t
    BY <1>2 DEF Done, ListedStockIns, Active
  <2>2. t \in ListedStockIns(b)' /\ TxWeights[t] = TxWeights'[t]
    BY <1>1, <2>1 DEF TxKept, ListedStockIns, TxWeights
  <2>3. ASSUME NEW s \in Requests, request'[s].op \in EnterOps \cup ListOps, request'[s].tx = t
        PROVE  FALSE
    <3>1. request'[s] = request[s] \/ TakesUp(s, request'[s])
      BY <1>1 DEF Moves
    <3> QED
      BY <2>1, <2>3, <3>1 DEF TakesUp, Active
  <2> QED
    BY <2>2, <2>3 DEF Done
<1>3. Done(b)' \in SUBSET Transactions
  BY DEF Done, ListedStockIns
<1>4. IsFiniteSet(Done(b)')
  BY <1>3, StockAssumption, FS_Subset
<1>5. Load(Done(b), TxWeights) = Load(Done(b), TxWeights')
  BY <1>2, LoadSame
<1>6. Done(b) \subseteq Done(b)'
  BY <1>2
<1>7. Load(Done(b), TxWeights') <= Load(Done(b)', TxWeights')
  BY <1>4, <1>6, LoadMonotone
<1>8. Load(Done(b), TxWeights)' = Load(Done(b)', TxWeights')
  OBVIOUS
<1> QED
  BY <1>4, <1>5, <1>6, <1>7, <1>8

\* A row or a row read that was within what a batch received remains so.
LEMMA StaysReceived ==
    ASSUME Papers, NEW r, PaperStep(r), NEW b, NEW row \in ListingRow,
           row.quantity <= Load(Done(b), TxWeights)
    PROVE  row.quantity <= Load(Done(b), TxWeights)'
<1>1. IsFiniteSet(Done(b)')
  BY DoneGrows
<1>2. Done(b) \in SUBSET Transactions
  BY DEF Done, ListedStockIns
<1>3. IsFiniteSet(Done(b))
  BY <1>2, StockAssumption, FS_Subset
<1>4. Load(Done(b), TxWeights) \in Nat
  BY <1>3, LoadType
<1>5. Load(Done(b)', TxWeights') \in Nat
  BY <1>1, LoadType
<1>6. Load(Done(b), TxWeights)' = Load(Done(b)', TxWeights')
  OBVIOUS
<1>7. row.quantity \in Nat
  BY DEF ListingRow
<1> QED
  BY <1>4, <1>5, <1>6, <1>7, DoneGrows

\* What handlers read of listings remains within what was received.
LEMMA ReadsStay ==
    ASSUME Papers, Sales, NEW r, PaperStep(r),
           \A s \in Requests : request'[s].op = "addListing" => request'[s] = request[s]
    PROVE  ListingReads'
<1>1. ASSUME NEW s \in Requests, NEW b \in Batches, request'[s].op = "addListing",
             tx'[request'[s].tx].batch = b
      PROVE  /\ request'[s].was.available <= request'[s].was.quantity
             /\ request'[s].was.quantity <= Load(Done(b), TxWeights)'
  <2> DEFINE q == request[s]
  <2>1. q \in Request /\ q.op = "addListing" /\ request'[s] = q
    BY <1>1 DEF Papers
  <2>2. q.was \in ListingRow /\ q.tx \in Transactions /\ tx[q.tx].type # "none"
    BY <2>1, RequestFields DEF ListOps, Papers, Handlers, Justified
  <2>3. tx[q.tx].batch = b
    BY <1>1, <2>1, <2>2 DEF PaperStep, TxKept
  <2>4. q.was.available <= q.was.quantity /\ q.was.quantity <= Load(Done(b), TxWeights)
    BY <2>1, <2>3 DEF Sales, ListingReads
  <2>5. q.was.quantity <= Load(Done(b), TxWeights)'
    BY <2>2, <2>4, StaysReceived
  <2> QED
    BY <2>1, <2>4, <2>5
<1> QED
  BY <1>1 DEF ListingReads

\* Listings that nobody writes remain within what was received.
LEMMA RowStays ==
    ASSUME Papers, Sales, NEW r, PaperStep(r), NEW b \in Batches, listing'[b] = listing[b]
    PROVE  /\ listing'[b].available <= listing'[b].quantity
           /\ listing'[b].quantity <= Load(Done(b), TxWeights)'
<1>1. listing[b] \in ListingRow
  BY DEF Sales
<1>2. listing[b].available <= listing[b].quantity /\ listing[b].quantity <= Load(Done(b), TxWeights)
  BY DEF Sales, ListingRows
<1> QED
  BY <1>1, <1>2, StaysReceived

LEMMA RowsStay ==
    ASSUME Papers, Sales, NEW r, PaperStep(r), listing' = listing
    PROVE  listing' \in [Batches -> ListingRow] /\ ListingRows'
<1>1. ListingRows'
  BY RowStays DEF ListingRows
<1> QED
  BY <1>1 DEF Sales

\* A handler that puts its transaction on sale is the only one that books it, so
\* that the transaction counts as received from then on, and did not before.
LEMMA ListedOnce ==
    ASSUME Papers, NEW r \in Requests, request[r].op \in ListOps, tx' = tx, Finish(r),
           NEW t, t = request[r].tx, NEW b, b = tx[t].batch
    PROVE  /\ t \in Transactions /\ b \in Batches /\ tx[t].qty \in Quantity
           /\ tx[t].qty > 0 /\ t \notin Done(b) /\ t \in Done(b)'
<1>1. t \in Transactions /\ tx[t].type = "STOCK_IN" /\ ~tx[t].pickup
  BY RequestFields DEF Papers, Handlers, Justified
<1>2. b \in Batches /\ tx[t].qty \in Sizes
  BY <1>1 DEF Papers, TxRows
<1>3. tx[t].qty \in Quantity /\ tx[t].qty > 0
  BY <1>2, SizesAreQuantities
<1>4. t \notin Done(b)
  BY DEF Done
<1>5. \A s \in Requests \ {r} : request[s].op \in EnterOps \cup ListOps => request[s].tx # t
  BY <1>1 DEF Papers, OneLister
<1>6. request'[r] = Idle /\ \A s \in Requests \ {r} : request'[s] = request[s]
  BY DEF Papers, Finish, Goto
<1>7. \A s \in Requests : request'[s].op \in EnterOps \cup ListOps => request'[s].tx # t
  BY <1>5, <1>6 DEF Idle, EnterOps, ListOps
<1>8. t \in Done(b)'
  BY <1>1, <1>7 DEF Done, ListedStockIns
<1> QED
  BY <1>1, <1>2, <1>3, <1>4, <1>8

\* A new listing offers what its transaction brought.
LEMMA CreateListingKeepsSales ==
    ASSUME Books, Papers, Sales, NEW r \in Requests, CreateListing(r)
    PROVE  Sales'
<1>1. PICK t, b : t = request[r].tx /\ b = tx[t].batch
  OBVIOUS
<1>2. /\ request[r].op \in ListOps /\ tx' = tx /\ Finish(r)
      /\ listing' = [listing EXCEPT ![b] = [quantity |-> tx[t].qty, available |-> tx[t].qty]]
  BY <1>1 DEF CreateListing, ListOps
<1>3. PaperStep(r)
  BY PapersOfListing DEF Sales
<1>4. /\ b \in Batches /\ tx[t].qty \in Quantity /\ tx[t].qty \in Nat /\ t \in Transactions
      /\ t \in Done(b)'
  BY <1>1, <1>2, ListedOnce, SizesAreQuantities
<1>5. listing' \in [Batches -> ListingRow]
  BY <1>2, <1>4 DEF Sales, ListingRow
<1>6. tx[t].qty <= Load(Done(b), TxWeights)'
  <2>1. {t} \subseteq Done(b)' /\ IsFiniteSet(Done(b)')
    BY <1>3, <1>4, DoneGrows
  <2>2. Load({t}, TxWeights') <= Load(Done(b)', TxWeights')
    BY <2>1, LoadMonotone
  <2>3. TxWeights'[t] = tx[t].qty
    BY <1>2, <1>4 DEF TxWeights
  <2>4. Load({t}, TxWeights') = tx[t].qty
    BY <1>4, <2>3, LoadSingle
  <2> QED
    BY <2>2, <2>4
<1>7. ASSUME NEW d \in Batches
      PROVE  /\ listing'[d].available <= listing'[d].quantity
             /\ listing'[d].quantity <= Load(Done(d), TxWeights)'
  <2>1. CASE d = b
    BY <1>2, <1>4, <1>6, <2>1 DEF Sales
  <2>2. CASE d # b
    <3>1. listing'[d] = listing[d]
      BY <1>2, <2>2 DEF Sales
    <3> QED
      BY <1>3, <3>1, RowStays
  <2> QED
    BY <2>1, <2>2
<1>8. ListingReads'
  <2>1. \A s \in Requests : request'[s].op = "addListing" => request'[s] = request[s]
    BY <1>2 DEF Finish, Goto, Idle, Papers
  <2> QED
    BY <1>3, <2>1, ReadsStay
<1> QED
  BY <1>5, <1>7, <1>8 DEF Sales, ListingRows

\* A listing read before is within what was received then, and the transaction is
\* received in addition.
LEMMA AddToListingKeepsSales ==
    ASSUME Books, Papers, Sales, NEW r \in Requests, AddToListing(r)
    PROVE  Sales'
<1>1. PICK t, b, was : t = request[r].tx /\ b = tx[t].batch /\ was = request[r].was
  OBVIOUS
<1>2. /\ request[r].op = "addListing" /\ tx' = tx /\ Finish(r)
      /\ listing' = [listing EXCEPT ![b] = [quantity |-> was.quantity + tx[t].qty,
                                            available |-> was.available + tx[t].qty]]
  BY <1>1 DEF AddToListing
<1>3. PaperStep(r)
  BY PapersOfListing DEF Sales
<1>4. request[r].op \in ListOps
  BY <1>2 DEF ListOps
<1>5. /\ b \in Batches /\ tx[t].qty \in Quantity /\ tx[t].qty \in Nat /\ t \in Transactions
      /\ t \in Done(b)' /\ t \notin Done(b)
  BY <1>1, <1>2, <1>4, ListedOnce, SizesAreQuantities
<1>6. was \in ListingRow
  BY <1>1, <1>2, RequestFields DEF Papers
<1>7. was.available <= was.quantity /\ was.quantity <= Load(Done(b), TxWeights)
  BY <1>1, <1>2, <1>5 DEF Sales, ListingReads
<1>8. listing' \in [Batches -> ListingRow]
  BY <1>2, <1>5, <1>6 DEF Sales, ListingRow
<1>9. was.quantity + tx[t].qty <= Load(Done(b), TxWeights)'
  <2>1. /\ Done(b) \subseteq Done(b)' /\ IsFiniteSet(Done(b)')
        /\ Load(Done(b), TxWeights') = Load(Done(b), TxWeights)
    BY <1>3, DoneGrows
  <2>2. IsFiniteSet(Done(b)) /\ Done(b) \cup {t} \subseteq Done(b)'
    BY <1>5, <2>1, FS_Subset
  <2>3. TxWeights'[t] = tx[t].qty
    BY <1>2, <1>5 DEF TxWeights
  <2>4. Load(Done(b) \cup {t}, TxWeights') = Load(Done(b), TxWeights') + tx[t].qty
    BY <1>5, <2>2, <2>3, LoadAdd
  <2>5. Load(Done(b) \cup {t}, TxWeights') <= Load(Done(b)', TxWeights')
    BY <2>1, <2>2, LoadMonotone
  <2>6. Load(Done(b), TxWeights) \in Nat /\ Load(Done(b)', TxWeights') \in Nat
    BY <2>1, <2>2, LoadType
  <2>7. was.quantity + tx[t].qty <= Load(Done(b)', TxWeights')
    BY <1>5, <1>6, <1>7, <2>1, <2>4, <2>5, <2>6 DEF ListingRow
  <2> QED
    BY <2>7
<1>10. ASSUME NEW d \in Batches
       PROVE  /\ listing'[d].available <= listing'[d].quantity
              /\ listing'[d].quantity <= Load(Done(d), TxWeights)'
  <2>1. CASE d = b
    BY <1>2, <1>5, <1>6, <1>7, <1>9, <2>1 DEF Sales, ListingRow
  <2>2. CASE d # b
    <3>1. listing'[d] = listing[d]
      BY <1>2, <2>2 DEF Sales
    <3> QED
      BY <1>3, <3>1, RowStays
  <2> QED
    BY <2>1, <2>2
<1>11. ListingReads'
  <2>1. \A s \in Requests : request'[s].op = "addListing" => request'[s] = request[s]
    BY <1>2 DEF Finish, Goto, Idle, Papers
  <2> QED
    BY <1>3, <2>1, ReadsStay
<1> QED
  BY <1>8, <1>10, <1>11 DEF Sales, ListingRows

\* A sale lists nothing, and offers no more than is listed, by the constraint.
LEMMA SellWriteKeepsSales ==
    ASSUME Books, Papers, Sales, NEW r \in Requests, SellWrite(r)
    PROVE  Sales'
<1>1. PICK b, left : b = request[r].batch /\ left = request[r].was - request[r].qty
  OBVIOUS
<1>2. /\ request[r].op = "sell" /\ Finish(r) /\ left <= listing[b].quantity
      /\ listing' = [listing EXCEPT ![b].available = IF left > 0 THEN left ELSE 0]
  BY <1>1 DEF SellWrite
<1>3. PaperStep(r)
  BY PapersOfProcessing DEF ProcessingStep, Books, Sales
<1>4. b \in Batches /\ left \in Int
  <2>1. b \in Batches /\ request[r].was \in Nat /\ request[r].qty \in Sizes
    BY <1>1, <1>2, RequestFields DEF Papers
  <2> QED
    BY <1>1, <2>1, SizesAreQuantities
<1>5. listing[b] \in ListingRow
  BY <1>4 DEF Sales
<1>6. listing' \in [Batches -> ListingRow]
  BY <1>2, <1>4, <1>5 DEF Sales, ListingRow
<1>7. ASSUME NEW d \in Batches
      PROVE  /\ listing'[d].available <= listing'[d].quantity
             /\ listing'[d].quantity <= Load(Done(d), TxWeights)'
  <2>1. listing[d] \in ListingRow /\ listing[d].quantity <= Load(Done(d), TxWeights)
    BY DEF Sales, ListingRows
  <2>2. listing'[d].quantity = listing[d].quantity
    BY <1>2, <1>5 DEF Sales, ListingRow
  <2>3. listing'[d].quantity <= Load(Done(d), TxWeights)'
    BY <1>3, <2>1, <2>2, StaysReceived
  <2>4. listing'[d].available <= listing'[d].quantity
    BY <1>2, <1>4, <1>5, <2>1 DEF Sales, ListingRows, ListingRow
  <2> QED
    BY <2>3, <2>4
<1>8. ListingReads'
  <2>1. \A s \in Requests : request'[s].op = "addListing" => request'[s] = request[s]
    BY <1>2 DEF Finish, Goto, Idle, Papers
  <2> QED
    BY <1>3, <2>1, ReadsStay
<1> QED
  BY <1>6, <1>7, <1>8 DEF Sales, ListingRows

\* Reading a listing takes down what is within what was received.
LEMMA FindListingKeepsSales ==
    ASSUME Books, Papers, Sales, NEW r \in Requests, FindListing(r)
    PROVE  Sales'
<1>1. PaperStep(r)
  BY PapersOfListing DEF Sales
<1>2. UNCHANGED <<tx, listing>>
  BY DEF FindListing, rows
<1>3. ListingRows' /\ listing' \in [Batches -> ListingRow]
  BY <1>1, <1>2, RowsStay
<1>4. ASSUME NEW s \in Requests, NEW b \in Batches, request'[s].op = "addListing",
             tx'[request'[s].tx].batch = b
      PROVE  /\ request'[s].was.available <= request'[s].was.quantity
             /\ request'[s].was.quantity <= Load(Done(b), TxWeights)'
  <2>1. \/ request'[s] = request[s]
        \/ /\ request'[s].was = listing[tx[request'[s].tx].batch]
           /\ listing[tx[request'[s].tx].batch] = listing[b]
    BY <1>2, <1>4 DEF FindListing, Goto, Papers
  <2>2. request'[s].was \in ListingRow
    BY <1>1, <1>4, RequestFields DEF PaperStep, Papers
  <2>3. /\ request'[s].was.available <= request'[s].was.quantity
        /\ request'[s].was.quantity <= Load(Done(b), TxWeights)
    BY <1>2, <1>4, <2>1 DEF Sales, ListingReads, ListingRows
  <2>4. PICK was : was = request'[s].was
    OBVIOUS
  <2>5. was.quantity <= Load(Done(b), TxWeights)'
    BY <1>1, <2>2, <2>3, <2>4, StaysReceived
  <2> QED
    BY <2>3, <2>4, <2>5
<1>5. ListingReads'
  BY <1>4 DEF ListingReads
<1> QED
  BY <1>3, <1>5 DEF Sales

\* The sales rest when nobody reads or writes a listing.
LEMMA SalesRest ==
    ASSUME Papers, Sales, NEW r, PaperStep(r), listing' = listing,
           \A s \in Requests : request'[s].op = "addListing" => request'[s] = request[s]
    PROVE  Sales'
BY RowsStay, ReadsStay DEF Sales

\* No other step goes on to add to a listing.
LEMMA OthersReadNoListing ==
    ASSUME Books, Papers, Sales, Next,
           \A r \in Requests : ~FindListing(r) /\ ~CreateListing(r) /\ ~AddToListing(r) /\ ~SellWrite(r)
    PROVE  /\ listing' = listing
           /\ \A s \in Requests : request'[s].op = "addListing" => request'[s] = request[s]
<1> DEFINE Kept == /\ listing' = listing
                   /\ \A s \in Requests : request'[s].op = "addListing" => request'[s] = request[s]
<1> USE DEF rows, Begin, Goto, Finish, Idle
<1>0. request \in [Requests -> Request]
  BY DEF Papers
<1>1. CASE CenterStep \/ PickupStep
  BY <1>1 DEF CenterStep, CreateAggregationCenter, UpdateAggregationCenter, PickupStep, PickupStockIn
<1>2. ASSUME NEW r \in Requests, ConfirmStep(r)
      PROVE  Kept
  BY <1>0, <1>2 DEF ConfirmStep, ConfirmRead, RejectRead, ConfirmWrite, RejectWrite
<1>3. ASSUME NEW r \in Requests, StockInStep(r)
      PROVE  Kept
  <2>1. ASSUME NEW t \in Transactions, NEW c \in Centers, NEW b \in Batches, NEW q \in Sizes,
               NEW source, NEW out, CreateStockIn(r, t, c, b, q, source, out)
        PROVE  Kept
    BY <1>0, <2>1 DEF CreateStockIn
  <2>2. CASE FindItem(r)
    BY <1>0, <2>2 DEF FindItem
  <2>3. CASE (\E i \in Items : EnterNewItem(r, i)) \/ EnterExistingItem(r) \/ Skip(r)
    BY <1>0, <2>3 DEF EnterNewItem, EnterExistingItem, Skip, AfterInventory
  <2> QED
    BY <1>3, <2>1, <2>2, <2>3 DEF StockInStep
<1>4. ASSUME NEW r \in Requests, StockOutStep(r)
      PROVE  Kept
  BY <1>0, <1>4 DEF StockOutStep, StockOutRead, StockOutWrite, FindItemOut, TakeFromItem
<1>5. ASSUME NEW r \in Requests, ProcessingStep(r) \/ Fail(r)
      PROVE  Kept
  BY <1>0, <1>5 DEF ProcessingStep, SellRead, DeductRead, DeductWrite, Fail
<1> QED
  BY <1>1, <1>2, <1>3, <1>4, <1>5 DEF Next

LEMMA NextKeepsSales ==
    ASSUME Books, Papers, Sales, Next
    PROVE  Sales'
<1>1. CASE \E r \in Requests :
              FindListing(r) \/ CreateListing(r) \/ AddToListing(r) \/ SellWrite(r)
  BY <1>1, FindListingKeepsSales, CreateListingKeepsSales, AddToListingKeepsSales,
     SellWriteKeepsSales
<1>2. CASE \A r \in Requests :
              ~FindListing(r) /\ ~CreateListing(r) /\ ~AddToListing(r) /\ ~SellWrite(r)
  BY <1>2, EveryStepOfThePapers, OthersReadNoListing, SalesRest
<1> QED
  BY <1>1, <1>2

-----------------------------------------------------------------------------
(* The theorems.                                                           *)

LEMMA InitEstablishes == Init => Inv
<1> SUFFICES ASSUME Init PROVE Inv
  OBVIOUS
<1> USE DEF Init
<1>1. Books
  <2>1. \A c \in Centers : ItemsAt(c) = {}
    BY DEF ItemsAt, NoItem
  <2>2. StockMatchesInventory
    BY <2>1, LoadEmpty, MaxQtyAssumption DEF StockMatchesInventory
  <2> QED
    BY <2>2, MaxQtyAssumption
       DEF Books, CenterRow, ItemRow, NoItem, Quantity, LiveItems, OneItemPerBatch
<1>2. Papers
  BY DEF Papers, TxRow, NoTx, Request, Idle, TxRows, Handlers, Justified, EnterOps, ListOps,
         NothingEntersUnconfirmed, OneLister
<1>3. Sales
  <2>1. \A b \in Batches : Done(b) = {}
    BY DEF Done, ListedStockIns, NoTx
  <2>2. \A b \in Batches : Load(Done(b), TxWeights) = 0
    BY <2>1, LoadEmpty
  <2>3. ListingRows
    BY <2>2 DEF ListingRows
  <2> QED
    BY <2>3 DEF Sales, ListingRow, ListingReads, Idle
<1> QED
  BY <1>1, <1>2, <1>3 DEF Inv

LEMMA NextKeeps == Inv /\ [Next]_vars => Inv'
<1> SUFFICES ASSUME Inv, [Next]_vars PROVE Inv'
  OBVIOUS
<1> USE DEF Inv
<1>1. CASE Next
  <2>1. Papers'
    BY <1>1, EveryStepOfThePapers DEF PaperStep
  <2> QED
    BY <1>1, <2>1, NextKeepsBooks, NextKeepsSales
<1>2. CASE UNCHANGED vars
  <2>1. Books'
    BY <1>2, BooksRest DEF vars
  <2>2. \E r : PaperStep(r)
    BY <1>2, TxRest, NobodyMoves DEF vars
  <2>3. Papers'
    BY <2>2 DEF PaperStep
  <2>4. Sales'
    BY <1>2, <2>2, SalesRest DEF vars
  <2> QED
    BY <2>1, <2>3, <2>4
<1> QED
  BY <1>1, <1>2

LEMMA Invariance == Spec => []Inv
<1> QED
  BY InitEstablishes, NextKeeps, PTL DEF Spec

\* The rows and the handlers keep their types: no stale or failed write leaves a
\* quantity, a stock or a capacity that its column cannot hold.
THEOREM TypeCorrect == Spec => []TypeOK
<1>1. Inv => TypeOK
  BY InvIsWhole
<1> QED
  BY <1>1, Invariance, PTL

\* The inductive invariant of the stock of the centres.
THEOREM StockInvariant == Spec => []StockInv
<1>1. Inv => StockInv
  BY InvIsWhole
<1> QED
  BY <1>1, Invariance, PTL

\* The stock a centre shows is the weight of its inventory and within its capacity,
\* for any number of handlers that write back quantities they read earlier
\* (createStockIn, confirmStockTransaction, createStockOut and updateOrderStatus).
THEOREM StockIsInventory == Spec => []StockMatchesInventory
<1>1. Inv => StockMatchesInventory
  BY DEF Inv, Books
<1> QED
  BY <1>1, Invariance, PTL

\* A batch has one live inventory item, although every handler looks for it in one
\* statement and inserts it in another.
THEOREM BatchHasOneItem == Spec => []OneItemPerBatch
<1>1. Inv => OneItemPerBatch
  BY DEF Inv, Books
<1> QED
  BY <1>1, Invariance, PTL

\* A pickup's stock transaction does not enter the inventory while it awaits the
\* confirmation of the centre (confirmStockTransaction).
THEOREM UnconfirmedStaysOut == Spec => []NothingEntersUnconfirmed
<1>1. Inv => NothingEntersUnconfirmed
  BY DEF Inv, Papers
<1> QED
  BY <1>1, Invariance, PTL

\* A listing never offers more of a batch than the stock-ins of the batch received:
\* at most the stock-ins that no handler is still to list.
THEOREM ListedWasReceived == Spec => []NeverListsMoreThanReceived
<1>1. ASSUME Inv
      PROVE  NeverListsMoreThanReceived
  <2>1. ASSUME NEW b \in Batches
        PROVE  /\ listing[b].available <= listing[b].quantity
               /\ listing[b].quantity <= Load(ListedStockIns(b), TxWeights)
    <3>1. Done(b) \subseteq ListedStockIns(b) /\ ListedStockIns(b) \in SUBSET Transactions
      BY DEF Done, ListedStockIns
    <3>2. IsFiniteSet(ListedStockIns(b)) /\ IsFiniteSet(Done(b))
      BY <3>1, StockAssumption, FS_Subset
    <3>3. Load(Done(b), TxWeights) <= Load(ListedStockIns(b), TxWeights)
      BY <3>1, <3>2, LoadMonotone
    <3>4. /\ Load(Done(b), TxWeights) \in Nat /\ Load(ListedStockIns(b), TxWeights) \in Nat
          /\ listing[b].quantity \in Nat
      BY <1>1, <3>2, LoadType DEF Inv, Sales, ListingRow
    <3> QED
      BY <1>1, <3>3, <3>4 DEF Inv, Sales, ListingRows
  <2> QED
    BY <2>1 DEF NeverListsMoreThanReceived
<1> QED
  BY <1>1, Invariance, PTL
=============================================================================
