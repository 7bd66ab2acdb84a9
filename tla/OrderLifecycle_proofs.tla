----------------------- MODULE OrderLifecycle_proofs -----------------------
(***************************************************************************)
(* Proofs about OrderLifecycle, for any number of handlers, any callers    *)
(* and any statuses asked for.                                             *)
(*                                                                         *)
(* OrderInv is inductive: confirmations, passed checks and stock-outs are  *)
(* never taken back (FlagsStay), so that what a handler was entitled to    *)
(* when it read the rows it is entitled to when it writes them.            *)
(***************************************************************************)
EXTENDS OrderLifecycle, TLAPS

Inv == TypeOK /\ OrderInv

\* Nothing that entitles a handler to go on is taken back.
FlagsStay ==
    /\ payment.buyer => payment'.buyer
    /\ payment.farmer => payment'.farmer
    /\ processed > 0 => processed' > 0
    /\ stockOut => stockOut'

\* What every step does, for the invariant and for ConfirmationsStay.
GoodStep ==
    /\ Inv'
    /\ FlagsStay
    /\ payment'.farmer => payment.buyer

EntitledNow(q) == Entitled(q, payment.buyer, payment.farmer, processed > 0, stockOut)

-----------------------------------------------------------------------------
(* Requests.                                                               *)

\* An update request is one whatever statement it is before.
LEMMA AtType ==
    ASSUME NEW q \in Request, q.op \in Updating, NEW op \in Updating
    PROVE  /\ q \in UpdateRequest
           /\ At(q, op) \in Request
           /\ At(q, op).op = op
           /\ At(q, op).to = q.to
           /\ At(q, op).who = q.who
           /\ At(q, op).next = q.next
<1>1. q \in UpdateRequest
  BY DEF Request, Updating, UpdateRequest, DispatchRequest, PaymentRequest, PlainRequest
<1>2. At(q, op) \in UpdateRequest
  BY <1>1 DEF UpdateRequest, At
<1> QED
  BY <1>1, <1>2 DEF UpdateRequest, At, Request

\* What updateOrderStatus is called with.
LEMMA UpdateType ==
    ASSUME NEW to \in Targets, NEW who \in Roles, NEW next \in Continuations
    PROVE  /\ Update(to, who, next) \in Request
           /\ Update(to, who, next).op = "update"
           /\ Update(to, who, next).to = to
           /\ Update(to, who, next).next = next
BY DEF Update, Request, UpdateRequest, Updating

\* The idle handler asks for nothing.
LEMMA IdleType ==
    /\ Idle \in Request
    /\ \A b, f, d, s : Entitled(Idle, b, f, d, s)
BY DEF Idle, Request, PlainRequest, Entitled, Updating

-----------------------------------------------------------------------------
(* Steps.                                                                  *)

\* A step of one handler keeps Inv when the rows keep theirs, no flag is taken
\* back and the handler is entitled to its next statement.
LEMMA StepKeepsInv ==
    ASSUME Inv, NEW r \in Requests, NEW q \in Request, Goto(r, q),
           RowsTypeOK', RowsInv', FlagsStay,
           Entitled(q, payment'.buyer, payment'.farmer, processed' > 0, stockOut')
    PROVE  Inv'
<1>1. /\ request \in [Requests -> Request]
      /\ request' = [request EXCEPT ![r] = q]
  BY DEF Inv, TypeOK, Goto
<1>2. request' \in [Requests -> Request]
  BY <1>1
<1>3. ASSUME NEW t \in Requests
      PROVE  Entitled(request'[t], payment'.buyer, payment'.farmer, processed' > 0, stockOut')
  <2>1. CASE t = r
    BY <1>1, <2>1
  <2>2. CASE t # r
    <3>1. request'[t] = request[t]
      BY <1>1, <2>2
    <3>2. Entitled(request[t], payment.buyer, payment.farmer, processed > 0, stockOut)
      BY DEF Inv, OrderInv
    <3> QED
      BY <3>1, <3>2 DEF FlagsStay, Entitled
  <2> QED
    BY <2>1, <2>2
<1> QED
  BY <1>2, <1>3 DEF Inv, TypeOK, OrderInv

\* The same for a step that leaves the rows alone.
LEMMA ReadKeepsInv ==
    ASSUME Inv, NEW r \in Requests, NEW q \in Request, Goto(r, q), UNCHANGED rows,
           EntitledNow(q)
    PROVE  GoodStep
<1>1. RowsTypeOK' /\ RowsInv' /\ FlagsStay
  BY DEF Inv, TypeOK, OrderInv, rows, RowsTypeOK, RowsInv, FlagsStay, PaidBeforeFulfilment,
         CheckedBeforeCollection, StockOutBeforeCollection
<1>2. Entitled(q, payment'.buyer, payment'.farmer, processed' > 0, stockOut')
  BY DEF EntitledNow, rows
<1>3. payment'.farmer => payment.buyer
  BY DEF Inv, OrderInv, RowsInv, rows
<1> QED
  BY <1>1, <1>2, <1>3, StepKeepsInv DEF GoodStep

\* A step of the database or of a call that leaves every handler where it is.
LEMMA RowStepKeepsInv ==
    ASSUME Inv, UNCHANGED request, RowsTypeOK', RowsInv', FlagsStay
    PROVE  Inv'
<1>1. ASSUME NEW t \in Requests
      PROVE  Entitled(request'[t], payment'.buyer, payment'.farmer, processed' > 0, stockOut')
  <2>1. Entitled(request[t], payment.buyer, payment.farmer, processed > 0, stockOut)
    BY DEF Inv, OrderInv
  <2> QED
    BY <2>1 DEF FlagsStay, Entitled
<1> QED
  BY <1>1 DEF Inv, TypeOK, OrderInv

-----------------------------------------------------------------------------
(* updateOrderStatus.                                                      *)

LEMMA FinishKeepsInv ==
    ASSUME Inv, NEW r \in Requests, Finish(r), UNCHANGED rows
    PROVE  GoodStep
BY IdleType, ReadKeepsInv DEF Finish, EntitledNow

\* A call of updateOrderStatus that its target entitles.
LEMMA UpdateKeepsInv ==
    ASSUME Inv, NEW r \in Requests, NEW to \in Targets, NEW who \in Roles,
           NEW next \in Continuations,
           Goto(r, Update(to, who, next)), UNCHANGED rows,
           to \in Fulfilling => payment.buyer /\ payment.farmer,
           to \in Fulfilling \ {"READY_TO_PROCESS", "PROCESSING"} => processed > 0,
           to \in HandedOut \/ next = "mark" => stockOut
    PROVE  GoodStep
<1>1. EntitledNow(Update(to, who, next))
  BY UpdateType DEF EntitledNow, Entitled
<1> QED
  BY <1>1, UpdateType, ReadKeepsInv

\* The next statement of an update keeps what it is entitled to; the write of
\* PROCESSING comes after the deduction.
LEMMA AtKeepsInv ==
    ASSUME Inv, NEW r \in Requests, request[r].op \in Updating, NEW op \in Updating,
           Goto(r, At(request[r], op)), UNCHANGED rows,
           op = "checkPayment" => request[r].to = "IN_TRANSIT",
           op = "write" /\ request[r].to = "PROCESSING" => processed > 0
    PROVE  GoodStep
<1>1. request[r] \in Request /\ EntitledNow(request[r])
  BY DEF Inv, TypeOK, OrderInv, EntitledNow
<1>2. EntitledNow(At(request[r], op))
  BY <1>1, AtType DEF EntitledNow, Entitled, Updating
<1>3. At(request[r], op) \in Request
  BY <1>1, AtType
<1> QED
  BY <1>2, <1>3, ReadKeepsInv

LEMMA UpdateReadStep ==
    ASSUME Inv, NEW r \in Requests, UpdateRead(r)
    PROVE  GoodStep
<1> DEFINE op == IF order.status = "PAYMENT_SECURED" /\ request[r].to = "IN_TRANSIT"
                       /\ request[r].who # "staff" THEN "checkPayment"
                 ELSE IF request[r].to = "PROCESSING" THEN "deduct" ELSE "write"
<1>1. request[r].op \in Updating /\ UNCHANGED rows
  BY DEF UpdateRead, Updating
<1>2. Throw(r) \/ Goto(r, At(request[r], op))
  BY DEF UpdateRead
<1>3. CASE Throw(r)
  BY <1>1, <1>3, FinishKeepsInv DEF Throw
<1>4. CASE Goto(r, At(request[r], op))
  <2>1. /\ op \in Updating
        /\ ~(op = "write" /\ request[r].to = "PROCESSING")
        /\ op = "checkPayment" => request[r].to = "IN_TRANSIT"
    BY DEF Updating
  <2> HIDE DEF op
  <2> QED
    BY <1>1, <1>4, <2>1, AtKeepsInv
<1> QED
  BY <1>2, <1>3, <1>4

LEMMA CheckPaymentStep ==
    ASSUME Inv, NEW r \in Requests, CheckPayment(r)
    PROVE  GoodStep
<1>1. request[r].op = "checkPayment" /\ UNCHANGED rows
  BY DEF CheckPayment
<1>2. request[r].to = "IN_TRANSIT"
  BY <1>1 DEF Inv, OrderInv, Entitled
<1>3. Finish(r) \/ Goto(r, At(request[r], "write"))
  BY DEF CheckPayment, Throw
<1> QED
  BY <1>1, <1>2, <1>3, FinishKeepsInv, AtKeepsInv DEF Updating

LEMMA DeductStep ==
    ASSUME Inv, NEW r \in Requests, Deduct(r)
    PROVE  GoodStep
<1>1. /\ request[r].op = "deduct" /\ request[r].op \in Updating
      /\ UNCHANGED <<order, payment, escrow, stockOut>>
  BY DEF Deduct, Updating
<1>2. request[r] \in Request /\ EntitledNow(request[r])
  BY DEF Inv, TypeOK, OrderInv, EntitledNow
<1>3. CASE processed' = processed /\ Throw(r)
  BY <1>1, <1>3, FinishKeepsInv DEF Throw, rows
<1>4. CASE /\ processed' = IF processed < 2 THEN processed + 1 ELSE 2
           /\ Goto(r, At(request[r], "write"))
  <2>1. processed' \in 0 .. 2 /\ processed' > 0
    BY <1>4 DEF Inv, TypeOK, RowsTypeOK
  <2>2. RowsTypeOK' /\ RowsInv' /\ FlagsStay /\ (payment'.farmer => payment.buyer)
    BY <1>1, <2>1 DEF Inv, TypeOK, OrderInv, RowsTypeOK, RowsInv, FlagsStay,
       PaidBeforeFulfilment, CheckedBeforeCollection, StockOutBeforeCollection
  <2>3. At(request[r], "write") \in Request
    BY <1>1, <1>2, AtType DEF Updating
  <2>4. Entitled(At(request[r], "write"), payment'.buyer, payment'.farmer, processed' > 0,
                 stockOut')
    BY <1>1, <1>2, <2>1, AtType DEF EntitledNow, Entitled, Updating
  <2> QED
    BY <1>4, <2>2, <2>3, <2>4, StepKeepsInv DEF GoodStep
<1> QED
  BY <1>3, <1>4 DEF Deduct

\* The write of a status: what the status demands is what its request is
\* entitled to, and the same holds of what the caller goes on to do.
LEMMA UpdateWriteStep ==
    ASSUME Inv, NEW r \in Requests, UpdateWrite(r)
    PROVE  GoodStep
<1> DEFINE q == request[r]
<1>1. /\ q.op = "write" /\ q.op \in Updating
      /\ UNCHANGED <<payment, escrow, processed, stockOut>>
  BY DEF UpdateWrite, Updating
<1>2. q \in UpdateRequest /\ EntitledNow(q)
  BY <1>1, AtType DEF Inv, TypeOK, OrderInv, EntitledNow
<1>3. CASE order' = order /\ Throw(r)
  BY <1>1, <1>3, FinishKeepsInv DEF Throw, rows
<1>4. CASE /\ q.to \in Statuses
           /\ order' = [order EXCEPT !.status = q.to]
           /\ Continue(r)
  <2>1. /\ order'.status = q.to
        /\ order'.collected = order.collected
        /\ order'.recorded = order.recorded
        /\ order' \in [status : Statuses \cup {"none"}, collected : BOOLEAN,
                       recorded : BOOLEAN, transport : BOOLEAN]
    BY <1>4 DEF Inv, TypeOK, RowsTypeOK
  <2>2. RowsTypeOK'
    BY <1>1, <2>1 DEF Inv, TypeOK, RowsTypeOK
  <2>3. /\ q.to \in Fulfilling => payment.buyer /\ payment.farmer
        /\ q.to \in Fulfilling \ {"READY_TO_PROCESS"} => processed > 0
        /\ q.to \in HandedOut \/ q.next = "mark" => stockOut
    BY <1>1, <1>2 DEF EntitledNow, Entitled, Fulfilling
  <2>4. RowsInv' /\ FlagsStay /\ (payment'.farmer => payment.buyer)
    BY <1>1, <2>1, <2>3 DEF Inv, OrderInv, RowsInv, FlagsStay, PaidBeforeFulfilment,
       CheckedBeforeCollection, StockOutBeforeCollection, Fulfilling, HandedOut
  <2>5. CASE q.next = "none"
    <3>1. Goto(r, Idle)
      BY <1>4, <2>5 DEF Continue, Finish
    <3> QED
      BY <2>2, <2>4, <3>1, IdleType, StepKeepsInv DEF GoodStep
  <2>6. CASE q.next = "mark"
    <3>1. Goto(r, [op |-> "mark"])
      BY <1>4, <2>6 DEF Continue
    <3>2. [op |-> "mark"] \in Request
      BY DEF Request, PlainRequest
    <3>3. Entitled([op |-> "mark"], payment'.buyer, payment'.farmer, processed' > 0, stockOut')
      BY <1>1, <2>3, <2>6 DEF Entitled, Updating
    <3> QED
      BY <2>2, <2>4, <3>1, <3>2, <3>3, StepKeepsInv DEF GoodStep
  <2>7. CASE q.next \in {"QUALITY_APPROVED", "QUALITY_REJECTED"}
    <3> DEFINE u == Update(q.next, q.who, "none")
    <3>1. Goto(r, u)
      BY <1>4, <2>7 DEF Continue
    <3>2. /\ u \in Request
          /\ u.op = "update"
          /\ u.to = q.next
          /\ u.next = "none"
      BY <1>2, <2>7, UpdateType DEF UpdateRequest, Targets, Statuses, Continuations
    <3>3. Entitled(u, payment'.buyer, payment'.farmer, processed' > 0, stockOut')
      BY <3>2, <2>7 DEF Entitled, Fulfilling, HandedOut
    <3> QED
      BY <2>2, <2>4, <3>1, <3>2, <3>3, StepKeepsInv DEF GoodStep
  <2> QED
    BY <1>2, <2>5, <2>6, <2>7 DEF UpdateRequest, Continuations
<1> QED
  BY <1>3, <1>4 DEF UpdateWrite

-----------------------------------------------------------------------------
(* Calls, and statements that only read.                                   *)

\* A handler that goes to a statement with no claim of its own.
LEMMA PlainKeepsInv ==
    ASSUME Inv, NEW r \in Requests,
           NEW op \in {"idle", "complete", "findPayment", "securePayment", "insertPayment",
                       "release", "dispute"},
           Goto(r, [op |-> op]), UNCHANGED rows
    PROVE  GoodStep
<1>1. [op |-> op] \in Request
  BY DEF Request, PlainRequest
<1>2. EntitledNow([op |-> op])
  BY DEF EntitledNow, Entitled, Updating
<1> QED
  BY <1>1, <1>2, ReadKeepsInv

\* Calls of updateOrderStatus: those for a fulfilment status follow another one.
LEMMA OrderCallStep ==
    ASSUME Inv, NEW r \in Requests, OrderCall(r)
    PROVE  GoodStep
<1> USE OrderAssumption DEF Begin
<1>1. ASSUME NEW to \in Targets, NEW who \in Callers, AskStatus(r, to, who)
      PROVE  GoodStep
  <2>1. to \notin Fulfilling
    BY <1>1 DEF AskStatus, ApiStatuses, Fulfilling
  <2> QED
    BY <1>1, <2>1, UpdateKeepsInv DEF AskStatus, Roles, Continuations, Fulfilling, HandedOut
<1>2. CASE StartProcessing(r)
  <2>1. payment.buyer /\ payment.farmer
    BY <1>2 DEF StartProcessing, Inv, OrderInv, RowsInv, PaidBeforeFulfilment, Fulfilling
  <2> QED
    BY <1>2, <2>1, UpdateKeepsInv
       DEF StartProcessing, Targets, Statuses, Roles, Continuations, HandedOut
<1>3. CASE MarkReadyForCollection(r)
  <2>1. payment.buyer /\ payment.farmer /\ processed > 0
    BY <1>3 DEF MarkReadyForCollection, Inv, OrderInv, RowsInv, PaidBeforeFulfilment,
       CheckedBeforeCollection, Fulfilling
  <2> QED
    BY <1>3, <2>1, UpdateKeepsInv
       DEF MarkReadyForCollection, Targets, Statuses, Roles, Continuations, HandedOut
<1>4. ASSUME NEW who \in Callers, StockIn(r, who)
      PROVE  GoodStep
  BY <1>4, UpdateKeepsInv DEF StockIn, Targets, Statuses, Continuations, Fulfilling, HandedOut
<1>5. ASSUME NEW who \in Callers, StockOutInsert(r, who)
      PROVE  GoodStep
  <2> DEFINE q == [op |-> "dispatch", who |-> who]
  <2>1. /\ stockOut' = TRUE
        /\ Goto(r, q)
        /\ UNCHANGED <<order, payment, escrow, processed>>
    BY <1>5 DEF StockOutInsert
  <2>2. RowsTypeOK' /\ RowsInv' /\ FlagsStay /\ (payment'.farmer => payment.buyer)
    BY <2>1 DEF Inv, TypeOK, OrderInv, RowsTypeOK, RowsInv, FlagsStay,
       PaidBeforeFulfilment, CheckedBeforeCollection, StockOutBeforeCollection
  <2>3. q \in Request
    BY DEF Request, DispatchRequest
  <2>4. Entitled(q, payment'.buyer, payment'.farmer, processed' > 0, stockOut')
    BY <2>1 DEF Entitled, Updating
  <2> QED
    BY <2>1, <2>2, <2>3, <2>4, StepKeepsInv DEF GoodStep
<1>6. ASSUME NEW who \in Callers, NEW verdict \in Statuses, CreateQualityCheck(r, verdict, who)
      PROVE  GoodStep
  BY <1>6, UpdateKeepsInv
     DEF CreateQualityCheck, Targets, Statuses, Continuations, Fulfilling, HandedOut
<1>7. CASE CollectRead(r)
  <2>1. payment.buyer /\ payment.farmer /\ processed > 0 /\ stockOut
    BY <1>7 DEF CollectRead, Inv, OrderInv, RowsInv, PaidBeforeFulfilment,
       CheckedBeforeCollection, StockOutBeforeCollection, Fulfilling, HandedOut
  <2>2. [op |-> "collect"] \in Request
    BY DEF Request, PlainRequest
  <2>3. EntitledNow([op |-> "collect"])
    BY <2>1 DEF EntitledNow, Entitled, Updating
  <2> QED
    BY <1>7, <2>2, <2>3, ReadKeepsInv DEF CollectRead
<1>8. CASE ConfirmDeliveryRead(r)
  BY <1>8, PlainKeepsInv DEF ConfirmDeliveryRead
<1> QED
  BY <1>1, <1>2, <1>3, <1>4, <1>5, <1>6, <1>7, <1>8 DEF OrderCall

LEMMA PaymentCallStep ==
    ASSUME Inv, NEW r \in Requests, PaymentCall(r)
    PROVE  GoodStep
<1> USE DEF Begin
<1>1. ASSUME NEW to \in AskedPayment, SetPaymentRead(r, to)
      PROVE  GoodStep
  <2> DEFINE q == [op |-> "setPayment", to |-> to, was |-> payment.status]
  <2>1. q \in Request
    BY <1>1, OrderAssumption
       DEF SetPaymentRead, Inv, TypeOK, RowsTypeOK, Request, PaymentRequest
  <2>2. EntitledNow(q)
    BY DEF EntitledNow, Entitled, Updating
  <2> QED
    BY <1>1, <2>1, <2>2, ReadKeepsInv DEF SetPaymentRead
<1>2. CASE ConfirmPaymentRead(r)
  BY <1>2, PlainKeepsInv DEF ConfirmPaymentRead
<1>3. CASE FarmerConfirmRead(r)
  <2>1. [op |-> "farmerConfirm"] \in Request
    BY DEF Request, PlainRequest
  <2>2. EntitledNow([op |-> "farmerConfirm"])
    BY <1>3 DEF FarmerConfirmRead, EntitledNow, Entitled, Updating
  <2> QED
    BY <1>3, <2>1, <2>2, ReadKeepsInv DEF FarmerConfirmRead
<1>4. CASE ReleaseEscrowRead(r)
  BY <1>4, PlainKeepsInv DEF ReleaseEscrowRead
<1>5. CASE DisputeEscrowRead(r)
  BY <1>5, PlainKeepsInv DEF DisputeEscrowRead
<1> QED
  BY <1>1, <1>2, <1>3, <1>4, <1>5 DEF PaymentCall

-----------------------------------------------------------------------------
(* The statements that follow.                                             *)

\* Stock-outs are only ever dispatched and marked once they are on record.
LEMMA StockOutSteps ==
    ASSUME Inv, NEW r \in Requests, Dispatch(r) \/ MarkStockOut(r)
    PROVE  GoodStep
<1>1. stockOut /\ request[r] \in Request
  BY DEF Dispatch, MarkStockOut, Inv, TypeOK, OrderInv, Entitled
<1>2. CASE Dispatch(r)
  <2>1. request[r].who \in Roles
    BY <1>1, <1>2 DEF Dispatch, Request, UpdateRequest, Updating, DispatchRequest,
       PaymentRequest, PlainRequest
  <2> DEFINE to == IF order.status = "READY_FOR_COLLECTION" THEN "RELEASED"
                   ELSE "OUT_FOR_DELIVERY"
  <2>2. /\ to \in Targets
        /\ to \in Fulfilling => payment.buyer /\ payment.farmer /\ processed > 0
    BY DEF Inv, OrderInv, RowsInv, PaidBeforeFulfilment, CheckedBeforeCollection, Fulfilling,
       Targets, Statuses
  <2>3. Goto(r, Update(to, request[r].who, "mark")) /\ UNCHANGED rows
    BY <1>2 DEF Dispatch
  <2> HIDE DEF to
  <2> QED
    BY <1>1, <2>1, <2>2, <2>3, UpdateKeepsInv DEF Continuations
<1>3. CASE MarkStockOut(r)
  <2>1. /\ order' = [order EXCEPT !.recorded = TRUE]
        /\ UNCHANGED <<payment, escrow, processed, stockOut>>
        /\ Goto(r, Idle)
    BY <1>3 DEF MarkStockOut, Finish
  <2>2. RowsTypeOK' /\ RowsInv' /\ FlagsStay /\ (payment'.farmer => payment.buyer)
    BY <1>1, <2>1 DEF Inv, TypeOK, OrderInv, RowsTypeOK, RowsInv, FlagsStay,
       PaidBeforeFulfilment, CheckedBeforeCollection, StockOutBeforeCollection
  <2> QED
    BY <2>1, <2>2, IdleType, StepKeepsInv DEF GoodStep
<1> QED
  BY <1>2, <1>3

LEMMA BuyerSteps ==
    ASSUME Inv, NEW r \in Requests, CollectWrite(r) \/ ConfirmDeliveryWrite(r)
    PROVE  GoodStep
<1>1. /\ UNCHANGED <<payment, escrow, processed, stockOut>>
      /\ Goto(r, Idle)
  BY DEF CollectWrite, ConfirmDeliveryWrite, Finish
<1>2. RowsTypeOK' /\ FlagsStay /\ (payment'.farmer => payment.buyer)
  BY <1>1 DEF CollectWrite, ConfirmDeliveryWrite, Inv, TypeOK, OrderInv, RowsTypeOK, RowsInv,
     FlagsStay, Statuses
<1>3. RowsInv'
  <2>1. CASE CollectWrite(r)
    <3>1. payment.buyer /\ payment.farmer /\ processed > 0 /\ stockOut
      BY <2>1 DEF CollectWrite, Inv, OrderInv, Entitled
    <3> QED
      BY <1>1, <2>1, <3>1 DEF CollectWrite, Inv, TypeOK, RowsTypeOK, OrderInv, RowsInv,
         PaidBeforeFulfilment, CheckedBeforeCollection, StockOutBeforeCollection
  <2>2. CASE ConfirmDeliveryWrite(r)
    BY <1>1, <2>2 DEF ConfirmDeliveryWrite, Inv, TypeOK, RowsTypeOK, OrderInv, RowsInv,
       PaidBeforeFulfilment, CheckedBeforeCollection, StockOutBeforeCollection, Fulfilling,
       HandedOut
  <2> QED
    BY <2>1, <2>2
<1> QED
  BY <1>1, <1>2, <1>3, IdleType, StepKeepsInv DEF GoodStep

\* Every write of a payment keeps the confirmations it finds, and adds the
\* farmer's only to the buyer's.
LEMMA PaymentRows ==
    ASSUME Inv, payment' \in [status : PaymentStatuses \cup {"none"}, buyer : BOOLEAN,
                              farmer : BOOLEAN],
           payment.buyer => payment'.buyer, payment.farmer => payment'.farmer,
           payment'.farmer => payment.buyer,
           escrow' \in {"none", "SECURED", "RELEASED", "DISPUTED"},
           UNCHANGED <<order, processed, stockOut>>
    PROVE  RowsTypeOK' /\ RowsInv' /\ FlagsStay
BY DEF Inv, TypeOK, OrderInv, RowsTypeOK, RowsInv, FlagsStay, PaidBeforeFulfilment,
   CheckedBeforeCollection, StockOutBeforeCollection

\* What follows the write of a payment: nothing, or an update to a status that
\* only READY_TO_PROCESS needs entitlement for.
LEMMA PaymentWriteKeepsInv ==
    ASSUME Inv, NEW r \in Requests, NEW to \in {"PAYMENT_SECURED", "READY_TO_PROCESS"},
           Goto(r, Idle) \/ Goto(r, Update(to, "party", "none")),
           RowsTypeOK' /\ RowsInv' /\ FlagsStay, payment'.farmer => payment.buyer,
           to = "READY_TO_PROCESS" => payment'.buyer /\ payment'.farmer
    PROVE  GoodStep
<1>1. CASE Goto(r, Idle)
  BY <1>1, IdleType, StepKeepsInv DEF GoodStep
<1>2. CASE Goto(r, Update(to, "party", "none"))
  <2> DEFINE u == Update(to, "party", "none")
  <2>1. u \in Request /\ u.op = "update" /\ u.to = to /\ u.next = "none"
    BY UpdateType DEF Targets, Statuses, Roles, Continuations
  <2>2. Entitled(u, payment'.buyer, payment'.farmer, processed' > 0, stockOut')
    BY <2>1 DEF Entitled, Fulfilling, HandedOut
  <2> QED
    BY <1>2, <2>1, <2>2, StepKeepsInv DEF GoodStep
<1> QED
  BY <1>1, <1>2

LEMMA PaymentSteps ==
    ASSUME Inv, NEW r \in Requests,
           \/ SetPaymentWrite(r) \/ FindPayment(r) \/ SecurePayment(r)
           \/ InsertPayment(r) \/ FarmerConfirmWrite(r)
    PROVE  GoodStep
<1>1. /\ payment \in [status : PaymentStatuses \cup {"none"}, buyer : BOOLEAN,
                      farmer : BOOLEAN]
      /\ escrow \in {"none", "SECURED", "RELEASED", "DISPUTED"}
      /\ payment.farmer => payment.buyer
  BY DEF Inv, TypeOK, RowsTypeOK, OrderInv, RowsInv
<1>2. \A to : EscrowTrigger(to) => escrow' \in {"none", "SECURED", "RELEASED", "DISPUTED"}
  BY <1>1 DEF EscrowTrigger
<1>3. CASE SetPaymentWrite(r)
  <2>1. request[r].to \in ApiPaymentStatuses
    <3>1. request[r] \in Request /\ request[r].op = "setPayment"
      BY <1>3 DEF SetPaymentWrite, Inv, TypeOK
    <3> QED
      BY <3>1 DEF Request, UpdateRequest, Updating, DispatchRequest, PaymentRequest,
         PlainRequest
  <2>2. /\ payment' = [payment EXCEPT !.status = request[r].to]
        /\ escrow' \in {"none", "SECURED", "RELEASED", "DISPUTED"}
        /\ UNCHANGED <<order, processed, stockOut>>
        /\ Goto(r, Idle) \/ Goto(r, Update("PAYMENT_SECURED", "party", "none"))
    BY <1>2, <1>3 DEF SetPaymentWrite, Finish
  <2>3. RowsTypeOK' /\ RowsInv' /\ FlagsStay /\ (payment'.farmer => payment.buyer)
    BY <1>1, <2>1, <2>2, PaymentRows DEF ApiPaymentStatuses
  <2> QED
    BY <2>2, <2>3, PaymentWriteKeepsInv
<1>4. CASE FindPayment(r)
  BY <1>4, PlainKeepsInv DEF FindPayment
<1>5. CASE SecurePayment(r)
  <2>1. /\ payment' = [payment EXCEPT !.status = "SECURED", !.buyer = TRUE]
        /\ escrow' \in {"none", "SECURED", "RELEASED", "DISPUTED"}
        /\ UNCHANGED <<order, processed, stockOut>>
        /\ Goto(r, Update("PAYMENT_SECURED", "party", "none"))
    BY <1>2, <1>5 DEF SecurePayment
  <2>2. RowsTypeOK' /\ RowsInv' /\ FlagsStay /\ (payment'.farmer => payment.buyer)
    BY <1>1, <2>1, PaymentRows DEF PaymentStatuses
  <2> QED
    BY <2>1, <2>2, PaymentWriteKeepsInv
<1>6. CASE InsertPayment(r)
  <2>1. /\ \/ payment' = payment
           \/ payment' = [payment EXCEPT !.status = "SECURED", !.buyer = TRUE]
        /\ UNCHANGED <<order, escrow, processed, stockOut>>
        /\ Goto(r, Idle) \/ Goto(r, Update("PAYMENT_SECURED", "party", "none"))
    BY <1>6 DEF InsertPayment, Finish
  <2>2. RowsTypeOK' /\ RowsInv' /\ FlagsStay /\ (payment'.farmer => payment.buyer)
    BY <1>1, <2>1, PaymentRows DEF PaymentStatuses
  <2> QED
    BY <2>1, <2>2, PaymentWriteKeepsInv
<1>7. CASE FarmerConfirmWrite(r)
  <2>1. payment.buyer
    BY <1>7 DEF FarmerConfirmWrite, Inv, OrderInv, Entitled
  <2>2. /\ payment' = [payment EXCEPT !.status = "CONFIRMED_BY_FARMER", !.farmer = TRUE]
        /\ UNCHANGED <<order, escrow, processed, stockOut>>
        /\ Goto(r, Update("READY_TO_PROCESS", "party", "none"))
    BY <1>7 DEF FarmerConfirmWrite
  <2>3. RowsTypeOK' /\ RowsInv' /\ FlagsStay /\ (payment'.farmer => payment.buyer)
    BY <1>1, <2>1, <2>2, PaymentRows DEF PaymentStatuses
  <2>4. payment'.buyer /\ payment'.farmer
    BY <1>1, <2>1, <2>2
  <2> QED
    BY <2>2, <2>3, <2>4, PaymentWriteKeepsInv
<1> QED
  BY <1>3, <1>4, <1>5, <1>6, <1>7

LEMMA EscrowSteps ==
    ASSUME Inv, NEW r \in Requests, ReleaseEscrowWrite(r) \/ DisputeEscrowWrite(r)
    PROVE  GoodStep
<1>1. /\ escrow' \in {"RELEASED", "DISPUTED"}
      /\ Goto(r, Idle)
      /\ UNCHANGED <<order, payment, processed, stockOut>>
  BY DEF ReleaseEscrowWrite, DisputeEscrowWrite, Finish
<1>2. RowsTypeOK' /\ RowsInv' /\ FlagsStay /\ (payment'.farmer => payment.buyer)
  BY <1>1 DEF Inv, TypeOK, OrderInv, RowsTypeOK, RowsInv, FlagsStay, PaidBeforeFulfilment,
     CheckedBeforeCollection, StockOutBeforeCollection
<1> QED
  BY <1>1, <1>2, IdleType, StepKeepsInv DEF GoodStep

\* The actions that are one statement.
LEMMA RowSteps ==
    ASSUME Inv, (\E transport \in BOOLEAN : CreateOrder(transport)) \/ RequestTransport
                \/ CreatePayment
    PROVE  GoodStep
<1>1. RowsTypeOK' /\ UNCHANGED request
  BY DEF CreateOrder, RequestTransport, CreatePayment, Inv, TypeOK, RowsTypeOK, Statuses,
     PaymentStatuses
<1>2. FlagsStay /\ (payment'.farmer => payment.buyer)
  BY DEF CreateOrder, RequestTransport, CreatePayment, FlagsStay, Inv, TypeOK, RowsTypeOK,
     OrderInv, RowsInv
<1>3. RowsInv'
  BY DEF CreateOrder, RequestTransport, CreatePayment, Inv, TypeOK, RowsTypeOK,
     OrderInv, RowsInv, PaidBeforeFulfilment, CheckedBeforeCollection,
     StockOutBeforeCollection, Fulfilling, HandedOut
<1> QED
  BY <1>1, <1>2, <1>3, RowStepKeepsInv DEF GoodStep

-----------------------------------------------------------------------------
(* The theorems.                                                           *)

LEMMA InitEstablishesInv == Init => Inv
<1> SUFFICES ASSUME Init PROVE Inv
  OBVIOUS
<1>1. RowsTypeOK
  <2>1. order \in [status : Statuses \cup {"none"}, collected : BOOLEAN, recorded : BOOLEAN,
                   transport : BOOLEAN]
    BY DEF Init
  <2>2. payment \in [status : PaymentStatuses \cup {"none"}, buyer : BOOLEAN,
                     farmer : BOOLEAN]
    BY DEF Init
  <2>3. escrow = "none" /\ processed \in 0 .. 2
    BY DEF Init
  <2>4. stockOut \in BOOLEAN
    BY Zenon DEF Init
  <2> QED
    BY <2>1, <2>2, <2>3, <2>4 DEF RowsTypeOK
<1>2. request \in [Requests -> Request]
  BY IdleType DEF Init
<1>3. RowsInv
  BY DEF Init, RowsInv, PaidBeforeFulfilment, CheckedBeforeCollection,
     StockOutBeforeCollection, Fulfilling, HandedOut
<1>4. \A r \in Requests :
         Entitled(request[r], payment.buyer, payment.farmer, processed > 0, stockOut)
  BY DEF Init, Idle, Entitled, Updating
<1> QED
  BY <1>1, <1>2, <1>3, <1>4 DEF Inv, TypeOK, OrderInv

LEMMA NextIsGood == ASSUME Inv, Next PROVE GoodStep
<1>1. ASSUME NEW r \in Requests, UpdateStep(r)
      PROVE  GoodStep
  BY <1>1, UpdateReadStep, CheckPaymentStep, DeductStep, UpdateWriteStep DEF UpdateStep
<1>2. ASSUME NEW r \in Requests, HandlerStep(r)
      PROVE  GoodStep
  BY <1>1, <1>2, StockOutSteps, BuyerSteps, PaymentSteps, EscrowSteps DEF HandlerStep
<1>3. ASSUME NEW r \in Requests, Fail(r)
      PROVE  GoodStep
  BY <1>3, FinishKeepsInv DEF Fail
<1> QED
  BY <1>2, <1>3, OrderCallStep, PaymentCallStep, RowSteps DEF Next

LEMMA StutterKeepsInv == Inv /\ UNCHANGED vars => Inv'
BY DEF vars, Inv, TypeOK, RowsTypeOK, OrderInv, RowsInv, PaidBeforeFulfilment,
   CheckedBeforeCollection, StockOutBeforeCollection

\* Orders, payments and handlers are what their declarations say, and every
\* handler is entitled to the statement it is before.
THEOREM InvIsInvariant == Spec => []Inv
<1>1. Inv /\ [Next]_vars => Inv'
  BY NextIsGood, StutterKeepsInv DEF GoodStep
<1> QED
  BY InitEstablishesInv, <1>1, PTL DEF Spec

THEOREM TypeCorrect == Spec => []TypeOK
<1>1. Inv => TypeOK
  BY DEF Inv
<1> QED
  BY InvIsInvariant, <1>1, PTL

\* The invariant of the model-checked run, OrderInv, for every instance.
THEOREM EveryHandlerIsEntitled == Spec => []OrderInv
<1>1. Inv => OrderInv
  BY DEF Inv
<1> QED
  BY InvIsInvariant, <1>1, PTL

\* An order is prepared and handed out only when buyer and farmer have both
\* confirmed its payment, whoever bypasses the transition table.
THEOREM PaidFirst == Spec => []PaidBeforeFulfilment
<1>1. Inv => PaidBeforeFulfilment
  BY DEF Inv, OrderInv, RowsInv
<1> QED
  BY InvIsInvariant, <1>1, PTL

\* Nothing is prepared, released or collected without a handler having come through the
\* deduction of PROCESSING, which stops it when the batch holds too little; whoever
\* bypasses the transition table, and whatever the deduction then took.
THEOREM CheckedFirst == Spec => []CheckedBeforeCollection
<1>1. Inv => CheckedBeforeCollection
  BY DEF Inv, OrderInv, RowsInv
<1> QED
  BY InvIsInvariant, <1>1, PTL

\* An order is released and collected only with a stock-out on record.
THEOREM StockedOutFirst == Spec => []StockOutBeforeCollection
<1>1. Inv => StockOutBeforeCollection
  BY DEF Inv, OrderInv, RowsInv
<1> QED
  BY InvIsInvariant, <1>1, PTL

\* Neither confirmation of a payment is taken back, and the farmer's follows the
\* buyer's.
THEOREM ConfirmedForGood == Spec => ConfirmationsStay
<1>1. Inv /\ [Next]_vars =>
        [/\ payment.buyer => payment'.buyer
         /\ payment.farmer => payment'.farmer
         /\ payment'.farmer => payment.buyer]_vars
  BY NextIsGood DEF GoodStep, FlagsStay
<1> QED
  BY InvIsInvariant, <1>1, PTL DEF Spec, ConfirmationsStay

-----------------------------------------------------------------------------
(* Handlers that run one at a time: what a handler read still holds when   *)
(* it writes.                                                              *)

OneAtATime == \A r, s \in Requests : r = s

LEMMA Alone ==
    ASSUME Inv, OneAtATime, NEW r \in Requests
    PROVE  /\ \A s \in Requests : s = r
           /\ \A q : Goto(r, q) => request'[r] = q
           /\ request[r] \in Request
BY DEF Inv, TypeOK, Goto, OneAtATime

LEMMA InvStays == Inv /\ [Next]_vars => Inv'
BY NextIsGood, StutterKeepsInv DEF GoodStep

\* READY_TO_PROCESS is written once, for the farmer's one confirmation; who goes by it has
\* not processed, and who processed from it is about to write PROCESSING.
TakesOnce(q) ==
    /\ q.op = "farmerConfirm" => ~payment.farmer
    /\ q.op \in Updating /\ q.to = "READY_TO_PROCESS" => processed = 0
    /\ q.op \in {"update", "deduct"} /\ q.to = "PROCESSING" => processed = 0
    /\ q.op = "deduct" => q.to = "PROCESSING"
    /\ order.status = "READY_TO_PROCESS" /\ processed > 0 => q.op = "write" /\ q.to = "PROCESSING"

Deductions ==
    /\ ProcessedOnce
    /\ processed > 0 => payment.farmer
    /\ \A r \in Requests : TakesOnce(request[r])

\* A step that has nothing to do with either status.
LEMMA NoDeduction ==
    ASSUME Inv, OneAtATime, Deductions, NEW r \in Requests, NEW q, request'[r] = q,
           processed' = processed, payment'.farmer = payment.farmer,
           order'.status = "READY_TO_PROCESS" =>
               /\ order.status = "READY_TO_PROCESS"
               /\ ~(request[r].op = "write" /\ request[r].to = "PROCESSING"),
           q.op \notin {"deduct", "farmerConfirm"},
           q.op \in Updating => q.to \notin {"READY_TO_PROCESS", "PROCESSING"}
    PROVE  Deductions'
<1>1. TakesOnce(request[r])
  BY DEF Deductions
<1>2. ~(order'.status = "READY_TO_PROCESS" /\ processed > 0)
  BY <1>1 DEF TakesOnce
<1>3. TakesOnce(request[r])'
  BY <1>2 DEF TakesOnce, Updating
<1> QED
  BY <1>3, Alone DEF Deductions, ProcessedOnce

LEMMA UpdateDeducts ==
    ASSUME Inv, OneAtATime, Deductions, NEW r \in Requests, UpdateStep(r)
    PROVE  Deductions'
<1>1. /\ request[r] \in Request /\ request[r].op \in Updating /\ TakesOnce(request[r])
      /\ EntitledNow(request[r])
  BY DEF Inv, TypeOK, OrderInv, EntitledNow, UpdateStep, UpdateRead, CheckPayment, Deduct,
         UpdateWrite, Updating, Deductions
<1>2. PICK q : q = request[r]
  OBVIOUS
<1>3. \A op \in Updating : At(q, op).op = op /\ At(q, op).to = q.to
  BY <1>1, <1>2, AtType
<1>4. CASE UpdateRead(r)
  <2>1. UNCHANGED rows /\ q.op = "update"
    BY <1>2, <1>4 DEF UpdateRead
  <2>2. ~(order.status = "READY_TO_PROCESS" /\ processed > 0)
    BY <1>1, <1>2, <2>1 DEF TakesOnce
  <2>3. \/ request'[r] = Idle
        \/ /\ request'[r].op \in Updating /\ request'[r].to = q.to
           /\ request'[r].op \in {"deduct", "write"} =>
                  (request'[r].op = "deduct" <=> q.to = "PROCESSING")
    BY <1>2, <1>3, <1>4, Alone DEF UpdateRead, Throw, Finish, Updating
  <2>4. TakesOnce(request[r])'
    BY <1>1, <1>2, <2>1, <2>2, <2>3 DEF TakesOnce, rows, Idle, Updating
  <2> QED
    BY <2>1, <2>4, Alone DEF Deductions, ProcessedOnce, rows
<1>5. CASE CheckPayment(r)
  <2>1. UNCHANGED rows /\ q.op = "checkPayment" /\ q.to = "IN_TRANSIT"
    BY <1>1, <1>2, <1>5 DEF CheckPayment, EntitledNow, Entitled
  <2>2. request'[r] = Idle \/ (request'[r].op = "write" /\ request'[r].to = "IN_TRANSIT")
    BY <1>2, <1>3, <1>5, <2>1, Alone DEF CheckPayment, Throw, Finish, Updating
  <2> QED
    BY <1>2, <2>1, <2>2, NoDeduction DEF rows, Idle, Updating
<1>6. CASE Deduct(r)
  <2>1. /\ q.op = "deduct" /\ q.to = "PROCESSING" /\ processed = 0 /\ payment.farmer
        /\ UNCHANGED <<order, payment>>
    BY <1>1, <1>2, <1>6 DEF Deduct, TakesOnce, EntitledNow, Entitled, Updating, Fulfilling
  <2>2. CASE processed' = processed /\ Throw(r)
    <3>1. request'[r] = Idle
      BY <2>2, Alone DEF Throw, Finish
    <3> QED
      BY <1>2, <2>1, <2>2, <3>1, NoDeduction DEF Idle, Updating
  <2>3. CASE processed' = 1 /\ Goto(r, At(q, "write"))
    <3>1. request'[r].op = "write" /\ request'[r].to = "PROCESSING"
      BY <1>3, <2>1, <2>3, Alone DEF Updating
    <3>2. TakesOnce(request[r])'
      BY <3>1 DEF TakesOnce
    <3> QED
      BY <2>1, <2>3, <3>2, Alone DEF Deductions, ProcessedOnce
  <2> QED
    BY <1>2, <1>6, <2>1, <2>2, <2>3 DEF Deduct
<1>7. CASE UpdateWrite(r)
  <2>1. q.op = "write" /\ UNCHANGED <<payment, processed>>
    BY <1>2, <1>7 DEF UpdateWrite
  <2>2. CASE q.to \notin Statuses
    <3>1. request'[r] = Idle /\ order' = order /\ q.to # "PROCESSING"
      BY <1>2, <1>7, <2>2, Alone DEF UpdateWrite, Throw, Finish, Statuses
    <3> QED
      BY <1>2, <2>1, <3>1, NoDeduction DEF Idle, Updating
  <2>3. CASE q.to \in Statuses
    <3>1. order'.status = q.to /\ Continue(r)
      BY <1>2, <1>7, <2>3 DEF UpdateWrite, Inv, TypeOK, RowsTypeOK
    <3>2. q.next \in Continuations
      BY <1>1, <1>2, AtType DEF UpdateRequest
    <3>3. \/ request'[r].op \in {"idle", "mark"}
          \/ /\ request'[r].op = "update"
             /\ request'[r].to \in {"QUALITY_APPROVED", "QUALITY_REJECTED"}
      <4>1. CASE q.next = "none"
        BY <1>2, <3>1, <4>1, Alone DEF Continue, Finish, Idle
      <4>2. CASE q.next = "mark"
        BY <1>2, <3>1, <4>2, Alone DEF Continue
      <4>3. CASE q.next \in {"QUALITY_APPROVED", "QUALITY_REJECTED"}
        BY <1>2, <3>1, <4>3, Alone DEF Continue, Update
      <4> QED
        BY <3>2, <4>1, <4>2, <4>3 DEF Continuations
    <3>4. ~(order'.status = "READY_TO_PROCESS" /\ processed > 0)
      BY <1>1, <1>2, <2>1, <3>1 DEF TakesOnce, Updating
    <3>5. TakesOnce(request[r])'
      BY <2>1, <3>3, <3>4 DEF TakesOnce, Updating
    <3> QED
      BY <2>1, <3>5, Alone DEF Deductions, ProcessedOnce
  <2> QED
    BY <2>2, <2>3
<1> QED
  BY <1>4, <1>5, <1>6, <1>7 DEF UpdateStep

\* Processing starts from READY_TO_PROCESS, and no handler is about to leave it.
LEMMA OrderCallDeducts ==
    ASSUME Inv, OneAtATime, Deductions, NEW r \in Requests, OrderCall(r)
    PROVE  Deductions'
<1>1. request[r] = Idle /\ UNCHANGED <<order, payment, processed>>
  BY DEF OrderCall, AskStatus, StartProcessing, MarkReadyForCollection, StockIn,
         StockOutInsert, CreateQualityCheck, CollectRead, ConfirmDeliveryRead, Begin, rows
<1>2. CASE StartProcessing(r)
  <2>1. request'[r] = Update("PROCESSING", "staff", "none") /\ order.status = "READY_TO_PROCESS"
    BY <1>2, Alone DEF StartProcessing, Begin
  <2>2. TakesOnce(request[r])
    BY DEF Deductions
  <2>3. ~(processed > 0) /\ processed = 0
    BY <1>1, <2>1, <2>2 DEF TakesOnce, Idle, Inv, TypeOK, RowsTypeOK
  <2>4. TakesOnce(request[r])'
    BY <1>1, <2>1, <2>3 DEF TakesOnce, Update, Updating
  <2> QED
    BY <1>1, <2>4, Alone DEF Deductions, ProcessedOnce
<1>3. CASE ~StartProcessing(r)
  <2> DEFINE Other == /\ request'[r].op \notin {"deduct", "farmerConfirm"}
                      /\ request'[r].op \in Updating =>
                             request'[r].to \notin {"READY_TO_PROCESS", "PROCESSING"}
  <2>1. ASSUME NEW to \in Targets, NEW who \in Callers, AskStatus(r, to, who)
        PROVE  Other
    BY <2>1, Alone, OrderAssumption DEF AskStatus, Begin, ApiStatuses, Update
  <2>2. ASSUME MarkReadyForCollection(r)
        PROVE  Other
    BY <2>2, Alone DEF MarkReadyForCollection, Begin, Update
  <2>3. ASSUME NEW who \in Callers, StockIn(r, who) \/ StockOutInsert(r, who)
        PROVE  Other
    BY <2>3, Alone DEF StockIn, StockOutInsert, Begin, Update, Updating
  <2>4. ASSUME NEW verdict \in Statuses, NEW who \in Callers, CreateQualityCheck(r, verdict, who)
        PROVE  Other
    BY <2>4, Alone DEF CreateQualityCheck, Begin, Update
  <2>5. ASSUME CollectRead(r) \/ ConfirmDeliveryRead(r)
        PROVE  Other
    BY <2>5, Alone DEF CollectRead, ConfirmDeliveryRead, Begin, Updating
  <2>6. Other
    BY <1>3, <2>1, <2>2, <2>3, <2>4, <2>5 DEF OrderCall
  <2>7. request[r].op # "write"
    BY <1>1 DEF Idle
  <2> QED
    BY <1>1, <2>7, <2>6, NoDeduction
<1> QED
  BY <1>2, <1>3

\* The farmer confirms once, before anything is processed.
LEMMA PaymentDeducts ==
    ASSUME Inv, OneAtATime, Deductions, NEW r \in Requests,
           \/ PaymentCall(r) \/ SetPaymentWrite(r) \/ FindPayment(r) \/ SecurePayment(r)
           \/ InsertPayment(r) \/ FarmerConfirmWrite(r) \/ ReleaseEscrowWrite(r)
           \/ DisputeEscrowWrite(r)
    PROVE  Deductions'
<1>1. /\ UNCHANGED <<order, processed>> /\ request[r].op # "write" /\ request[r].op \notin Updating
      /\ TakesOnce(request[r])
  <2>1. UNCHANGED <<order, processed>>
    <3>1. CASE PaymentCall(r)
      BY <3>1 DEF PaymentCall, SetPaymentRead, ConfirmPaymentRead, FarmerConfirmRead,
                  ReleaseEscrowRead, DisputeEscrowRead, rows
    <3>2. CASE ~PaymentCall(r)
      BY <3>2 DEF SetPaymentWrite, FindPayment, SecurePayment, InsertPayment, FarmerConfirmWrite,
                  ReleaseEscrowWrite, DisputeEscrowWrite, rows
    <3> QED
      BY <3>1, <3>2
  <2>2. request[r].op \in {"idle", "setPayment", "findPayment", "securePayment", "insertPayment",
                           "farmerConfirm", "release", "dispute"}
    <3>1. CASE PaymentCall(r)
      <4>1. request[r] = Idle
        BY <3>1 DEF PaymentCall, SetPaymentRead, ConfirmPaymentRead, FarmerConfirmRead,
                    ReleaseEscrowRead, DisputeEscrowRead, Begin
      <4> QED
        BY <4>1 DEF Idle
    <3>2. CASE ~PaymentCall(r)
      BY <3>2 DEF SetPaymentWrite, FindPayment, SecurePayment, InsertPayment, FarmerConfirmWrite,
                  ReleaseEscrowWrite, DisputeEscrowWrite
    <3> QED
      BY <3>1, <3>2
  <2> QED
    BY <2>1, <2>2 DEF Updating, Deductions
<1>2. ~(order.status = "READY_TO_PROCESS" /\ processed > 0)
  BY <1>1 DEF TakesOnce
<1>3. CASE FarmerConfirmRead(r)
  <2>1. request'[r] = [op |-> "farmerConfirm"] /\ ~payment.farmer /\ payment' = payment
    BY <1>3, Alone DEF FarmerConfirmRead, Begin, rows
  <2>2. TakesOnce(request[r])'
    BY <1>1, <1>2, <2>1 DEF TakesOnce, Updating
  <2> QED
    BY <1>1, <2>1, <2>2, Alone DEF Deductions, ProcessedOnce
<1>4. CASE FarmerConfirmWrite(r)
  <2>1. /\ request'[r] = Update("READY_TO_PROCESS", "party", "none")
        /\ payment'.farmer = TRUE
    BY <1>4, Alone DEF FarmerConfirmWrite, Inv, TypeOK, RowsTypeOK
  <2>2. processed = 0
    BY <1>1, <1>4 DEF FarmerConfirmWrite, TakesOnce, Deductions, Inv, TypeOK, RowsTypeOK
  <2>3. TakesOnce(request[r])'
    BY <1>1, <2>1, <2>2 DEF TakesOnce, Update, Updating
  <2> QED
    BY <1>1, <2>1, <2>3, Alone DEF Deductions, ProcessedOnce
<1>5. CASE ~FarmerConfirmRead(r) /\ ~FarmerConfirmWrite(r)
  <2>1. payment'.farmer = payment.farmer
    BY <1>5 DEF PaymentCall, SetPaymentRead, ConfirmPaymentRead, ReleaseEscrowRead,
       DisputeEscrowRead, SetPaymentWrite, FindPayment, SecurePayment, InsertPayment,
       ReleaseEscrowWrite, DisputeEscrowWrite, rows, Inv, TypeOK, RowsTypeOK
  <2>2. \/ \E to, was : Goto(r, [op |-> "setPayment", to |-> to, was |-> was])
        \/ \E op \in {"findPayment", "insertPayment", "securePayment", "release", "dispute",
                      "idle"} : Goto(r, [op |-> op])
        \/ Goto(r, Update("PAYMENT_SECURED", "party", "none"))
    BY <1>5 DEF PaymentCall, SetPaymentRead, ConfirmPaymentRead, ReleaseEscrowRead,
       DisputeEscrowRead, SetPaymentWrite, FindPayment, SecurePayment, InsertPayment,
       ReleaseEscrowWrite, DisputeEscrowWrite, Begin, Finish, Idle
  <2>3. /\ request'[r].op \notin {"deduct", "farmerConfirm"}
        /\ request'[r].op \in Updating =>
               request'[r].to \notin {"READY_TO_PROCESS", "PROCESSING"}
    BY <2>2, Alone DEF Update, Goto, Updating
  <2> QED
    BY <1>1, <2>1, <2>3, NoDeduction
<1> QED
  BY <1>3, <1>4, <1>5

LEMMA DeductsInTurn ==
    ASSUME Inv, OneAtATime, ~Errors, Deductions, Next
    PROVE  Deductions'
<1>1. CASE (\E transport \in BOOLEAN : CreateOrder(transport)) \/ RequestTransport \/ CreatePayment
  <2>1. /\ UNCHANGED <<request, processed>> /\ payment'.farmer = payment.farmer
        /\ order'.status # "READY_TO_PROCESS" \/ order'.status = order.status
    BY <1>1 DEF CreateOrder, RequestTransport, CreatePayment, Inv, TypeOK, RowsTypeOK
  <2> QED
    BY <2>1 DEF Deductions, ProcessedOnce, TakesOnce
<1>2. ASSUME NEW r \in Requests,
             Dispatch(r) \/ MarkStockOut(r) \/ CollectWrite(r) \/ ConfirmDeliveryWrite(r)
      PROVE  Deductions'
  <2>1. /\ UNCHANGED <<payment, processed>> /\ request[r].op # "write"
        /\ order'.status # "READY_TO_PROCESS" \/ order'.status = order.status
    BY <1>2 DEF Dispatch, MarkStockOut, CollectWrite, ConfirmDeliveryWrite, rows, Inv, TypeOK,
                RowsTypeOK
  <2>2. \/ request'[r] = Idle
        \/ /\ request'[r].op = "update"
           /\ request'[r].to \in {"RELEASED", "OUT_FOR_DELIVERY"}
    <3>1. CASE Dispatch(r)
      BY <3>1, Alone DEF Dispatch, Update
    <3>2. CASE ~Dispatch(r)
      BY <1>2, <3>2, Alone DEF MarkStockOut, CollectWrite, ConfirmDeliveryWrite, Finish
    <3> QED
      BY <3>1, <3>2
  <2>3. /\ request'[r].op \notin {"deduct", "farmerConfirm"}
        /\ request'[r].op \in Updating =>
               request'[r].to \notin {"READY_TO_PROCESS", "PROCESSING"}
    BY <2>2 DEF Idle, Updating
  <2> QED
    BY <2>1, <2>3, NoDeduction
<1> QED
  BY <1>1, <1>2, UpdateDeducts, OrderCallDeducts, PaymentDeducts DEF Next, HandlerStep, Fail

\* As long as handlers run one at a time and none of them fails, an order comes through
\* the deduction of PROCESSING once: it is not taken back to READY_TO_PROCESS.
THEOREM ProcessedOnceInTurn ==
    ASSUME OneAtATime, ~Errors
    PROVE  Spec => []ProcessedOnce
<1>1. Init => Deductions
  BY DEF Init, Idle, Deductions, ProcessedOnce, TakesOnce, Updating
<1>2. Inv /\ Deductions /\ [Next]_vars => Deductions'
  <2>1. Deductions /\ UNCHANGED vars => Deductions'
    BY DEF vars, Deductions, ProcessedOnce, TakesOnce
  <2> QED
    BY <2>1, DeductsInTurn
<1>3. Deductions => ProcessedOnce
  BY DEF Deductions
<1> QED
  BY <1>1, <1>2, <1>3, InvIsInvariant, PTL DEF Spec

\* Who is to write a status found that the order may be taken further; who is not held to
\* the table found an order in progress.
Finds(q) ==
    /\ q.op \in {"checkPayment", "deduct", "write", "collect", "complete"} =>
           order.status # "CANCELLED"
    /\ q.op \in Updating => \/ q.who = "party"
                            \/ q.next = "none" /\ order.status # "CANCELLED"
    /\ q.op = "dispatch" => q.who = "party"

Findings == \A r \in Requests : Finds(request[r])

StaysCancelled == order.status = "CANCELLED" => order'.status = "CANCELLED"

\* A handler that is on nothing that depends on the status.
LEMMA FindsAnyway ==
    ASSUME Inv, OneAtATime, NEW r \in Requests,
           request'[r].op \notin {"checkPayment", "deduct", "write", "collect", "complete"},
           request'[r].op \in Updating \cup {"dispatch"} => request'[r].who = "party"
    PROVE  Findings'
<1>1. Finds(request[r])'
  BY DEF Finds, Updating
<1> QED
  BY <1>1, Alone DEF Findings

\* The table takes no caller out of CANCELLED.
LEMMA UpdateFinds ==
    ASSUME Inv, OneAtATime, Findings, NEW r \in Requests, UpdateStep(r)
    PROVE  Findings' /\ StaysCancelled
<1>1. /\ request[r] \in Request /\ request[r].op \in Updating /\ Finds(request[r])
  BY DEF Inv, TypeOK, UpdateStep, UpdateRead, CheckPayment, Deduct, UpdateWrite, Updating, Findings
<1>2. PICK q : q = request[r]
  OBVIOUS
<1>3. \A op \in Updating : /\ At(q, op).op = op /\ At(q, op).who = q.who
                           /\ At(q, op).next = q.next
  BY <1>1, <1>2, AtType
<1>4. ASSUME order' = order, order.status # "CANCELLED" \/ request'[r].op \in {"idle"},
             \/ request'[r] = Idle
             \/ /\ request'[r].op \in Updating /\ request'[r].who = q.who
                /\ request'[r].next = q.next
      PROVE  Findings' /\ StaysCancelled
  <2>1. Finds(request[r])'
    BY <1>1, <1>2, <1>4 DEF Finds, Idle, Updating
  <2> QED
    BY <1>4, <2>1, Alone DEF Findings, StaysCancelled
<1>5. CASE UpdateRead(r)
  <2>1. order' = order /\ q.op = "update"
    BY <1>2, <1>5 DEF UpdateRead, rows
  <2>2. CASE Throw(r)
    BY <1>4, <2>1, <2>2, Alone DEF Throw, Finish, Idle
  <2>3. CASE ~Throw(r)
    <3>1. q.to \in validStatusTransitions[order.status] \/ Bypasses(q.who)
      BY <1>2, <1>5, <2>3 DEF UpdateRead
    <3>2. validStatusTransitions["CANCELLED"] = {}
      BY DEF validStatusTransitions, Statuses
    <3>3. order.status # "CANCELLED"
      BY <1>1, <1>2, <3>1, <3>2 DEF Finds, Bypasses
    <3>4. /\ request'[r].op \in Updating /\ request'[r].who = q.who
          /\ request'[r].next = q.next
      BY <1>2, <1>3, <1>5, <2>3, Alone DEF UpdateRead, Updating
    <3> QED
      BY <1>4, <2>1, <3>3, <3>4
  <2> QED
    BY <2>2, <2>3
<1>6. CASE CheckPayment(r) \/ Deduct(r)
  <2>1. order' = order /\ order.status # "CANCELLED"
    BY <1>1, <1>6 DEF CheckPayment, Deduct, rows, Finds
  <2>2. request'[r] = Idle \/ request'[r] = At(q, "write")
    BY <1>2, <1>6, Alone DEF CheckPayment, Deduct, Throw, Finish
  <2> QED
    BY <1>3, <1>4, <2>1, <2>2 DEF Updating
<1>7. CASE UpdateWrite(r)
  <2>1. order.status # "CANCELLED"
    BY <1>1, <1>7 DEF UpdateWrite, Finds
  <2>2. CASE Finish(r)
    <3>1. request'[r].op = "idle"
      BY <2>2, Alone DEF Finish, Idle
    <3> QED
      BY <2>1, <3>1, FindsAnyway DEF StaysCancelled, Updating
  <2>3. CASE Continue(r) /\ q.next # "none"
    <3>1. q.next \in Continuations /\ q.who = "party"
      BY <1>1, <1>2, <2>3, AtType DEF UpdateRequest, Finds
    <3>2. request'[r].op = "mark" \/ (request'[r].op = "update" /\ request'[r].who = "party")
      <4>1. CASE q.next = "mark"
        BY <1>2, <2>3, <4>1, Alone DEF Continue
      <4>2. CASE q.next \in {"QUALITY_APPROVED", "QUALITY_REJECTED"}
        BY <1>2, <2>3, <3>1, <4>2, Alone DEF Continue, Update
      <4> QED
        BY <2>3, <3>1, <4>1, <4>2 DEF Continuations
    <3> QED
      BY <2>1, <3>2, FindsAnyway DEF StaysCancelled, Updating
  <2> QED
    BY <1>2, <1>7, <2>2, <2>3 DEF UpdateWrite, Throw, Continue
<1> QED
  BY <1>5, <1>6, <1>7 DEF UpdateStep

LEMMA OrderCallFinds ==
    ASSUME Inv, OneAtATime, Callers \subseteq {"party"}, Findings, NEW r \in Requests, OrderCall(r)
    PROVE  Findings' /\ StaysCancelled
<1>1. order' = order /\ StaysCancelled
  BY DEF OrderCall, AskStatus, StartProcessing, MarkReadyForCollection, StockIn, StockOutInsert,
         CreateQualityCheck, CollectRead, ConfirmDeliveryRead, rows, StaysCancelled
<1>2. CASE \/ StartProcessing(r) \/ MarkReadyForCollection(r)
           \/ CollectRead(r) \/ ConfirmDeliveryRead(r)
  <2>1. order.status # "CANCELLED"
    BY <1>2 DEF StartProcessing, MarkReadyForCollection, CollectRead, ConfirmDeliveryRead
  <2>2. \/ request'[r].op \in {"collect", "complete"}
        \/ request'[r].op = "update" /\ request'[r].next = "none"
    <3>1. CASE StartProcessing(r) \/ MarkReadyForCollection(r)
      BY <3>1, Alone DEF StartProcessing, MarkReadyForCollection, Begin, Update
    <3>2. CASE CollectRead(r) \/ ConfirmDeliveryRead(r)
      BY <3>2, Alone DEF CollectRead, ConfirmDeliveryRead, Begin
    <3> QED
      BY <1>2, <3>1, <3>2
  <2>3. Finds(request[r])'
    BY <1>1, <2>1, <2>2 DEF Finds, Updating
  <2> QED
    BY <1>1, <2>3, Alone DEF Findings
<1>3. ASSUME NEW who \in Callers,
             \/ \E to \in Targets : AskStatus(r, to, who)
             \/ StockIn(r, who) \/ StockOutInsert(r, who)
             \/ \E verdict \in Statuses : CreateQualityCheck(r, verdict, who)
      PROVE  Findings'
  <2> DEFINE Party == request'[r].op \in {"update", "dispatch"} /\ request'[r].who = "party"
  <2>1. who = "party"
    OBVIOUS
  <2>2. ASSUME NEW to \in Targets, AskStatus(r, to, who)
        PROVE  Party
    BY <2>1, <2>2, Alone DEF AskStatus, Begin, Update
  <2>3. ASSUME NEW verdict \in Statuses, CreateQualityCheck(r, verdict, who)
        PROVE  Party
    BY <2>1, <2>3, Alone DEF CreateQualityCheck, Begin, Update
  <2>4. ASSUME StockIn(r, who) \/ StockOutInsert(r, who)
        PROVE  Party
    BY <2>1, <2>4, Alone DEF StockIn, StockOutInsert, Begin, Update
  <2>5. Party
    BY <1>3, <2>2, <2>3, <2>4
  <2> QED
    BY <2>5, FindsAnyway DEF Updating
<1> QED
  BY <1>1, <1>2, <1>3 DEF OrderCall

\* Payments leave the order alone, and ask for its next status as a party to it.
LEMMA PaymentFinds ==
    ASSUME Inv, OneAtATime, NEW r \in Requests,
           \/ PaymentCall(r) \/ SetPaymentWrite(r) \/ FindPayment(r) \/ SecurePayment(r)
           \/ InsertPayment(r) \/ FarmerConfirmWrite(r) \/ ReleaseEscrowWrite(r)
           \/ DisputeEscrowWrite(r)
    PROVE  Findings' /\ StaysCancelled
<1>1. order' = order
  <2>1. CASE PaymentCall(r)
    BY <2>1 DEF PaymentCall, SetPaymentRead, ConfirmPaymentRead, FarmerConfirmRead,
                ReleaseEscrowRead, DisputeEscrowRead, rows
  <2>2. CASE ~PaymentCall(r)
    BY <2>2 DEF SetPaymentWrite, FindPayment, SecurePayment, InsertPayment, FarmerConfirmWrite,
                ReleaseEscrowWrite, DisputeEscrowWrite, rows
  <2> QED
    BY <2>1, <2>2
<1>2. \/ \E to, was : Goto(r, [op |-> "setPayment", to |-> to, was |-> was])
      \/ \E op \in {"findPayment", "insertPayment", "securePayment", "farmerConfirm", "release",
                    "dispute", "idle"} : Goto(r, [op |-> op])
      \/ \E to : Goto(r, Update(to, "party", "none"))
  BY DEF PaymentCall, SetPaymentRead, ConfirmPaymentRead, FarmerConfirmRead, ReleaseEscrowRead,
     DisputeEscrowRead, SetPaymentWrite, FindPayment, SecurePayment, InsertPayment,
     FarmerConfirmWrite, ReleaseEscrowWrite, DisputeEscrowWrite, Begin, Finish, Idle
<1>3. \/ request'[r].op \in {"setPayment", "findPayment", "insertPayment", "securePayment",
                             "farmerConfirm", "release", "dispute", "idle"}
      \/ request'[r].op = "update" /\ request'[r].who = "party"
  BY <1>2, Alone DEF Update, Goto
<1> QED
  BY <1>1, <1>3, FindsAnyway DEF StaysCancelled, Updating

LEMMA CancelsInTurn ==
    ASSUME Inv, OneAtATime, Callers \subseteq {"party"}, Findings, Next
    PROVE  Findings' /\ StaysCancelled
<1>1. CASE (\E transport \in BOOLEAN : CreateOrder(transport)) \/ RequestTransport \/ CreatePayment
  <2>1. /\ UNCHANGED request
        /\ order'.status = order.status \/ (order.status = "none" /\ order'.status = "ORDER_PLACED")
    BY <1>1 DEF CreateOrder, RequestTransport, CreatePayment, Inv, TypeOK, RowsTypeOK
  <2> QED
    BY <2>1 DEF Findings, Finds, StaysCancelled
<1>2. ASSUME NEW r \in Requests, Dispatch(r)
      PROVE  Findings' /\ StaysCancelled
  <2>1. request[r].who = "party" /\ order' = order
    BY <1>2 DEF Findings, Finds, Dispatch, rows
  <2>2. request'[r].op = "update" /\ request'[r].who = "party"
    BY <1>2, <2>1, Alone DEF Dispatch, Update
  <2> QED
    BY <2>1, <2>2, FindsAnyway DEF StaysCancelled, Updating
<1>3. ASSUME NEW r \in Requests,
             MarkStockOut(r) \/ CollectWrite(r) \/ ConfirmDeliveryWrite(r) \/ Fail(r)
      PROVE  Findings' /\ StaysCancelled
  <2>1. request'[r].op = "idle"
    BY <1>3, Alone DEF MarkStockOut, CollectWrite, ConfirmDeliveryWrite, Fail, Finish, Idle
  <2>2. StaysCancelled
    BY <1>3 DEF MarkStockOut, CollectWrite, ConfirmDeliveryWrite, Fail, rows, Findings, Finds,
       StaysCancelled, Inv, TypeOK, RowsTypeOK
  <2> QED
    BY <2>1, <2>2, FindsAnyway DEF Updating
<1> QED
  BY <1>1, <1>2, <1>3, UpdateFinds, OrderCallFinds, PaymentFinds DEF Next, HandlerStep

\* As long as handlers run one at a time, an order that buyer or farmer cancelled stays
\* cancelled, also for the handlers that bypass the table on their own account.
THEOREM CancelledInTurn ==
    ASSUME OneAtATime, Callers \subseteq {"party"}
    PROVE  Spec => CancelledIsFinal
<1>1. Init => Findings
  BY DEF Init, Idle, Findings, Finds, Updating
<1>2. Inv /\ Findings /\ [Next]_vars => Findings'
  <2>1. Findings /\ UNCHANGED vars => Findings'
    BY DEF vars, Findings, Finds
  <2> QED
    BY <2>1, CancelsInTurn
<1>3. Inv /\ Findings /\ [Next]_vars =>
          [order.status = "CANCELLED" => order'.status = "CANCELLED"]_vars
  BY CancelsInTurn DEF StaysCancelled
<1> QED
  BY <1>1, <1>2, <1>3, InvIsInvariant, PTL DEF Spec, CancelledIsFinal
=============================================================================
