--------------------------- MODULE OrderLifecycle ---------------------------
(***************************************************************************)
(* The life of one marketplace order with its payment and escrow           *)
(* (marketplace.service.ts, payment.service.ts, and the calls              *)
(* aggregation.service.ts makes when stock of the order moves).            *)
(*                                                                         *)
(* Everybody changes the status through updateOrderStatus: it reads the    *)
(* order, checks the caller and the transition, does what the new status   *)
(* asks for and writes the status by id, whatever it has become meanwhile. *)
(* Each action is one database statement with the checks around it;        *)
(* request[r] is what handler r carries over to its next statement:        *)
(* the status it is after (to), for whom (who), and what its caller goes   *)
(* on to do (next).  Callers of updateOrderStatus catch its errors.        *)
(*                                                                         *)
(* Orders meet only in stocks and listings (StockInventory).  The         *)
(* transport request that some statuses create belongs to the transport    *)
(* component; of it the order keeps the fulfilment type.  The API calls    *)
(* of transport.service.ts are those of a provider with IN_TRANSIT or      *)
(* DELIVERED.                                                              *)
(***************************************************************************)
EXTENDS Integers, OrderStatuses

CONSTANTS
    Requests,       \* handlers in flight at the same time
    Callers,        \* who calls the endpoints that do not look at the caller's role
    Asked,          \* the statuses that callers of the API ask for
    AskedPayment,   \* the payment statuses that callers of the API ask for
    Errors          \* TRUE: statements can fail and the server can restart

PaymentStatuses ==
    {"PENDING", "SECURED", "CONFIRMED_BY_FARMER", "RELEASED", "REFUNDED", "DISPUTED", "FAILED"}

ApiPaymentStatuses == PaymentStatuses \ {"CONFIRMED_BY_FARMER"}

\* The buyer or the farmer of the order, staff of the centre, a transport provider.
Roles == {"party", "staff", "provider"}

ASSUME OrderAssumption ==
    /\ Callers \subseteq Roles
    /\ Asked \subseteq ApiStatuses
    /\ AskedPayment \subseteq ApiPaymentStatuses
    /\ Errors \in BOOLEAN

VARIABLES
    order,      \* marketplace_orders: status, collected, stockOutRecorded, fulfillmentType
    payment,    \* payments: status, confirmedBy and farmerConfirmedBy
    escrow,     \* escrow_transactions: status, "none" for no row
    request,    \* handlers between two statements
    processed,  \* history: how often a handler came through the deduction; 2 is often
    stockOut    \* history: a STOCK_OUT transaction of the order exists

vars == <<order, payment, escrow, request, processed, stockOut>>

\* What the caller does after updateOrderStatus: nothing, mark the stock-out
\* (createStockOut), or write the verdict (createQualityCheck).
Continuations == {"none", "mark", "QUALITY_APPROVED", "QUALITY_REJECTED"}

Targets == Statuses \cup {"ORDER_REJECTED", "PAYMENT_CONFIRMED_BY_FARMER"}

\* updateOrderStatus before its read, its two checks and its write.
Updating == {"update", "checkPayment", "deduct", "write"}

UpdateRequest == [op : Updating, to : Targets, who : Roles, next : Continuations]

DispatchRequest == [op : {"dispatch"}, who : Roles]

PaymentRequest == [op : {"setPayment"}, to : ApiPaymentStatuses, was : PaymentStatuses]

PlainRequest ==
    [op : {"idle", "mark", "collect", "complete", "findPayment", "securePayment",
           "insertPayment", "farmerConfirm", "release", "dispute"}]

Request == UpdateRequest \cup DispatchRequest \cup PaymentRequest \cup PlainRequest

RowsTypeOK ==
    /\ order \in [status : Statuses \cup {"none"}, collected : BOOLEAN, recorded : BOOLEAN,
                  transport : BOOLEAN]
    /\ payment \in [status : PaymentStatuses \cup {"none"}, buyer : BOOLEAN, farmer : BOOLEAN]
    /\ escrow \in {"none", "SECURED", "RELEASED", "DISPUTED"}
    /\ processed \in 0 .. 2
    /\ stockOut \in BOOLEAN

TypeOK == RowsTypeOK /\ request \in [Requests -> Request]

Idle == [op |-> "idle"]

Init ==
    /\ order = [status |-> "none", collected |-> FALSE, recorded |-> FALSE, transport |-> FALSE]
    /\ payment = [status |-> "none", buyer |-> FALSE, farmer |-> FALSE]
    /\ escrow = "none"
    /\ request = [r \in Requests |-> Idle]
    /\ processed = 0
    /\ stockOut = FALSE

rows == <<order, payment, escrow, processed, stockOut>>

Goto(r, req) == request' = [request EXCEPT ![r] = req]

Begin(r, req) == request[r] = Idle /\ Goto(r, req)

Finish(r) == Goto(r, Idle)

\* Request q, now before statement op.
At(q, op) == [q EXCEPT !.op = op]

Update(to, who, next) == [op |-> "update", to |-> to, who |-> who, next |-> next]

\* createOrder
CreateOrder(transport) ==
    /\ order.status = "none"
    /\ order' = [order EXCEPT !.status = "ORDER_PLACED", !.transport = transport]
    /\ UNCHANGED <<payment, escrow, request, processed, stockOut>>

\* createTransportRequest: a transport request for the order makes it a delivery.
RequestTransport ==
    /\ order.status # "none"
    /\ ~order.transport
    /\ order' = [order EXCEPT !.transport = TRUE]
    /\ UNCHANGED <<payment, escrow, request, processed, stockOut>>

(***************************************************************************)
(* updateOrderStatus.                                                      *)
(***************************************************************************)

Bypasses(who) == who \in {"staff", "provider"}

\* An error of updateOrderStatus: its caller catches it and does no more with
\* the order, so that nothing is left to do.
Throw(r) == Finish(r)

UpdateRead(r) ==
    /\ request[r].op = "update"
    /\ LET q == request[r]
           allowed == q.to \in validStatusTransitions[order.status] \/ Bypasses(q.who)
       IN  \/ /\ ~allowed
              /\ Throw(r)
           \/ /\ allowed
              /\ Goto(r, At(q,
                     IF order.status = "PAYMENT_SECURED" /\ q.to = "IN_TRANSIT" /\ q.who # "staff"
                     THEN "checkPayment"
                     ELSE IF q.to = "PROCESSING" THEN "deduct" ELSE "write"))
    /\ UNCHANGED rows

\* Going from PAYMENT_SECURED to IN_TRANSIT takes the farmer's confirmation.
CheckPayment(r) ==
    /\ request[r].op = "checkPayment"
    /\ IF payment.status = "CONFIRMED_BY_FARMER" /\ payment.farmer
       THEN Goto(r, At(request[r], "write")) ELSE Throw(r)
    /\ UNCHANGED rows

\* PROCESSING takes the quantity from the listing and then from the batch of the order.
\* A batch that holds less makes updateOrderStatus throw, when the listing is already
\* written; every other failure, and a batch that is not in stock, is logged, and the
\* handler goes on.  So that it came through (processed) does not say that anything was
\* taken, and that it threw does not say that nothing was: what is taken is in
\* StockInventory.
Deduct(r) ==
    /\ request[r].op = "deduct"
    /\ \/ /\ processed' = IF processed < 2 THEN processed + 1 ELSE 2
          /\ Goto(r, At(request[r], "write"))
       \/ processed' = processed /\ Throw(r)
    /\ UNCHANGED <<order, payment, escrow, stockOut>>

\* What the caller does once updateOrderStatus is done.
Continue(r) ==
    CASE request[r].next = "none" -> Finish(r)
      [] request[r].next = "mark" -> Goto(r, [op |-> "mark"])
      [] OTHER -> Goto(r, Update(request[r].next, request[r].who, "none"))

\* A status that the enum of the column does not have is refused.
UpdateWrite(r) ==
    /\ request[r].op = "write"
    /\ IF request[r].to \in Statuses
       THEN /\ order' = [order EXCEPT !.status = request[r].to]
            /\ Continue(r)
       ELSE order' = order /\ Throw(r)
    /\ UNCHANGED <<payment, escrow, processed, stockOut>>

(***************************************************************************)
(* Callers of updateOrderStatus.                                           *)
(***************************************************************************)

\* PUT orders/:id/status, the transport service and the USSD menu, whose reject and
\* payment items ask for a status the enum does not have.
AskStatus(r, to, who) ==
    /\ order.status # "none"
    /\ \/ to \in Asked
       \/ to \in {"ORDER_REJECTED", "PAYMENT_CONFIRMED_BY_FARMER"} /\ who = "party"
    /\ Begin(r, Update(to, who, "none"))
    /\ UNCHANGED rows

\* Seeded fault: whatever its status, an order can be taken into processing.
StartProcessingUnchecked(r) ==
    /\ order.status # "none"
    /\ Begin(r, Update("PROCESSING", "staff", "none"))
    /\ UNCHANGED rows

StartProcessing(r) ==
    /\ order.status = "READY_TO_PROCESS"
    /\ Begin(r, Update("PROCESSING", "staff", "none"))
    /\ UNCHANGED rows

\* Seeded fault: an order need not be processed to be ready.
MarkReadyUnprocessed(r) ==
    /\ order.status \in {"READY_TO_PROCESS", "PROCESSING"}
    /\ Begin(r, Update("READY_FOR_COLLECTION", "staff", "none"))
    /\ UNCHANGED rows

MarkReadyForCollection(r) ==
    /\ order.status = "PROCESSING"
    /\ Begin(r, Update("READY_FOR_COLLECTION", "staff", "none"))
    /\ UNCHANGED rows

\* createStockIn for the order, once its stock is in.
StockIn(r, who) ==
    /\ order.status # "none"
    /\ Begin(r, Update("AT_AGGREGATION", who, "none"))
    /\ UNCHANGED rows

\* createStockOut for the order inserts its transaction ...
StockOutInsert(r, who) ==
    /\ order.status # "none"
    /\ stockOut' = TRUE
    /\ Begin(r, [op |-> "dispatch", who |-> who])
    /\ UNCHANGED <<order, payment, escrow, processed>>

\* Seeded fault: every stock-out is a release.
DispatchAlwaysReleases(r) ==
    /\ request[r].op = "dispatch"
    /\ Goto(r, Update("RELEASED", request[r].who, "mark"))
    /\ UNCHANGED rows

\* Seeded fault: a status that is none.
DispatchUnknownStatus(r) ==
    /\ request[r].op = "dispatch"
    /\ Goto(r, Update("DISPATCHED", request[r].who, "mark"))
    /\ UNCHANGED rows

\* ... then looks where the order stands ...
Dispatch(r) ==
    /\ request[r].op = "dispatch"
    /\ Goto(r, Update(IF order.status = "READY_FOR_COLLECTION" THEN "RELEASED"
                      ELSE "OUT_FOR_DELIVERY", request[r].who, "mark"))
    /\ UNCHANGED rows

\* ... and, when updateOrderStatus has not thrown, marks the stock-out.
MarkStockOut(r) ==
    /\ request[r].op = "mark"
    /\ order' = [order EXCEPT !.recorded = TRUE]
    /\ Finish(r)
    /\ UNCHANGED <<payment, escrow, processed, stockOut>>

CreateQualityCheck(r, verdict, who) ==
    /\ order.status # "none"
    /\ verdict \in {"QUALITY_APPROVED", "QUALITY_REJECTED"}
    /\ Begin(r, Update("QUALITY_CHECKED", who, verdict))
    /\ UNCHANGED rows

(***************************************************************************)
(* The buyer's own operations.                                             *)
(***************************************************************************)

\* Seeded fault: an order ready for collection can be collected.
CollectReadUnreleased(r) ==
    /\ order.status \in {"READY_FOR_COLLECTION", "RELEASED"}
    /\ Begin(r, [op |-> "collect"])
    /\ UNCHANGED rows

CollectRead(r) ==
    /\ order.status = "RELEASED"
    /\ Begin(r, [op |-> "collect"])
    /\ UNCHANGED rows

CollectWrite(r) ==
    /\ request[r].op = "collect"
    /\ order' = [order EXCEPT !.status = "COLLECTED", !.collected = TRUE]
    /\ Finish(r)
    /\ UNCHANGED <<payment, escrow, processed, stockOut>>

ConfirmDeliveryRead(r) ==
    /\ order.transport
    /\ order.status = "DELIVERED"
    /\ Begin(r, [op |-> "complete"])
    /\ UNCHANGED rows

ConfirmDeliveryWrite(r) ==
    /\ request[r].op = "complete"
    /\ order' = [order EXCEPT !.status = "COMPLETED"]
    /\ Finish(r)
    /\ UNCHANGED <<payment, escrow, processed, stockOut>>

(***************************************************************************)
(* Payment and escrow.                                                     *)
(***************************************************************************)

\* The trigger payment_escrow_creation: only an UPDATE to SECURED makes the escrow.
EscrowTrigger(to) ==
    escrow' = IF to = "SECURED" /\ payment.status # "SECURED" /\ escrow = "none"
              THEN "SECURED" ELSE escrow

CreatePayment ==
    /\ order.status # "none"
    /\ payment.status = "none"
    /\ payment' = [payment EXCEPT !.status = "PENDING"]
    /\ UNCHANGED <<order, escrow, request, processed, stockOut>>

SetPaymentRead(r, to) ==
    /\ payment.status # "none"
    /\ Begin(r, [op |-> "setPayment", to |-> to, was |-> payment.status])
    /\ UNCHANGED rows

SetPaymentWrite(r) ==
    /\ request[r].op = "setPayment"
    /\ payment' = [payment EXCEPT !.status = request[r].to]
    /\ EscrowTrigger(request[r].to)
    /\ IF request[r].to = "SECURED" /\ request[r].was # "SECURED"
       THEN Goto(r, Update("PAYMENT_SECURED", "party", "none")) ELSE Finish(r)
    /\ UNCHANGED <<order, processed, stockOut>>

\* confirmOrderPayment: the buyer says it is paid.
ConfirmPaymentRead(r) ==
    /\ order.status \in {"ORDER_ACCEPTED", "ORDER_PLACED"}
    /\ Begin(r, [op |-> "findPayment"])
    /\ UNCHANGED rows

FindPayment(r) ==
    /\ request[r].op = "findPayment"
    /\ Goto(r, [op |-> IF payment.status = "none" THEN "insertPayment" ELSE "securePayment"])
    /\ UNCHANGED rows

SecurePayment(r) ==
    /\ request[r].op = "securePayment"
    /\ payment' = [payment EXCEPT !.status = "SECURED", !.buyer = TRUE]
    /\ EscrowTrigger("SECURED")
    /\ Goto(r, Update("PAYMENT_SECURED", "party", "none"))
    /\ UNCHANGED <<order, processed, stockOut>>

\* payments.orderId is unique: a payment inserted meanwhile refuses this one.
InsertPayment(r) ==
    /\ request[r].op = "insertPayment"
    /\ IF payment.status = "none"
       THEN /\ payment' = [payment EXCEPT !.status = "SECURED", !.buyer = TRUE]
            /\ Goto(r, Update("PAYMENT_SECURED", "party", "none"))
       ELSE payment' = payment /\ Finish(r)
    /\ UNCHANGED <<order, escrow, processed, stockOut>>

\* Seeded fault: the farmer can confirm what the buyer has not.
FarmerConfirmReadUnpaid(r) ==
    /\ payment.status = "SECURED"
    /\ ~payment.farmer
    /\ Begin(r, [op |-> "farmerConfirm"])
    /\ UNCHANGED rows

FarmerConfirmRead(r) ==
    /\ payment.status = "SECURED"
    /\ payment.buyer
    /\ ~payment.farmer
    /\ Begin(r, [op |-> "farmerConfirm"])
    /\ UNCHANGED rows

FarmerConfirmWrite(r) ==
    /\ request[r].op = "farmerConfirm"
    /\ payment' = [payment EXCEPT !.status = "CONFIRMED_BY_FARMER", !.farmer = TRUE]
    /\ Goto(r, Update("READY_TO_PROCESS", "party", "none"))
    /\ UNCHANGED <<order, escrow, processed, stockOut>>

ReleaseEscrowRead(r) ==
    /\ escrow = "SECURED"
    /\ Begin(r, [op |-> "release"])
    /\ UNCHANGED rows

ReleaseEscrowWrite(r) ==
    /\ request[r].op = "release"
    /\ escrow' = "RELEASED"
    /\ Finish(r)
    /\ UNCHANGED <<order, payment, processed, stockOut>>

DisputeEscrowRead(r) ==
    /\ escrow \in {"SECURED", "RELEASED"}
    /\ Begin(r, [op |-> "dispute"])
    /\ UNCHANGED rows

DisputeEscrowWrite(r) ==
    /\ request[r].op = "dispute"
    /\ escrow' = "DISPUTED"
    /\ Finish(r)
    /\ UNCHANGED <<order, payment, processed, stockOut>>

\* A statement fails, here or in a notification, or the server restarts.
Fail(r) ==
    /\ Errors
    /\ request[r] # Idle
    /\ Finish(r)
    /\ UNCHANGED rows

-----------------------------------------------------------------------------

UpdateStep(r) == UpdateRead(r) \/ CheckPayment(r) \/ Deduct(r) \/ UpdateWrite(r)

\* The statements that follow the first one of a handler.
HandlerStep(r) ==
    \/ UpdateStep(r)
    \/ Dispatch(r)
    \/ MarkStockOut(r)
    \/ CollectWrite(r)
    \/ ConfirmDeliveryWrite(r)
    \/ SetPaymentWrite(r)
    \/ FindPayment(r)
    \/ SecurePayment(r)
    \/ InsertPayment(r)
    \/ FarmerConfirmWrite(r)
    \/ ReleaseEscrowWrite(r)
    \/ DisputeEscrowWrite(r)

OrderCall(r) ==
    \/ \E to \in Targets, who \in Callers : AskStatus(r, to, who)
    \/ StartProcessing(r)
    \/ MarkReadyForCollection(r)
    \/ \E who \in Callers :
          \/ StockIn(r, who)
          \/ StockOutInsert(r, who)
          \/ \E verdict \in Statuses : CreateQualityCheck(r, verdict, who)
    \/ CollectRead(r)
    \/ ConfirmDeliveryRead(r)

PaymentCall(r) ==
    \/ \E to \in AskedPayment : SetPaymentRead(r, to)
    \/ ConfirmPaymentRead(r)
    \/ FarmerConfirmRead(r)
    \/ ReleaseEscrowRead(r)
    \/ DisputeEscrowRead(r)

Next ==
    \/ \E transport \in BOOLEAN : CreateOrder(transport)
    \/ RequestTransport
    \/ CreatePayment
    \/ \E r \in Requests : HandlerStep(r) \/ OrderCall(r) \/ PaymentCall(r) \/ Fail(r)

Spec == Init /\ [][Next]_vars

\* Node runs every handler to its end: each of its awaits is answered.
FairSpec == Spec /\ \A r \in Requests : WF_vars(HandlerStep(r))

(***************************************************************************)
(* Properties.                                                             *)
(***************************************************************************)

\* The statuses of an order whose produce the centre prepares and hands out.
Fulfilling == {"READY_TO_PROCESS", "PROCESSING", "READY_FOR_COLLECTION", "RELEASED", "COLLECTED"}

HandedOut == {"RELEASED", "COLLECTED"}

\* The centre never prepares or hands out an order that buyer and farmer have
\* not both confirmed as paid, whoever bypasses the transition table and however
\* stale the status a handler goes by.
PaidBeforeFulfilment ==
    order.status \in Fulfilling \/ order.collected => payment.buyer /\ payment.farmer

\* Nothing is prepared, released or collected past the check of PROCESSING: some handler
\* came through the deduction, which stops it when the order's batch holds too little.
\* Whether it took anything is another matter (Deduct).
CheckedBeforeCollection ==
    order.status \in Fulfilling \ {"READY_TO_PROCESS"} \/ order.collected => processed > 0

\* An order is released, and collected, only with a stock-out on record.
StockOutBeforeCollection ==
    order.status \in HandedOut \/ order.collected => stockOut

\* Confirming a payment takes the buyer first, and neither is taken back.
ConfirmationsStay ==
    [][/\ payment.buyer => payment'.buyer
       /\ payment.farmer => payment'.farmer
       /\ payment'.farmer => payment.buyer]_vars

\* What a handler on its way to one of these statuses has seen: the buyer's and
\* the farmer's confirmation (b, f), the end of a deduction (d), the stock-out (s).
Entitled(q, b, f, d, s) ==
    /\ q.op \in Updating =>
          /\ q.to \in Fulfilling => b /\ f
          /\ q.to \in Fulfilling \ {"READY_TO_PROCESS", "PROCESSING"} => d
          /\ q.to \in HandedOut \/ q.next = "mark" => s
    /\ q.op = "checkPayment" => q.to = "IN_TRANSIT"
    /\ q.op = "write" /\ q.to = "PROCESSING" => d
    /\ q.op = "farmerConfirm" => b
    /\ q.op \in {"dispatch", "mark"} => s
    /\ q.op = "collect" => b /\ f /\ d /\ s

\* The inductive invariant: what a handler has seen still holds, since
\* confirmations, passed deductions and stock-outs stay.
RowsInv ==
    /\ PaidBeforeFulfilment
    /\ CheckedBeforeCollection
    /\ StockOutBeforeCollection
    /\ order.recorded => stockOut
    /\ payment.farmer => payment.buyer

OrderInv ==
    /\ RowsInv
    /\ \A r \in Requests :
          Entitled(request[r], payment.buyer, payment.farmer, processed > 0, stockOut)

(***************************************************************************)
(* What comments and messages of the code say, and what fails: mostly when *)
(* handlers overlap or stop half-way.  For handlers that run one at a time *)
(* OrderLifecycle_proofs has ProcessedOnce and CancelledIsFinal.           *)
(***************************************************************************)

\* create_escrow_on_payment_secured: a secured order payment has its escrow.
SecuredPaymentHasEscrow == payment.status = "SECURED" => escrow # "none"

\* An order comes through the deduction once.  A try that is refused for want of stock may
\* still have taken the quantity from the listing, and the next try takes it again.
ProcessedOnce == processed <= 1

\* A cancelled order stays cancelled: its transition list is empty.
CancelledIsFinal == [][order.status = "CANCELLED" => order'.status = "CANCELLED"]_vars

\* Only escrow that is SECURED is released.
ReleasesSecuredOnly == [][escrow' = "RELEASED" => escrow \in {"SECURED", "RELEASED"}]_vars

\* createStockOut marks the order even if its status could not be updated.
StockOutIsMarked == stockOut ~> order.recorded

\* The farmer's confirmation moves an order that waits for it on.
ConfirmationMovesOn ==
    payment.status = "CONFIRMED_BY_FARMER" ~>
        \/ order.status \notin {"ORDER_PLACED", "ORDER_ACCEPTED", "PAYMENT_SECURED"}
        \/ payment.status # "CONFIRMED_BY_FARMER"
=============================================================================
