---------------------------- MODULE Procurement ----------------------------
(***************************************************************************)
(* A buyer's call for produce and its answers (marketplace.service.ts):    *)
(* a sourcing request with supplier offers, or an RFQ with responses, up   *)
(* to the orders they are converted to.                                    *)
(*                                                                         *)
(* The two features are twins.  An offer is accepted, which makes its      *)
(* order and adds its quantity to what is fulfilled; a response is         *)
(* awarded, and converted by a further call.  createOrder can convert      *)
(* either, from whatever status.  Orders have unique columns for the       *)
(* offer, the response and the batch; triggers of the database keep the    *)
(* list of the awarded suppliers and the number of responses.              *)
(*                                                                         *)
(* An action is one statement with the checks around it; request[r] is     *)
(* what handler r remembers.  A handler that fails takes no further step.  *)
(* Quantities are in kilograms, into which the service converts tons       *)
(* (1000) and units (bags of 50).                                          *)
(***************************************************************************)
EXTENDS Quantities

CONSTANTS
    Answers,        \* ids of supplier offers and RFQ responses
    Farmers,        \* suppliers
    Batches,        \* batches in the inventory
    Owner,          \* Owner[b]: the farmer of batch b
    ListHasDefault, \* rfqs.awardedTo is empty at first, and not NULL (the migrations differ)
    Asked,          \* the quantities of calls
    Verdicts,       \* the statuses that a buyer gives to responses
    Requests,       \* handlers in flight at the same time
    None            \* no batch, or one that the inventory does not know

ASSUME ProcurementAssumption ==
    /\ IsFiniteSet(Answers)
    /\ IsFiniteSet(Requests)
    /\ Farmers # {}
    /\ Owner \in [Batches -> Farmers]
    /\ ListHasDefault \in BOOLEAN
    /\ Asked \subseteq Quantity
    /\ None \notin Batches

\* updateRFQResponseStatus takes any of these.
ResponseStatuses ==
    {"SUBMITTED", "UNDER_REVIEW", "SHORTLISTED", "AWARDED", "REJECTED", "WITHDRAWN"}

ASSUME VerdictsAssumption == Verdicts \subseteq ResponseStatuses

VARIABLES
    call,       \* the sourcing_requests or rfqs row
    answer,     \* supplier_offers or rfq_responses
    request     \* handlers between two statements

vars == <<call, answer, request>>

Kinds == {"sourcing", "rfq"}

CallStatuses ==
    {"DRAFT", "OPEN", "FULFILLED", "PUBLISHED", "EVALUATING", "AWARDED", "CLOSED", "CANCELLED"}

AnswerStatuses == ResponseStatuses \cup {"pending", "accepted", "converted"}

Total == 0 .. MaxQty * Cardinality(Answers)

\* An answer's order has a batch id of its own (createOrder) or the batch of the answer.
Orders == {"none", "own", "batch"}

\* What acceptSupplierOffer and createOrder remember of the sourcing request.
Seen == [fulfilled : Total, quantity : Quantity, status : CallStatuses]

Request ==
    [op : {"idle", "count"}]
    \cup [op : {"set"}, to : CallStatuses]
    \cup [op : {"edit"}, quantity : Quantity]
    \cup [op : {"submit"}, farmer : Farmers, batch : Batches \cup {None}, quantity : Quantity]
    \cup [op : {"accept", "order", "link", "fulfil"}, answer : Answers, seen : Seen]
    \cup [op : {"convert", "place", "follow", "look"}, answer : Answers]
    \cup [op : {"award"}, answer : Answers, left : SUBSET {"answer", "call"}]
    \cup [op : {"cancel"}, left : SUBSET {"answers", "call"}]

CallTypeOK ==
    call \in [kind : Kinds, status : CallStatuses \cup {"absent"}, quantity : Quantity,
              fulfilled : Total, awardedTo : SUBSET Farmers,
              totalResponses : 0 .. 2 * Cardinality(Answers)]

\* Every variable has its type: the fulfilled quantity and the number of responses stay
\* within what the answers can add.
TypeOK ==
    /\ CallTypeOK
    /\ answer \in [Answers -> [status : AnswerStatuses \cup {"absent"}, farmer : Farmers,
                               batch : Batches \cup {None}, quantity : Quantity, order : Orders]]
    /\ request \in [Requests -> Request]

Idle == [op |-> "idle"]

Init ==
    /\ \E kind \in Kinds :
           call = [kind |-> kind, status |-> "absent", quantity |-> 0, fulfilled |-> 0,
                   awardedTo |-> {}, totalResponses |-> 0]
    /\ answer = [a \in Answers |-> [status |-> "absent", farmer |-> CHOOSE f \in Farmers : TRUE,
                                    batch |-> None, quantity |-> 0, order |-> "none"]]
    /\ request = [r \in Requests |-> Idle]

Goto(r, req) == request' = [request EXCEPT ![r] = req]

Begin(r, req) == request[r] = Idle /\ Goto(r, req)

Finish(r) == Goto(r, Idle)

\* Handler r goes on to statement op.
Then(r, op) == Goto(r, [request[r] EXCEPT !.op = op])

Sourcing == call.kind = "sourcing" /\ call.status # "absent"

Rfq == call.kind = "rfq" /\ call.status # "absent"

Given == {a \in Answers : answer[a].status # "absent"}

(***************************************************************************)
(* The call.                                                               *)
(***************************************************************************)

CreateRFQ(quantity) ==
    /\ call.status = "absent" /\ call.kind = "rfq"
    /\ call' = [call EXCEPT !.status = "DRAFT", !.quantity = quantity]
    /\ UNCHANGED <<answer, request>>

\* A sourcing request may be published at once.
CreateSourcingRequest(quantity, status) ==
    /\ call.status = "absent" /\ call.kind = "sourcing"
    /\ status \in {"DRAFT", "OPEN"}
    /\ call' = [call EXCEPT !.status = status, !.quantity = quantity]
    /\ UNCHANGED <<answer, request>>

\* publishSourcingRequest and closeSourcingRequest look at the owner only.
SetSourcing(status) ==
    /\ Sourcing
    /\ status \in {"OPEN", "CLOSED"}
    /\ call' = [call EXCEPT !.status = status]
    /\ UNCHANGED <<answer, request>>

\* The statuses from which publishRFQ, setRFQEvaluating and closeRFQ may set theirs.
MaySet(from, to) ==
    \/ to = "PUBLISHED"  /\ from = "DRAFT"
    \/ to = "EVALUATING" /\ from = "PUBLISHED"
    \/ to = "CLOSED"     /\ from \notin {"CLOSED", "CANCELLED"}

SetRfqRead(r, to) ==
    /\ Rfq
    /\ MaySet(call.status, to)
    /\ Begin(r, [op |-> "set", to |-> to])
    /\ UNCHANGED <<call, answer>>

SetRfqWrite(r) ==
    /\ request[r].op = "set"
    /\ call' = [call EXCEPT !.status = request[r].to]
    /\ Finish(r)
    /\ UNCHANGED answer

\* updateRFQ takes a quantity in any status, updateSourcingRequest in a draft.
EditRead(r, quantity) ==
    /\ Rfq \/ (Sourcing /\ call.status = "DRAFT")
    /\ Begin(r, [op |-> "edit", quantity |-> quantity])
    /\ UNCHANGED <<call, answer>>

EditWrite(r) ==
    /\ request[r].op = "edit"
    /\ call' = [call EXCEPT !.quantity = request[r].quantity]
    /\ Finish(r)
    /\ UNCHANGED answer

(***************************************************************************)
(* Answers.                                                                *)
(***************************************************************************)

\* An offer may come without a batch, and none is looked up; a response needs a batch of
\* the supplier's and answers for the whole quantity.
SubmitRead(r, farmer, batch, quantity) ==
    /\ \/ Sourcing /\ call.status = "OPEN"
       \/ /\ Rfq /\ call.status = "PUBLISHED"
          /\ batch # None /\ Owner[batch] = farmer
          /\ quantity = call.quantity
    /\ Begin(r, [op |-> "submit", farmer |-> farmer, batch |-> batch, quantity |-> quantity])
    /\ UNCHANGED <<call, answer>>

\* The insert, with the trigger that counts a response.
SubmitWrite(r) ==
    /\ request[r].op = "submit"
    /\ Given # Answers
    /\ LET a == CHOOSE a \in Answers : a \notin Given     \* a fresh id
       IN  answer' = [answer EXCEPT ![a] =
               [status   |-> IF call.kind = "rfq" THEN "SUBMITTED" ELSE "pending",
                farmer   |-> request[r].farmer,
                batch    |-> request[r].batch,
                quantity |-> request[r].quantity,
                order    |-> "none"]]
    /\ IF call.kind = "rfq"
       THEN /\ call' = [call EXCEPT !.totalResponses = @ + 1]
            /\ Goto(r, [op |-> "count"])
       ELSE call' = call /\ Finish(r)

\* submitRFQResponse counts the response, too.
CountResponse(r) ==
    /\ request[r].op = "count"
    /\ call' = [call EXCEPT !.totalResponses = @ + 1]
    /\ Finish(r)
    /\ UNCHANGED answer

\* Seeded fault: the trigger does not take a supplier off the list.
AwardTriggerAddsOnly(a, to) ==
    LET f == answer[a].farmer
        awarded == /\ to = "AWARDED" /\ answer[a].status # "AWARDED"
                   /\ ListHasDefault /\ f \notin call.awardedTo
    IN  IF awarded
        THEN [call EXCEPT !.awardedTo = @ \cup {f}, !.status = "AWARDED"] ELSE call

\* The trigger rfq_awarded_to_update: what the call becomes when response a is set to a status.
\* A list that starts as NULL stays so: NOT (x = ANY (NULL)) never holds, and the trigger adds
\* nobody and leaves the status alone.
AwardTrigger(a, to) ==
    LET f == answer[a].farmer
        was == answer[a].status
    IN  IF to = "AWARDED" /\ was # "AWARDED" /\ ListHasDefault /\ f \notin call.awardedTo
        THEN [call EXCEPT !.awardedTo = @ \cup {f}, !.status = "AWARDED"]
        ELSE IF to # "AWARDED" /\ was = "AWARDED"
        THEN [call EXCEPT !.awardedTo = @ \ {f}]
        ELSE call

\* A response is set to a status, with the trigger.
SetAnswer(a, to) ==
    /\ answer' = [answer EXCEPT ![a].status = to]
    /\ call' = IF call.kind = "rfq" THEN AwardTrigger(a, to) ELSE call

\* updateRFQResponseStatus: any status, from any other.
SetResponse(a, to) ==
    /\ Rfq
    /\ a \in Given
    /\ answer[a].status # to
    /\ SetAnswer(a, to)
    /\ UNCHANGED request

\* awardRFQ, in whatever status, issues both its statements at once.
AwardRead(r, a) ==
    /\ Rfq
    /\ a \in Given
    /\ Begin(r, [op |-> "award", answer |-> a, left |-> {"answer", "call"}])
    /\ UNCHANGED <<call, answer>>

\* Statement w of those issued at once is done.
Did(r, w) ==
    Goto(r, IF request[r].left = {w} THEN Idle ELSE [request[r] EXCEPT !.left = @ \ {w}])

AwardWrite(r) ==
    /\ request[r].op = "award"
    /\ \/ /\ "answer" \in request[r].left
          /\ SetAnswer(request[r].answer, "AWARDED")
          /\ Did(r, "answer")
       \/ /\ "call" \in request[r].left
          /\ call' = [call EXCEPT !.status = "AWARDED"]
          /\ Did(r, "call")
          /\ UNCHANGED answer

\* cancelRFQ, too: the RFQ, and its responses with their triggers.
CancelRead(r) ==
    /\ Rfq
    /\ call.status \notin {"CLOSED", "CANCELLED", "AWARDED"}
    /\ Begin(r, [op |-> "cancel", left |-> {"answers", "call"}])
    /\ UNCHANGED <<call, answer>>

CancelWrite(r) ==
    /\ request[r].op = "cancel"
    /\ \/ /\ "answers" \in request[r].left
          /\ answer' = [a \in Answers |->
                           IF a \in Given THEN [answer[a] EXCEPT !.status = "WITHDRAWN"]
                           ELSE answer[a]]
          /\ call' = [call EXCEPT !.awardedTo =
                         @ \ {answer[a].farmer : a \in {b \in Given : answer[b].status = "AWARDED"}}]
          /\ Did(r, "answers")
       \/ /\ "call" \in request[r].left
          /\ call' = [call EXCEPT !.status = "CANCELLED"]
          /\ Did(r, "call")
          /\ UNCHANGED answer

(***************************************************************************)
(* Orders.                                                                 *)
(***************************************************************************)

\* marketplace_orders.batchId is unique.
BatchFree(b) == \A a \in Answers : answer[a].batch = b => answer[a].order # "batch"

\* The order of answer a is inserted, with the trigger that marks its offer converted.
InsertOrder(a, kind) ==
    answer' = [answer EXCEPT ![a].order = kind,
                             ![a].status = IF call.kind = "sourcing" THEN "converted" ELSE @]

\* acceptSupplierOffer.
AcceptRead(r, a) ==
    /\ Sourcing
    /\ answer[a].status = "pending"
    /\ Begin(r, [op |-> "accept", answer |-> a,
                 seen |-> [fulfilled |-> call.fulfilled, quantity |-> call.quantity,
                           status |-> call.status]])
    /\ UNCHANGED <<call, answer>>

\* The acceptance is written before the batch is looked at ...
AcceptWrite(r) ==
    /\ request[r].op = "accept"
    /\ answer' = [answer EXCEPT ![request[r].answer].status = "accepted"]
    /\ Then(r, "order")
    /\ UNCHANGED call

\* Seeded fault: the order is left to a later call.
AcceptWithoutOrder(r) ==
    /\ request[r].op = "order"
    /\ Finish(r)
    /\ UNCHANGED <<call, answer>>

\* ... and the order needs a batch that is known and has no order, nor the offer one.
AcceptOrder(r) ==
    /\ request[r].op = "order"
    /\ LET a == request[r].answer
       IN  IF answer[a].batch # None /\ answer[a].order = "none" /\ BatchFree(answer[a].batch)
           THEN InsertOrder(a, "batch") /\ Then(r, "link")
           ELSE answer' = answer /\ Finish(r)
    /\ UNCHANGED call

AcceptLink(r) ==
    /\ request[r].op = "link"
    /\ answer' = [answer EXCEPT ![request[r].answer].status = "converted"]
    /\ Then(r, "fulfil")
    /\ UNCHANGED call

\* Seeded fault: a status of the life cycle that the enum does not have.
FulfilPartly(r) ==
    /\ request[r].op = "fulfil"
    /\ LET seen == request[r].seen
           sum == seen.fulfilled + answer[request[r].answer].quantity
       IN  call' = [call EXCEPT !.fulfilled = sum,
                                !.status = IF sum >= seen.quantity THEN "FULFILLED"
                                           ELSE "PARTIALLY_FULFILLED"]
    /\ Finish(r)
    /\ UNCHANGED answer

\* What was seen fulfilled and the offer's quantity; the status is written, too.
Fulfil(r) ==
    /\ request[r].op = "fulfil"
    /\ LET seen == request[r].seen
           sum == seen.fulfilled + answer[request[r].answer].quantity
       IN  call' = [call EXCEPT !.fulfilled = sum,
                                !.status = IF sum >= seen.quantity THEN "FULFILLED"
                                           ELSE seen.status]
    /\ Finish(r)
    /\ UNCHANGED answer

\* convertRFQResponseToOrder.
ConvertRead(r, a) ==
    /\ Rfq
    /\ answer[a].status = "AWARDED"
    /\ Begin(r, [op |-> "convert", answer |-> a])
    /\ UNCHANGED <<call, answer>>

ConvertOrder(r) ==
    /\ request[r].op = "convert"
    /\ LET a == request[r].answer
       IN  IF answer[a].order = "none" /\ BatchFree(answer[a].batch)
           THEN InsertOrder(a, "batch") ELSE answer' = answer
    /\ Finish(r)
    /\ UNCHANGED call

\* createOrder names an offer or a response, whatever has become of it.
PlaceOrder(r, a) ==
    /\ a \in Given
    /\ Begin(r, [op |-> "place", answer |-> a])
    /\ UNCHANGED <<call, answer>>

\* Seeded fault: the column of the offer is not unique.
PlaceInsertAgain(r) ==
    /\ request[r].op = "place"
    /\ InsertOrder(request[r].answer, "own") /\ Then(r, "follow")
    /\ UNCHANGED call

\* The order's quantity is what the caller of createOrder gives; no order has one here.
PlaceInsert(r) ==
    /\ request[r].op = "place"
    /\ IF answer[request[r].answer].order = "none"
       THEN InsertOrder(request[r].answer, "own") /\ Then(r, "follow")
       ELSE answer' = answer /\ Finish(r)
    /\ UNCHANGED call

\* The response is AWARDED, the offer converted, and its request is to be looked at.
PlaceFollow(r) ==
    /\ request[r].op = "follow"
    /\ IF call.kind = "rfq"
       THEN SetAnswer(request[r].answer, "AWARDED") /\ Finish(r)
       ELSE SetAnswer(request[r].answer, "converted") /\ Then(r, "look")

PlaceLook(r) ==
    /\ request[r].op = "look"
    /\ Goto(r, [op |-> "fulfil", answer |-> request[r].answer,
                seen |-> [fulfilled |-> call.fulfilled, quantity |-> call.quantity,
                          status |-> call.status]])
    /\ UNCHANGED <<call, answer>>

-----------------------------------------------------------------------------

\* The statements that follow the first one of a handler.
HandlerStep(r) ==
    \/ SetRfqWrite(r)
    \/ EditWrite(r)
    \/ SubmitWrite(r)
    \/ CountResponse(r)
    \/ AwardWrite(r)
    \/ CancelWrite(r)
    \/ AcceptWrite(r)
    \/ AcceptOrder(r)
    \/ AcceptLink(r)
    \/ Fulfil(r)
    \/ ConvertOrder(r)
    \/ PlaceInsert(r)
    \/ PlaceFollow(r)
    \/ PlaceLook(r)

HandlerStart(r) ==
    \/ \E to \in {"PUBLISHED", "EVALUATING", "CLOSED"} : SetRfqRead(r, to)
    \/ \E q \in Asked : EditRead(r, q)
    \/ \E f \in Farmers, b \in Batches \cup {None}, q \in Quantity \ {0} : SubmitRead(r, f, b, q)
    \/ CancelRead(r)
    \/ \E a \in Answers :
           \/ AwardRead(r, a)
           \/ AcceptRead(r, a)
           \/ ConvertRead(r, a)
           \/ PlaceOrder(r, a)

Next ==
    \/ \E q \in Asked : CreateRFQ(q) \/ \E status \in CallStatuses : CreateSourcingRequest(q, status)
    \/ \E status \in CallStatuses : SetSourcing(status)
    \/ \E a \in Answers, to \in Verdicts : SetResponse(a, to)
    \/ \E r \in Requests : HandlerStart(r) \/ HandlerStep(r)

Spec == Init /\ [][Next]_vars

-----------------------------------------------------------------------------

Ordered == {a \in Answers : answer[a].order # "none"}

\* The fulfilled quantity is written as a sum of a value read before several awaits; it
\* may miss an offer, but never counts more than the quantities of the offers that have
\* become orders (what an order placed by createOrder is for, its caller says).
FulfilledIsOrdered ==
    call.fulfilled <= Load(Ordered, [a \in Answers |-> answer[a].quantity])

\* The trigger's list names only suppliers with an awarded response, whatever statements
\* of awards, cancellations and changes of status cross.
AwardedToAreAwarded ==
    \A f \in call.awardedTo :
        \E a \in Given : answer[a].farmer = f /\ answer[a].status = "AWARDED"

\* An accepted offer without an order is one whose handler is about to insert it, unless
\* its batch is unknown or has an order: nothing but a failure strands the others.
AcceptedIsOnItsWay ==
    \A a \in Answers :
        answer[a].status = "accepted" /\ answer[a].order = "none" =>
            \/ answer[a].batch = None
            \/ ~BatchFree(answer[a].batch)
            \/ \E r \in Requests : request[r].op = "order" /\ request[r].answer = a

\* The number of responses is that of the rows.
ResponsesCounted ==
    (\A r \in Requests : request[r] = Idle) =>
        (call.kind = "rfq" => call.totalResponses = Cardinality(Given))
=============================================================================
