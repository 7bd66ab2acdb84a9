------------------------- MODULE TransportRequests -------------------------
(***************************************************************************)
(* Transport requests of one marketplace order (transport.service.ts):     *)
(* who may create, accept and move them, and what they tell the order.     *)
(*                                                                         *)
(* An order gets a request from its buyer, when it is placed with          *)
(* transport, when its payment is confirmed and when it enters PROCESSING; *)
(* all go through createTransportRequest.  The status of a request is      *)
(* written first, and then passed on to the order by updateOrderStatus as  *)
(* the caller of the endpoint, whose refusal leaves the request as it is.  *)
(*                                                                         *)
(* As in OrderLifecycle an action is one statement with the checks around  *)
(* it and request[r] is what handler r remembers.  A handler that fails    *)
(* half-way, or is lost in a restart, is one that takes no further step.   *)
(* The rest of the system may write the statuses Moves to the order at any *)
(* time.                                                                   *)
(***************************************************************************)
EXTENDS OrderStatuses, FiniteSets

CONSTANTS
    Rows,           \* ids of transport requests
    Providers,      \* transport providers
    Requester,      \* the buyer, who requests transport
    Requests,       \* handlers in flight at the same time
    Kinds,          \* the types of transport that callers ask for
    Asked,          \* the request statuses that callers ask for (or REJECTED, by reject)
    Moves,          \* the order statuses that other components write
    None

Types == {"PRODUCE_PICKUP", "PRODUCE_DELIVERY", "INPUT_DELIVERY", "ORDER_DELIVERY"}

RequestStatuses ==
    {"PENDING", "ACCEPTED", "REJECTED", "IN_TRANSIT_PICKUP", "IN_TRANSIT_DELIVERY",
     "DELIVERED", "COMPLETED", "CANCELLED"}

Users == Providers \cup {Requester}

ASSUME TransportAssumption ==
    /\ Requester \notin Providers
    /\ None \notin Users
    /\ Kinds \subseteq Types
    /\ Asked \subseteq RequestStatuses
    /\ Moves \subseteq Statuses \ {"DELIVERED"}

VARIABLES
    order,      \* status and fulfilment type; history: released, and actualDeliveryDate set
    row,        \* transport_requests: status, type, provider, whether actualPickup is set,
                \* who set actualDelivery, who added tracking updates; history: every provider named
    request     \* handlers between two statements

vars == <<order, row, request>>

Absent ==
    [status |-> "absent", type |-> "ORDER_DELIVERY", provider |-> None, picked |-> FALSE,
     deliveredBy |-> None, trackers |-> {}, named |-> {}]

Row == [status : RequestStatuses \cup {"absent"}, type : Types, provider : Users \cup {None},
        picked : BOOLEAN, deliveredBy : Users \cup {None}, trackers : SUBSET Users,
        named : SUBSET Users]

Request ==
    [op : {"idle"}]
    \cup [op : {"find", "insert"}, type : Types]
    \cup [op : {"link"}]
    \cup [op : {"status"}, row : Rows, who : Users, to : RequestStatuses,
          was : RequestStatuses, provider : Users \cup {None}]
    \cup [op : {"accept", "track"}, row : Rows, who : Users]
    \cup [op : {"pass", "order"}, who : Users, to : {"IN_TRANSIT", "DELIVERED"}]

\* Every variable has its type; the columns of the enum hold values of the enum.
TypeOK ==
    /\ order \in [status : Statuses, transport : BOOLEAN, released : BOOLEAN, arrived : BOOLEAN]
    /\ row \in [Rows -> Row]
    /\ request \in [Requests -> Request]

Idle == [op |-> "idle"]

Init ==
    /\ \E transport \in BOOLEAN :
           order = [status |-> "ORDER_PLACED", transport |-> transport, released |-> FALSE,
                    arrived |-> FALSE]
    /\ row = [t \in Rows |-> Absent]
    /\ request = [r \in Requests |-> Idle]

Goto(r, req) == request' = [request EXCEPT ![r] = req]

Begin(r, req) == request[r] = Idle /\ Goto(r, req)

Finish(r) == Goto(r, Idle)

Live == {t \in Rows : row[t].status # "absent"}

(***************************************************************************)
(* createTransportRequest.                                                 *)
(***************************************************************************)

\* "prevent duplicates": no request of the order that is not cancelled.
NoneOpen == \A t \in Live : row[t].status = "CANCELLED"

\* POST transport/requests, and createOrder with transport.
Create(r, type) ==
    /\ NoneOpen
    /\ Begin(r, [op |-> "insert", type |-> type])
    /\ UNCHANGED <<order, row>>

\* Payment confirmation and PROCESSING ask for one if the order has none of any status.
CreateForOrder(r) ==
    /\ order.transport
    /\ Live = {}
    /\ Begin(r, [op |-> "find", type |-> "ORDER_DELIVERY"])
    /\ UNCHANGED <<order, row>>

FindOpen(r) ==
    /\ request[r].op = "find"
    /\ IF NoneOpen THEN Goto(r, [request[r] EXCEPT !.op = "insert"]) ELSE Finish(r)
    /\ UNCHANGED <<order, row>>

Insert(r) ==
    /\ request[r].op = "insert"
    /\ \E t \in Rows \ Live :
           row' = [row EXCEPT ![t] = [Absent EXCEPT !.status = "PENDING",
                                                    !.type = request[r].type]]
    /\ Goto(r, [op |-> "link"])
    /\ UNCHANGED order

\* The order becomes one with transport; an error is caught.
LinkOrder(r) ==
    /\ request[r].op = "link"
    /\ order' = [order EXCEPT !.transport = TRUE]
    /\ Finish(r)
    /\ UNCHANGED row

(***************************************************************************)
(* updateTransportRequestStatus, and the reject endpoint, which is         *)
(* updateTransportRequestStatus with REJECTED.                             *)
(***************************************************************************)

InTransit == {"IN_TRANSIT_PICKUP", "IN_TRANSIT_DELIVERY"}

Departs(was, to) == to \in InTransit /\ was \notin InTransit

Arrives(was, to) == to = "DELIVERED" /\ was # "DELIVERED"

\* Seeded fault: any provider may move a request that has one.
MayUpdateAny(t, who) == who = Requester \/ row[t].provider # None

MayUpdate(t, who) == who = Requester \/ row[t].provider = who

\* Seeded fault: an order is collected when it is ready, released or not.
StatusReadUnreleased(r, t, who, to, provider) ==
    /\ t \in Live
    /\ MayUpdate(t, who)
    /\ Begin(r, [op |-> "status", row |-> t, who |-> who, to |-> to,
                 was |-> row[t].status, provider |-> provider])
    /\ UNCHANGED <<order, row>>

StatusRead(r, t, who, to, provider) ==
    /\ t \in Live
    /\ MayUpdate(t, who)
    /\ row[t].type = "ORDER_DELIVERY" /\ Departs(row[t].status, to) => order.status = "RELEASED"
    /\ Begin(r, [op |-> "status", row |-> t, who |-> who, to |-> to,
                 was |-> row[t].status, provider |-> provider])
    /\ UNCHANGED <<order, row>>

\* Seeded fault: the order is not told that a delivery of produce arrived.
PassOnPickupsOnly(type, was, to) ==
    IF type \in {"PRODUCE_PICKUP", "ORDER_DELIVERY"} /\ Departs(was, to) THEN {"IN_TRANSIT"}
    ELSE {}

\* Seeded fault: an order counts as delivered once it is on its way.
PassOnEarly(type, was, to) ==
    IF type = "ORDER_DELIVERY" /\ (Departs(was, to) \/ Arrives(was, to)) THEN {"DELIVERED"}
    ELSE IF type = "PRODUCE_PICKUP" /\ Departs(was, to) THEN {"IN_TRANSIT"}
    ELSE IF type = "PRODUCE_DELIVERY" /\ Arrives(was, to) THEN {"DELIVERED"}
    ELSE {}

\* What the order is told of a change of a request's status.
PassOn(type, was, to) ==
    IF type \in {"PRODUCE_PICKUP", "ORDER_DELIVERY"} /\ Departs(was, to) THEN {"IN_TRANSIT"}
    ELSE IF type \in {"PRODUCE_DELIVERY", "ORDER_DELIVERY"} /\ Arrives(was, to) THEN {"DELIVERED"}
    ELSE {}

\* The status is written whatever the row has become since it was read.
StatusWrite(r) ==
    /\ request[r].op = "status"
    /\ LET q == request[r]
           t == q.row
           told == PassOn(row[t].type, q.was, q.to)
       IN  /\ row' = [row EXCEPT
                 ![t].status = q.to,
                 ![t].provider = IF q.provider = None THEN @ ELSE q.provider,
                 ![t].named = @ \cup ({q.provider} \ {None}),
                 ![t].picked = @ \/ Departs(q.was, q.to),
                 ![t].deliveredBy = IF Arrives(q.was, q.to) THEN q.who ELSE @]
           /\ \/ \E s \in told : Goto(r, [op |-> "pass", who |-> q.who, to |-> s])
              \/ told = {} /\ Finish(r)
    /\ UNCHANGED order

\* updateOrderStatus as the caller of the endpoint: providers bypass the table, and
\* PAYMENT_SECURED leaves for IN_TRANSIT only when the farmer has confirmed.  Its
\* errors are logged, or thrown when nothing is left to do.
OrderRead(r) ==
    /\ request[r].op = "pass"
    /\ LET q == request[r]
           allowed == q.who \in Providers \/ q.to \in validStatusTransitions[order.status]
       IN  \/ /\ allowed
              /\ Goto(r, [q EXCEPT !.op = "order"])
           \/ /\ ~allowed \/ (order.status = "PAYMENT_SECURED" /\ q.to = "IN_TRANSIT")
              /\ Finish(r)
    /\ UNCHANGED <<order, row>>

OrderWrite(r) ==
    /\ request[r].op = "order"
    /\ order' = [order EXCEPT !.status = request[r].to,
                              !.arrived = @ \/ request[r].to = "DELIVERED"]
    /\ Finish(r)
    /\ UNCHANGED row

(***************************************************************************)
(* acceptTransportRequest and addTrackingUpdate.                           *)
(***************************************************************************)

\* "Only pending requests can be accepted".
AcceptRead(r, t, who) ==
    /\ row[t].status = "PENDING"
    /\ Begin(r, [op |-> "accept", row |-> t, who |-> who])
    /\ UNCHANGED <<order, row>>

\* Seeded fault: a status that the enum does not have.
AcceptAsAssigned(r) ==
    /\ request[r].op = "accept"
    /\ row' = [row EXCEPT ![request[r].row].status = "ASSIGNED",
                          ![request[r].row].provider = request[r].who,
                          ![request[r].row].named = @ \cup {request[r].who}]
    /\ Finish(r)
    /\ UNCHANGED order

AcceptWrite(r) ==
    /\ request[r].op = "accept"
    /\ row' = [row EXCEPT ![request[r].row].status = "ACCEPTED",
                          ![request[r].row].provider = request[r].who,
                          ![request[r].row].named = @ \cup {request[r].who}]
    /\ Finish(r)
    /\ UNCHANGED order

TrackRead(r, t, who) ==
    /\ t \in Live
    /\ row[t].provider = who
    /\ Begin(r, [op |-> "track", row |-> t, who |-> who])
    /\ UNCHANGED <<order, row>>

TrackWrite(r) ==
    /\ request[r].op = "track"
    /\ row' = [row EXCEPT ![request[r].row].trackers = @ \cup {request[r].who}]
    /\ Finish(r)
    /\ UNCHANGED order

(***************************************************************************)
(* The rest of the system.                                                 *)
(***************************************************************************)

\* Other components write a status to the order (OrderLifecycle).
OrderMoves(s) ==
    /\ order.status # s
    /\ order' = [order EXCEPT !.status = s, !.released = @ \/ s = "RELEASED"]
    /\ UNCHANGED <<row, request>>

-----------------------------------------------------------------------------

\* The statements that follow the first one of a handler.
HandlerStep(r) ==
    \/ FindOpen(r)
    \/ Insert(r)
    \/ LinkOrder(r)
    \/ StatusWrite(r)
    \/ OrderRead(r)
    \/ OrderWrite(r)
    \/ AcceptWrite(r)
    \/ TrackWrite(r)

Next ==
    \/ \E r \in Requests :
           \/ HandlerStep(r)
           \/ CreateForOrder(r)
           \/ \E type \in Kinds : Create(r, type)
           \/ \E t \in Rows, who \in Users :
                  \/ AcceptRead(r, t, who)
                  \/ TrackRead(r, t, who)
                  \/ \E to \in Asked, p \in Providers \cup {None} :
                         StatusRead(r, t, who, to, p)
    \/ \E s \in Moves : OrderMoves(s)

Spec == Init /\ [][Next]_vars

\* A handler that began comes to its end.
FairSpec == Spec /\ \A r \in Requests : WF_vars(HandlerStep(r))

-----------------------------------------------------------------------------

\* The goods of an order leave with a delivery only after the centre released them:
\* the status is read with the row, several awaits before the departure is written.
PickedAfterRelease ==
    \A t \in Rows : row[t].type = "ORDER_DELIVERY" /\ row[t].picked => order.released

\* Transport tells an order that it is DELIVERED only when one of its requests has its
\* actual delivery on record.
ArrivedAfterDelivery ==
    order.arrived => \E t \in Rows : row[t].deliveredBy # None

\* However often a request changes hands, deliveries are recorded by the requester or by
\* someone who has been its provider, and tracking updates by its providers alone.
OnlyNamedAct ==
    \A t \in Rows :
        /\ row[t].deliveredBy \in row[t].named \cup {Requester, None}
        /\ row[t].trackers \subseteq row[t].named

\* A delivery that a provider records reaches the order, whose table does not bind him.
ProviderDeliveryReachesOrder ==
    \A t \in Rows :
        row[t].type \in {"PRODUCE_DELIVERY", "ORDER_DELIVERY"} /\ row[t].deliveredBy \in Providers
            ~> order.arrived

\* "Update order status when delivery is completed": the same for whoever records it.
DeliveryReachesOrder ==
    \A t \in Rows :
        row[t].type \in {"PRODUCE_DELIVERY", "ORDER_DELIVERY"} /\ row[t].deliveredBy # None
            ~> order.arrived
=============================================================================
