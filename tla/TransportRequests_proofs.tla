----------------------- MODULE TransportRequests_proofs -----------------------
(***************************************************************************)
(* Theorems about TransportRequests, for any numbers of requests,          *)
(* providers and handlers, and any statuses asked for and written by the   *)
(* rest of the system.                                                     *)
(*                                                                         *)
(* Every check is made in one statement and relied on in a later one, so   *)
(* the invariant says of each handler that what it checked still counts:   *)
(* nothing takes back a release, the record of who was named, or the       *)
(* record of a delivery.                                                   *)
(***************************************************************************)
EXTENDS TransportRequests, TLAPS

Delivered == \E t \in Rows : row[t].deliveredBy # None

\* What a handler with request q relies on.
Relies(q) ==
    /\ q.op \in {"status", "accept", "track"} => row[q.row].status # "absent"
    /\ q.op = "status" =>
           /\ q.who \in row[q.row].named \cup {Requester}
           /\ row[q.row].type = "ORDER_DELIVERY" /\ Departs(q.was, q.to) => order.released
    /\ q.op = "track" => q.who \in row[q.row].named
    /\ q.op \in {"pass", "order"} /\ q.to = "DELIVERED" => Delivered

\* A request that is not there has nothing on record; its provider has been named.
RowRecords ==
    \A t \in Rows :
        /\ row[t].status = "absent" => row[t] = Absent
        /\ row[t].provider \in row[t].named \cup {None}

Records ==
    /\ order.status = "RELEASED" => order.released
    /\ RowRecords
    /\ PickedAfterRelease
    /\ ArrivedAfterDelivery
    /\ OnlyNamedAct

Handlers == \A r \in Requests : Relies(request[r])

Inv == TypeOK /\ Records /\ Handlers

-----------------------------------------------------------------------------
(* What a step may not take back.                                          *)

\* The release of an order, and of a request its existence, its type, who was named on
\* it and the record of its delivery.
Kept ==
    /\ order.released => order'.released
    /\ \A t \in Rows :
           /\ row[t].status # "absent" => row'[t].status # "absent" /\ row'[t].type = row[t].type
           /\ row[t].named \subseteq row'[t].named
           /\ row[t].deliveredBy # None => row'[t].deliveredBy # None

LEMMA RequestFields ==
    ASSUME NEW q \in Request
    PROVE  /\ q.op \in {"find", "insert"} => q.type \in Types
           /\ q.op \in {"status", "accept", "track"} => q.row \in Rows /\ q.who \in Users
           /\ q.op = "status" => /\ q.to \in RequestStatuses /\ q.was \in RequestStatuses
                                 /\ q.provider \in Users \cup {None}
           /\ q.op \in {"pass", "order"} => q.who \in Users /\ q.to \in {"IN_TRANSIT", "DELIVERED"}
BY DEF Request

\* The requests that handlers go on to.
LEMMA RequestShapes ==
    /\ Idle \in Request /\ [op |-> "link"] \in Request
    /\ \A type \in Types, op \in {"find", "insert"} : [op |-> op, type |-> type] \in Request
    /\ \A t \in Rows, who \in Users :
           /\ \A op \in {"accept", "track"} : [op |-> op, row |-> t, who |-> who] \in Request
           /\ \A to \in RequestStatuses, was \in RequestStatuses, p \in Users \cup {None} :
                  [op |-> "status", row |-> t, who |-> who, to |-> to, was |-> was, provider |-> p]
                      \in Request
    /\ \A who \in Users, to \in {"IN_TRANSIT", "DELIVERED"}, op \in {"pass", "order"} :
           [op |-> op, who |-> who, to |-> to] \in Request
BY DEF Request, Idle

\* What a handler relies on stays when nothing is taken back.
LEMMA ReliesStays ==
    ASSUME Kept, NEW q \in Request, Relies(q)
    PROVE  Relies(q)'
<1>1. Delivered => Delivered'
  BY DEF Kept, Delivered
<1> QED
  BY <1>1, RequestFields DEF Kept, Relies

\* The order and its requests have their types.
Rowtypes ==
    /\ order \in [status : Statuses, transport : BOOLEAN, released : BOOLEAN, arrived : BOOLEAN]
    /\ row \in [Rows -> Row]

\* A step in which one handler goes on to a request that it may rely on.
LEMMA HandlerGoesOn ==
    ASSUME Inv, Rowtypes', Records', Kept, NEW r \in Requests,
           NEW q \in Request, Goto(r, q), Relies(q)'
    PROVE  Inv'
<1>1. request' = [request EXCEPT ![r] = q] /\ request \in [Requests -> Request]
  BY DEF Goto, Inv, TypeOK
<1>2. request' \in [Requests -> Request]
  BY <1>1
<1>3. ASSUME NEW s \in Requests
      PROVE  Relies(request[s])'
  <2>1. CASE s = r
    BY <1>1, <2>1 DEF Relies
  <2>2. CASE s # r
    BY <1>1, <2>2, ReliesStays DEF Relies, Inv, Handlers
  <2> QED
    BY <2>1, <2>2
<1> QED
  BY <1>2, <1>3 DEF Inv, TypeOK, Rowtypes, Handlers

\* A handler that is done.
LEMMA HandlerEnds ==
    ASSUME Inv, Rowtypes', Records', Kept, NEW r \in Requests, Finish(r)
    PROVE  Inv'
<1>1. Idle \in Request /\ Relies(Idle)'
  BY RequestShapes DEF Idle, Relies
<1> QED
  BY <1>1, HandlerGoesOn DEF Finish

\* Statements that write nothing.
LEMMA NothingWritten ==
    ASSUME Inv, UNCHANGED <<order, row>>
    PROVE  Rowtypes' /\ Records' /\ Kept
BY DEF Inv, TypeOK, Rowtypes, Records, RowRecords, PickedAfterRelease, ArrivedAfterDelivery,
       OnlyNamedAct, Kept

\* A statement that writes the row of a request, and takes nothing back.
LEMMA RowWritten ==
    ASSUME Inv, order' = order, NEW t \in Rows, NEW new \in Row, row' = [row EXCEPT ![t] = new],
           new.status # "absent",
           row[t].status # "absent" => new.type = row[t].type,
           row[t].named \subseteq new.named,
           row[t].deliveredBy # None => new.deliveredBy # None,
           new.provider \in new.named \cup {None},
           new.deliveredBy \in new.named \cup {Requester, None},
           new.trackers \subseteq new.named,
           new.type = "ORDER_DELIVERY" /\ new.picked => order.released
    PROVE  Rowtypes' /\ Records' /\ Kept
<1>1. row' \in [Rows -> Row] /\ \A u \in Rows : row'[u] = IF u = t THEN new ELSE row[u]
  BY DEF Inv, TypeOK
<1>2. Kept
  BY <1>1 DEF Kept
<1>3. Rowtypes'
  BY <1>1 DEF Inv, TypeOK, Rowtypes
<1>4. RowRecords'
  BY <1>1 DEF Inv, Records, RowRecords
<1>5. PickedAfterRelease'
  BY <1>1 DEF Inv, Records, PickedAfterRelease
<1>6. ArrivedAfterDelivery'
  BY <1>1, <1>2 DEF Inv, Records, ArrivedAfterDelivery, Kept
<1>7. OnlyNamedAct'
  BY <1>1 DEF Inv, Records, OnlyNamedAct
<1> QED
  BY <1>2, <1>3, <1>4, <1>5, <1>6, <1>7 DEF Records, Inv

\* A statement that writes the order, and does not take back its release.
LEMMA OrderWritten ==
    ASSUME Inv, row' = row, Rowtypes', order.released => order'.released,
           order'.status = "RELEASED" => order'.released,
           order'.arrived => order.arrived \/ Delivered
    PROVE  Records' /\ Kept
BY DEF Inv, Records, RowRecords, PickedAfterRelease, ArrivedAfterDelivery, OnlyNamedAct, Kept,
       Delivered

-----------------------------------------------------------------------------
(* The statements.                                                         *)

LEMMA CreateKeeps ==
    ASSUME Inv, NEW r \in Requests,
           CreateForOrder(r) \/ FindOpen(r) \/ \E type \in Kinds : Create(r, type)
    PROVE  Inv'
<1>1. UNCHANGED <<order, row>>
  BY DEF CreateForOrder, FindOpen, Create
<1>2. ASSUME NEW type \in Types, NEW op \in {"find", "insert"}, Goto(r, [op |-> op, type |-> type])
      PROVE  Inv'
  <2>1. [op |-> op, type |-> type] \in Request /\ Relies([op |-> op, type |-> type])'
    BY RequestShapes DEF Relies
  <2> QED
    BY <1>1, <1>2, <2>1, NothingWritten, HandlerGoesOn
<1>3. CASE CreateForOrder(r)
  BY <1>2, <1>3 DEF CreateForOrder, Begin, Types
<1>4. CASE FindOpen(r)
  <2>1. request[r].type \in Types /\ request[r] = [op |-> "find", type |-> request[r].type]
    BY <1>4 DEF FindOpen, Inv, TypeOK, Request
  <2>2. CASE Finish(r)
    BY <1>1, <2>2, NothingWritten, HandlerEnds
  <2>3. CASE Goto(r, [request[r] EXCEPT !.op = "insert"])
    <3>1. [request[r] EXCEPT !.op = "insert"] = [op |-> "insert", type |-> request[r].type]
      BY <2>1
    <3> QED
      BY <1>2, <2>1, <2>3, <3>1
  <2> QED
    BY <1>4, <2>2, <2>3 DEF FindOpen
<1>5. ASSUME NEW type \in Kinds, Create(r, type)
      PROVE  Inv'
  BY <1>2, <1>5, TransportAssumption DEF Create, Begin
<1> QED
  BY <1>3, <1>4, <1>5

LEMMA InsertKeeps ==
    ASSUME Inv, NEW r \in Requests, Insert(r)
    PROVE  Inv'
<1>1. PICK t \in Rows \ Live :
          row' = [row EXCEPT ![t] = [Absent EXCEPT !.status = "PENDING", !.type = request[r].type]]
  BY DEF Insert
<1>2. PICK new : new = [Absent EXCEPT !.status = "PENDING", !.type = request[r].type]
  OBVIOUS
<1>3. request[r].type \in Types
  BY RequestFields DEF Insert, Inv, TypeOK
<1>4. /\ new \in Row /\ new.status = "PENDING" /\ new.named = {} /\ new.trackers = {}
      /\ new.provider = None /\ new.deliveredBy = None /\ ~new.picked
  BY <1>2, <1>3 DEF Absent, Row, RequestStatuses
<1>5. row[t].status = "absent" /\ row[t].named = {} /\ row[t].deliveredBy = None
  BY DEF Live, Inv, Records, RowRecords, Absent
<1>6. Rowtypes' /\ Records' /\ Kept
  BY <1>1, <1>2, <1>4, <1>5, RowWritten DEF Insert
<1>7. [op |-> "link"] \in Request /\ Relies([op |-> "link"])'
  BY RequestShapes DEF Relies
<1> QED
  BY <1>6, <1>7, HandlerGoesOn DEF Insert

LEMMA LinkKeeps ==
    ASSUME Inv, NEW r \in Requests, LinkOrder(r)
    PROVE  Inv'
<1>1. /\ order'.status = order.status /\ order'.released = order.released
      /\ order'.arrived = order.arrived /\ Rowtypes'
  BY DEF LinkOrder, Inv, TypeOK, Rowtypes
<1> QED
  BY <1>1, OrderWritten, HandlerEnds DEF LinkOrder, Inv, Records

\* Whoever moves a request is its provider, or the requester; an order is on its way
\* once it is released.
LEMMA StatusReadKeeps ==
    ASSUME Inv, NEW r \in Requests, NEW t \in Rows, NEW who \in Users, NEW to \in Asked,
           NEW provider \in Providers \cup {None}, StatusRead(r, t, who, to, provider)
    PROVE  Inv'
<1>1. PICK q : q = [op |-> "status", row |-> t, who |-> who, to |-> to,
                    was |-> row[t].status, provider |-> provider]
  OBVIOUS
<1>2. row[t].status # "absent" /\ row[t] \in Row /\ UNCHANGED <<order, row>>
  BY DEF StatusRead, Live, Inv, TypeOK
<1>3. row[t].status \in RequestStatuses
  BY <1>2 DEF Row
<1>4. q \in Request
  BY <1>1, <1>3, RequestShapes, TransportAssumption DEF Users
<1>5. who \in row[t].named \cup {Requester}
  BY TransportAssumption DEF StatusRead, MayUpdate, Inv, Records, RowRecords
<1>6. row[t].type = "ORDER_DELIVERY" /\ Departs(row[t].status, to) => order.released
  BY DEF StatusRead, Inv, Records
<1>7. Relies(q)'
  BY <1>1, <1>2, <1>5, <1>6 DEF Relies
<1>8. Goto(r, q)
  BY <1>1 DEF StatusRead, Begin
<1> QED
  BY <1>2, <1>4, <1>7, <1>8, NothingWritten, HandlerGoesOn

\* What the status write leaves on record is what its handler relied on.
LEMMA StatusWriteKeeps ==
    ASSUME Inv, NEW r \in Requests, StatusWrite(r)
    PROVE  Inv'
<1>1. PICK q, t : q = request[r] /\ t = q.row
  OBVIOUS
<1>2. /\ q \in Request /\ q.op = "status" /\ t \in Rows /\ q.who \in Users
      /\ q.to \in RequestStatuses /\ q.provider \in Users \cup {None}
  BY <1>1, RequestFields DEF StatusWrite, Inv, TypeOK
<1>3. Relies(q) /\ row[t] \in Row
  BY <1>1, <1>2 DEF Inv, TypeOK, Handlers
<1>4. PICK new : new = [row[t] EXCEPT
            !.status = q.to,
            !.provider = IF q.provider = None THEN @ ELSE q.provider,
            !.named = @ \cup ({q.provider} \ {None}),
            !.picked = @ \/ Departs(q.was, q.to),
            !.deliveredBy = IF Arrives(q.was, q.to) THEN q.who ELSE @]
  OBVIOUS
<1>5. /\ new.status = q.to
      /\ new.type = row[t].type
      /\ new.provider = IF q.provider = None THEN row[t].provider ELSE q.provider
      /\ new.named = row[t].named \cup ({q.provider} \ {None})
      /\ new.picked = (row[t].picked \/ Departs(q.was, q.to))
      /\ new.deliveredBy = IF Arrives(q.was, q.to) THEN q.who ELSE row[t].deliveredBy
      /\ new.trackers = row[t].trackers
  BY <1>3, <1>4 DEF Row
<1>6. new \in Row
  BY <1>2, <1>3, <1>4 DEF Row, Departs
<1>7. row' = [row EXCEPT ![t] = new] /\ order' = order
  BY <1>1, <1>2, <1>4 DEF StatusWrite, Inv, TypeOK
<1>8. Rowtypes' /\ Records' /\ Kept
  <2>1. q.to # "absent"
    BY <1>2 DEF RequestStatuses
  <2>2. q.who # None
    BY <1>2, TransportAssumption
  <2>3. /\ row[t].provider \in row[t].named \cup {None}
        /\ row[t].deliveredBy \in row[t].named \cup {Requester, None}
        /\ row[t].trackers \subseteq row[t].named
        /\ row[t].type = "ORDER_DELIVERY" /\ row[t].picked => order.released
    BY <1>2 DEF Inv, Records, RowRecords, OnlyNamedAct, PickedAfterRelease
  <2>4. /\ q.who \in row[t].named \cup {Requester}
        /\ row[t].type = "ORDER_DELIVERY" /\ Departs(q.was, q.to) => order.released
    BY <1>1, <1>2, <1>3 DEF Relies
  <2> QED
    BY <1>2, <1>5, <1>6, <1>7, <2>1, <2>2, <2>3, <2>4, RowWritten
<1>9. CASE Finish(r)
  BY <1>8, <1>9, HandlerEnds
<1>10. ASSUME NEW s \in PassOn(row[t].type, q.was, q.to),
              Goto(r, [op |-> "pass", who |-> q.who, to |-> s])
       PROVE  Inv'
  <2>1. s \in {"IN_TRANSIT", "DELIVERED"} /\ (s = "DELIVERED" => Arrives(q.was, q.to))
    BY <1>10 DEF PassOn
  <2>2. PICK p : p = [op |-> "pass", who |-> q.who, to |-> s]
    OBVIOUS
  <2>3. p \in Request
    BY <1>2, <2>1, <2>2, RequestShapes
  <2>4. s = "DELIVERED" => Delivered'
    <3>1. s = "DELIVERED" => row'[t].deliveredBy = q.who
      BY <1>2, <1>5, <1>7, <2>1 DEF Inv, TypeOK
    <3> QED
      BY <1>2, <3>1, TransportAssumption DEF Delivered
  <2>5. Relies(p)'
    BY <2>2, <2>4 DEF Relies
  <2> QED
    BY <1>8, <1>10, <2>2, <2>3, <2>5, HandlerGoesOn
<1> QED
  BY <1>1, <1>9, <1>10 DEF StatusWrite

\* Telling the order needs a delivery on record, in both of its statements.
LEMMA OrderKeeps ==
    ASSUME Inv, NEW r \in Requests, OrderRead(r) \/ OrderWrite(r)
    PROVE  Inv'
<1>1. PICK q : q = request[r]
  OBVIOUS
<1>2. /\ q \in Request /\ q.op \in {"pass", "order"} /\ q.who \in Users
      /\ q.to \in {"IN_TRANSIT", "DELIVERED"} /\ Relies(q)
  BY <1>1, RequestFields DEF OrderRead, OrderWrite, Inv, TypeOK, Handlers
<1>3. CASE OrderRead(r)
  <2>1. Rowtypes' /\ Records' /\ Kept /\ UNCHANGED <<order, row>>
    BY <1>3, NothingWritten DEF OrderRead
  <2>2. CASE Finish(r)
    BY <2>1, <2>2, HandlerEnds
  <2>3. CASE Goto(r, [q EXCEPT !.op = "order"])
    <3>1. PICK p : p = [q EXCEPT !.op = "order"]
      OBVIOUS
    <3>2. q.op = "pass"
      BY <1>1, <1>3 DEF OrderRead
    <3>3. p = [op |-> "order", who |-> q.who, to |-> q.to]
      BY <1>2, <3>1, <3>2 DEF Request
    <3>4. p \in Request
      BY <1>2, <3>3, RequestShapes
    <3>5. q.to = "DELIVERED" => Delivered'
      BY <1>2, <2>1 DEF Relies, Delivered
    <3>6. Relies(p)'
      BY <3>3, <3>5 DEF Relies
    <3> QED
      BY <2>1, <2>3, <3>1, <3>4, <3>6, HandlerGoesOn
  <2> QED
    BY <1>1, <1>3, <2>2, <2>3 DEF OrderRead
<1>4. CASE OrderWrite(r)
  <2>1. /\ row' = row
        /\ order' = [order EXCEPT !.status = q.to, !.arrived = @ \/ q.to = "DELIVERED"]
    BY <1>1, <1>4 DEF OrderWrite
  <2>2. /\ order'.status = q.to /\ order'.released = order.released
        /\ order'.arrived = (order.arrived \/ q.to = "DELIVERED")
    BY <2>1 DEF Inv, TypeOK
  <2>3. Rowtypes'
    BY <1>2, <2>1 DEF Inv, TypeOK, Rowtypes, Statuses
  <2>4. q.to = "DELIVERED" => Delivered
    BY <1>2 DEF Relies
  <2>5. Records' /\ Kept
    BY <1>2, <2>1, <2>2, <2>3, <2>4, OrderWritten
  <2> QED
    BY <1>4, <2>3, <2>5, HandlerEnds DEF OrderWrite
<1> QED
  BY <1>3, <1>4

LEMMA AcceptKeeps ==
    ASSUME Inv, NEW r \in Requests, AcceptWrite(r)
    PROVE  Inv'
<1>1. PICK q, t, who : q = request[r] /\ t = q.row /\ who = q.who
  OBVIOUS
<1>2. q.op = "accept" /\ t \in Rows /\ who \in Users /\ row[t] \in Row
  BY <1>1, RequestFields DEF AcceptWrite, Inv, TypeOK
<1>3. PICK new : new = [row[t] EXCEPT !.status = "ACCEPTED", !.provider = who,
                                      !.named = @ \cup {who}]
  OBVIOUS
<1>4. /\ new.status = "ACCEPTED" /\ new.type = row[t].type /\ new.provider = who
      /\ new.named = row[t].named \cup {who} /\ new.picked = row[t].picked
      /\ new.deliveredBy = row[t].deliveredBy /\ new.trackers = row[t].trackers
      /\ new \in Row
  BY <1>2, <1>3 DEF Row, RequestStatuses
<1>5. row' = [row EXCEPT ![t] = new] /\ order' = order
  BY <1>1, <1>2, <1>3 DEF AcceptWrite, Inv, TypeOK
<1>6. /\ row[t].deliveredBy \in row[t].named \cup {Requester, None}
      /\ row[t].trackers \subseteq row[t].named
      /\ row[t].type = "ORDER_DELIVERY" /\ row[t].picked => order.released
  BY <1>2 DEF Inv, Records, OnlyNamedAct, PickedAfterRelease
<1>7. Rowtypes' /\ Records' /\ Kept
  BY <1>2, <1>4, <1>5, <1>6, RowWritten
<1> QED
  BY <1>7, HandlerEnds DEF AcceptWrite

LEMMA TrackKeeps ==
    ASSUME Inv, NEW r \in Requests, TrackWrite(r)
    PROVE  Inv'
<1>1. PICK q, t, who : q = request[r] /\ t = q.row /\ who = q.who
  OBVIOUS
<1>2. q.op = "track" /\ t \in Rows /\ who \in Users /\ row[t] \in Row /\ Relies(q)
  BY <1>1, RequestFields DEF TrackWrite, Inv, TypeOK, Handlers
<1>3. PICK new : new = [row[t] EXCEPT !.trackers = @ \cup {who}]
  OBVIOUS
<1>4. /\ new.status = row[t].status /\ new.type = row[t].type /\ new.provider = row[t].provider
      /\ new.named = row[t].named /\ new.picked = row[t].picked
      /\ new.deliveredBy = row[t].deliveredBy /\ new.trackers = row[t].trackers \cup {who}
      /\ new \in Row
  BY <1>2, <1>3 DEF Row
<1>5. row' = [row EXCEPT ![t] = new] /\ order' = order
  BY <1>1, <1>2, <1>3 DEF TrackWrite, Inv, TypeOK
<1>6. /\ row[t].provider \in row[t].named \cup {None}
      /\ row[t].deliveredBy \in row[t].named \cup {Requester, None}
      /\ row[t].trackers \subseteq row[t].named
      /\ row[t].type = "ORDER_DELIVERY" /\ row[t].picked => order.released
      /\ who \in row[t].named /\ row[t].status # "absent"
  BY <1>1, <1>2 DEF Inv, Records, RowRecords, OnlyNamedAct, PickedAfterRelease, Relies
<1>7. Rowtypes' /\ Records' /\ Kept
  BY <1>2, <1>4, <1>5, <1>6, RowWritten
<1> QED
  BY <1>7, HandlerEnds DEF TrackWrite

\* Accepting and tracking begin with a request that is there, tracking by its provider.
LEMMA BeginKeeps ==
    ASSUME Inv, NEW r \in Requests, NEW t \in Rows, NEW who \in Users,
           AcceptRead(r, t, who) \/ TrackRead(r, t, who)
    PROVE  Inv'
<1>1. PICK op \in {"accept", "track"} :
          /\ Goto(r, [op |-> op, row |-> t, who |-> who])
          /\ op = "track" => row[t].provider = who
  BY DEF AcceptRead, TrackRead, Begin
<1>2. UNCHANGED <<order, row>> /\ row[t].status # "absent"
  BY DEF AcceptRead, TrackRead, Live
<1>3. PICK q : q = [op |-> op, row |-> t, who |-> who]
  OBVIOUS
<1>4. q \in Request
  BY <1>3, RequestShapes
<1>5. op = "track" => who \in row[t].named
  BY <1>1, TransportAssumption DEF Inv, Records, RowRecords
<1>6. Relies(q)'
  BY <1>2, <1>3, <1>5 DEF Relies
<1> QED
  BY <1>1, <1>2, <1>3, <1>4, <1>6, NothingWritten, HandlerGoesOn

\* The rest of the system writes the order; only its RELEASED releases it.
LEMMA MovesKeep ==
    ASSUME Inv, NEW s \in Moves, OrderMoves(s)
    PROVE  Inv'
<1>1. /\ order'.status = s /\ order'.released = (order.released \/ s = "RELEASED")
      /\ order'.arrived = order.arrived /\ Rowtypes' /\ UNCHANGED <<row, request>>
  BY TransportAssumption DEF OrderMoves, Inv, TypeOK, Rowtypes
<1>2. Records' /\ Kept
  BY <1>1, OrderWritten
<1>3. ASSUME NEW r \in Requests
      PROVE  Relies(request[r])'
  <2>1. PICK q : q = request[r]
    OBVIOUS
  <2>2. q \in Request /\ Relies(q)
    BY <2>1 DEF Inv, TypeOK, Handlers
  <2>3. Relies(q)'
    BY <1>2, <2>2, ReliesStays
  <2> QED
    BY <1>1, <2>1, <2>3 DEF Relies
<1> QED
  BY <1>1, <1>2, <1>3 DEF Inv, TypeOK, Rowtypes, Handlers

-----------------------------------------------------------------------------
(* The theorems.                                                           *)

LEMMA InitEstablishes == Init => Inv
BY DEF Init, Inv, TypeOK, Statuses, Row, Absent, Types, Request, Idle, Records, RowRecords,
       PickedAfterRelease, ArrivedAfterDelivery, OnlyNamedAct, Handlers, Relies

LEMMA NextKeeps == Inv /\ [Next]_vars => Inv'
<1> SUFFICES ASSUME Inv, [Next]_vars PROVE Inv'
  OBVIOUS
<1>1. ASSUME NEW r \in Requests, HandlerStep(r)
      PROVE  Inv'
  BY <1>1, CreateKeeps, InsertKeeps, LinkKeeps, StatusWriteKeeps, OrderKeeps, AcceptKeeps,
     TrackKeeps DEF HandlerStep
<1>2. ASSUME NEW r \in Requests, CreateForOrder(r) \/ \E type \in Kinds : Create(r, type)
      PROVE  Inv'
  BY <1>2, CreateKeeps
<1>3. ASSUME NEW r \in Requests, NEW t \in Rows, NEW who \in Users,
             \/ AcceptRead(r, t, who) \/ TrackRead(r, t, who)
             \/ \E to \in Asked, p \in Providers \cup {None} : StatusRead(r, t, who, to, p)
      PROVE  Inv'
  BY <1>3, BeginKeeps, StatusReadKeeps
<1>4. ASSUME NEW s \in Moves, OrderMoves(s)
      PROVE  Inv'
  BY <1>4, MovesKeep
<1>5. CASE UNCHANGED vars
  <2>1. UNCHANGED <<order, row, request>>
    BY <1>5 DEF vars
  <2> QED
    BY <2>1 DEF Inv, TypeOK, Records, RowRecords, PickedAfterRelease, ArrivedAfterDelivery,
                OnlyNamedAct, Handlers, Relies, Delivered
<1> QED
  BY <1>1, <1>2, <1>3, <1>4, <1>5 DEF Next

LEMMA Invariance == Spec => []Inv
<1> QED
  BY InitEstablishes, NextKeeps, PTL DEF Spec

\* The columns of an order and of its transport requests hold values of their enums,
\* whatever statuses callers ask for, in whatever order.
THEOREM TypeCorrect == Spec => []TypeOK
<1>1. Inv => TypeOK
  BY DEF Inv
<1> QED
  BY <1>1, Invariance, PTL

\* The goods of an order leave with a delivery only after the centre released them, for
\* any number of handlers of updateTransportRequestStatus that write what they checked
\* several awaits before.
THEOREM GoodsLeaveReleased == Spec => []PickedAfterRelease
<1>1. Inv => PickedAfterRelease
  BY DEF Inv, Records
<1> QED
  BY <1>1, Invariance, PTL

\* Transport marks an order DELIVERED only when the delivery of one of its requests is
\* on record.
THEOREM ArrivalIsRecorded == Spec => []ArrivedAfterDelivery
<1>1. Inv => ArrivedAfterDelivery
  BY DEF Inv, Records
<1> QED
  BY <1>1, Invariance, PTL

\* Deliveries and tracking updates are recorded by those who were named on the request,
\* or by the requester, however many providers accept it or are assigned in between.
THEOREM NamedOnly == Spec => []OnlyNamedAct
<1>1. Inv => OnlyNamedAct
  BY DEF Inv, Records
<1> QED
  BY <1>1, Invariance, PTL

\* What a handler checked before its awaits still counts when it writes: the release it
\* saw, that the caller was named on the request, the delivery it is to tell the order of.
THEOREM ChecksStillCount == Spec => []Handlers
<1>1. Inv => Handlers
  BY DEF Inv
<1> QED
  BY <1>1, Invariance, PTL
=============================================================================
