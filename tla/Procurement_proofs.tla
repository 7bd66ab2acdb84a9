-------------------------- MODULE Procurement_proofs --------------------------
(***************************************************************************)
(* Theorems about Procurement, for any numbers of answers, suppliers,      *)
(* batches and handlers, and any quantities.                               *)
(*                                                                         *)
(* The heart of the invariant is about what is fulfilled: handlers write   *)
(* sums of what they saw, so what they saw must never contain an answer    *)
(* that is still to be added.  That holds because an answer gets one       *)
(* order, and only the handler that inserted it adds its quantity.         *)
(***************************************************************************)
EXTENDS Procurement, QuantitiesTheorems

AnswerRow == [status : AnswerStatuses \cup {"absent"}, farmer : Farmers,
              batch : Batches \cup {None}, quantity : Quantity, order : Orders]

\* The rows of a call and its answers, without the bounds of the sums.
Rows ==
    /\ call \in [kind : Kinds, status : CallStatuses \cup {"absent"}, quantity : Quantity,
                 fulfilled : Nat, awardedTo : SUBSET Farmers, totalResponses : Nat]
    /\ answer \in [Answers -> AnswerRow]
    /\ \A a \in Answers : answer[a].order # "none" => answer[a].status # "absent"
    /\ Given # {} => call.status # "absent"
    /\ call.kind = "sourcing" => call.awardedTo = {}

\* Handlers that inserted the order of their answer and are not done with it.
Converting(q) == q.op \in {"link", "fulfil", "follow", "look"}

Remembers(q) == q.op \in {"accept", "order", "link", "fulfil"}

HasAnswer(q) == q.op \in {"accept", "order", "link", "fulfil", "convert", "place", "follow",
                          "look", "award"}

\* What a handler with request q relies on.
Relies(q) ==
    /\ q # Idle => call.status # "absent"
    /\ HasAnswer(q) => answer[q.answer].status # "absent"
    /\ Converting(q) => answer[q.answer].order # "none"
    /\ Remembers(q) \/ q.op = "look" => call.kind = "sourcing"
    /\ q.op \in {"award", "cancel", "convert"} => call.kind = "rfq"

Handlers == request \in [Requests -> Request] /\ \A r \in Requests : Relies(request[r])

\* An answer has one handler that inserted its order.
OneConverter ==
    \A r, s \in Requests :
        Converting(request[r]) /\ Converting(request[s]) /\ request[r].answer = request[s].answer
            => r = s

AnswerWeights == [a \in Answers |-> answer[a].quantity]

\* The answers whose order is there and whose handler is done.
Settled ==
    {a \in Ordered : \A r \in Requests : Converting(request[r]) => request[r].answer # a}

\* What is fulfilled, and what a handler saw of it, leaves out the answers in progress.
Sums ==
    /\ call.fulfilled <= Load(Settled, AnswerWeights)
    /\ \A r \in Requests :
           Remembers(request[r]) => request[r].seen.fulfilled <= Load(Settled, AnswerWeights)

\* Responses that their handlers are still to count.
Uncounted == {r \in Requests : request[r].op = "count"}

\* A response is counted twice, by its trigger and by its handler.
Counts == call.totalResponses + Cardinality(Uncounted) <= 2 * Cardinality(Given)

Inv ==
    /\ Rows
    /\ Handlers
    /\ OneConverter
    /\ Sums
    /\ Counts
    /\ AwardedToAreAwarded
    /\ AcceptedIsOnItsWay

-----------------------------------------------------------------------------
(* Requests, and what a step may not take back.                            *)

LEMMA RequestFields ==
    ASSUME NEW q \in Request
    PROVE  /\ HasAnswer(q) => q.answer \in Answers
           /\ Remembers(q) => q.seen \in Seen
           /\ q.op = "set" => q.to \in CallStatuses
           /\ q.op = "edit" => q.quantity \in Quantity
           /\ q.op = "submit" => /\ q.farmer \in Farmers /\ q.batch \in Batches \cup {None}
                                 /\ q.quantity \in Quantity
           /\ q.op = "award" => q = [op |-> "award", answer |-> q.answer, left |-> q.left]
           /\ q.op = "cancel" => q = [op |-> "cancel", left |-> q.left]
           /\ q.op \in {"award", "cancel"} => \A w : q.left \ {w} \subseteq q.left
           /\ q.op = "award" => q.left \in SUBSET {"answer", "call"}
           /\ q.op = "cancel" => q.left \in SUBSET {"answers", "call"}
           /\ Remembers(q) => q = [op |-> q.op, answer |-> q.answer, seen |-> q.seen]
           /\ q.op \in {"convert", "place", "follow", "look"} => q = [op |-> q.op, answer |-> q.answer]
BY DEF Request, HasAnswer, Remembers

\* The requests that handlers go on to.
LEMMA RequestShapes ==
    /\ Idle \in Request /\ [op |-> "count"] \in Request
    /\ \A to \in CallStatuses : [op |-> "set", to |-> to] \in Request
    /\ \A n \in Quantity : [op |-> "edit", quantity |-> n] \in Request
    /\ \A f \in Farmers, b \in Batches \cup {None}, n \in Quantity :
           [op |-> "submit", farmer |-> f, batch |-> b, quantity |-> n] \in Request
    /\ \A a \in Answers :
           /\ \A seen \in Seen, op \in {"accept", "order", "link", "fulfil"} :
                  [op |-> op, answer |-> a, seen |-> seen] \in Request
           /\ \A op \in {"convert", "place", "follow", "look"} : [op |-> op, answer |-> a] \in Request
           /\ \A left \in SUBSET {"answer", "call"} :
                  [op |-> "award", answer |-> a, left |-> left] \in Request
    /\ \A left \in SUBSET {"answers", "call"} : [op |-> "cancel", left |-> left] \in Request
BY DEF Request, Idle

\* The kind of a call, that it is there, and of an answer what it offers and its order.
Kept ==
    /\ call'.kind = call.kind
    /\ call.status # "absent" => call'.status # "absent"
    /\ \A a \in Given :
           /\ answer'[a].status # "absent"
           /\ answer'[a].farmer = answer[a].farmer
           /\ answer'[a].batch = answer[a].batch
           /\ answer'[a].quantity = answer[a].quantity
           /\ answer[a].order # "none" => answer'[a].order = answer[a].order

\* Handler r goes on with the answer that it converts, or with one that has no order yet.
Takes(r, q) ==
    Converting(q) => \/ Converting(request[r]) /\ q.answer = request[r].answer
                     \/ answer[q.answer].order = "none"

\* What it remembers of what is fulfilled is what it remembered, or what is.
Sees(r, q) ==
    Remembers(q) => \/ q.seen.fulfilled = call.fulfilled
                    \/ Remembers(request[r]) /\ q.seen = request[r].seen

\* At most handler r moves, to a request that it may rely on.
Moves(r) ==
    /\ request' \in [Requests -> Request]
    /\ \A s \in Requests :
           \/ request'[s] = request[s]
           \/ s = r /\ Relies(request[s])' /\ Takes(s, request'[s]) /\ Sees(s, request'[s])

LEMMA ReliesStays ==
    ASSUME Kept, NEW q \in Request, Relies(q)
    PROVE  Relies(q)'
BY RequestFields DEF Kept, Relies, Given, HasAnswer, Converting, Remembers

LEMMA HandlersMove ==
    ASSUME Rows, Handlers, OneConverter, Kept, NEW r, Moves(r)
    PROVE  Handlers' /\ OneConverter' /\ Settled \subseteq Settled'
<1>1. ASSUME NEW s \in Requests
      PROVE  Relies(request[s])'
  <2>1. PICK q : q = request[s]
    OBVIOUS
  <2>2. Relies(q)'
    BY <2>1, ReliesStays DEF Handlers
  <2>3. CASE request'[s] = request[s]
    BY <2>1, <2>2, <2>3 DEF Relies
  <2> QED
    BY <2>3 DEF Moves
<1>2. \A s \in Requests : Converting(request[s]) =>
          request[s].answer \in Given /\ answer[request[s].answer].order # "none"
  BY RequestFields DEF Handlers, Relies, Converting, HasAnswer, Given
<1>3. \A s \in Requests : request'[s] = request[s] \/ (s = r /\ Takes(s, request'[s]))
  BY DEF Moves
<1>4. OneConverter'
  <2>1. ASSUME NEW s \in Requests, NEW u \in Requests, Converting(request'[s]), Converting(request'[u]),
               request'[s].answer = request'[u].answer, s # u, request'[u] = request[u]
        PROVE  FALSE
    <3>1. Converting(request[s]) /\ request[s].answer = request[u].answer
      BY <1>2, <1>3, <2>1 DEF Takes
    <3> QED
      BY <2>1, <3>1 DEF OneConverter
  <2>2. \A s, u \in Requests : s # u => request'[s] = request[s] \/ request'[u] = request[u]
    BY <1>3
  <2>3. \A s, u \in Requests :
           Converting(request'[s]) /\ Converting(request'[u])
             /\ request'[s].answer = request'[u].answer => s = u
    BY <2>1, <2>2
  <2> QED
    BY <2>3 DEF OneConverter, Converting
<1>5. ASSUME NEW a \in Settled
      PROVE  a \in Settled'
  <2>1. a \in Given /\ answer[a].order # "none"
    BY DEF Settled, Ordered, Rows, Given
  <2>2. a \in Ordered'
    BY <2>1 DEF Kept, Ordered, Given
  <2>3. ASSUME NEW s \in Requests, Converting(request'[s]), request'[s].answer = a
        PROVE  FALSE
    BY <1>3, <2>1, <2>3 DEF Takes, Settled
  <2> QED
    BY <2>2, <2>3 DEF Settled, Converting
<1> QED
  BY <1>1, <1>4, <1>5 DEF Handlers, Moves

-----------------------------------------------------------------------------
(* What is fulfilled.                                                      *)

\* Settled answers weigh no less after a step.
LEMMA SettledGrows ==
    ASSUME Rows, Kept, Settled \subseteq Settled'
    PROVE  /\ IsFiniteSet(Settled) /\ IsFiniteSet(Settled')
           /\ Load(Settled, AnswerWeights') = Load(Settled, AnswerWeights)
           /\ Load(Settled, AnswerWeights) \in Nat /\ Load(Settled', AnswerWeights') \in Nat
           /\ Load(Settled, AnswerWeights) <= Load(Settled', AnswerWeights')
<1>1. Settled \in SUBSET Answers /\ Settled' \in SUBSET Answers
  BY DEF Settled, Ordered
<1>2. IsFiniteSet(Settled) /\ IsFiniteSet(Settled')
  BY <1>1, FS_Subset, ProcurementAssumption
<1>3. \A a \in Settled : AnswerWeights[a] = AnswerWeights'[a]
  BY <1>1 DEF Settled, Ordered, Rows, Given, Kept, AnswerWeights
<1>4. Load(Settled, AnswerWeights) = Load(Settled, AnswerWeights')
  BY <1>3, LoadSame
<1>5. Load(Settled, AnswerWeights') <= Load(Settled', AnswerWeights')
  BY <1>2, LoadMonotone
<1> QED
  BY <1>2, <1>4, <1>5, LoadType

\* What is fulfilled is within what the answers can add.
LEMMA FulfilledInTotal ==
    ASSUME Rows, Sums
    PROVE  call.fulfilled \in Total /\ call.fulfilled <= Load(Ordered, AnswerWeights)
<1>1. Settled \subseteq Ordered /\ Ordered \in SUBSET Answers
  BY DEF Settled, Ordered
<1>2. IsFiniteSet(Ordered) /\ IsFiniteSet(Settled) /\ IsFiniteSet(Answers)
  BY <1>1, FS_Subset, ProcurementAssumption
<1>3. /\ Load(Settled, AnswerWeights) <= Load(Ordered, AnswerWeights)
      /\ Load(Ordered, AnswerWeights) <= Load(Answers, AnswerWeights)
      /\ Load(Answers, AnswerWeights) <= MaxQty * Cardinality(Answers)
  BY <1>1, <1>2, LoadMonotone, LoadBound
<1>4. /\ Load(Settled, AnswerWeights) \in Nat /\ Load(Ordered, AnswerWeights) \in Nat
      /\ Load(Answers, AnswerWeights) \in Nat
  BY <1>2, LoadType
<1>5. MaxQty * Cardinality(Answers) \in Nat
  BY <1>2, FS_CardinalityType, MaxQtyAssumption
<1>6. call.fulfilled \in Nat /\ call.fulfilled <= Load(Settled, AnswerWeights)
  BY DEF Rows, Sums
<1> QED
  BY <1>3, <1>4, <1>5, <1>6 DEF Total

\* Sums that nobody writes stay within what is settled.
LEMMA SumsStay ==
    ASSUME Rows, Handlers, OneConverter, Sums, Kept, NEW r, Moves(r),
           call'.fulfilled = call.fulfilled
    PROVE  Sums'
<1>1. Settled \subseteq Settled'
  BY HandlersMove
<1>2. /\ Load(Settled, AnswerWeights) \in Nat /\ Load(Settled', AnswerWeights') \in Nat
      /\ Load(Settled, AnswerWeights) <= Load(Settled', AnswerWeights')
  BY <1>1, SettledGrows
<1>3. call.fulfilled \in Nat /\ call.fulfilled <= Load(Settled, AnswerWeights)
  BY DEF Rows, Sums
<1>4. ASSUME NEW s \in Requests, Remembers(request'[s])
      PROVE  request'[s].seen.fulfilled <= Load(Settled', AnswerWeights')
  <2>1. request'[s].seen.fulfilled \in Nat
    <3>1. request'[s].seen \in Seen
      BY <1>4, RequestFields DEF Moves
    <3>2. \A n \in Total : n \in Nat
      BY FS_CardinalityType, MaxQtyAssumption, ProcurementAssumption DEF Total
    <3> QED
      BY <3>1, <3>2 DEF Seen
  <2>2. request'[s].seen.fulfilled <= Load(Settled, AnswerWeights)
    BY <1>3, <1>4 DEF Moves, Sees, Sums
  <2> QED
    BY <1>2, <2>1, <2>2
<1>5. call'.fulfilled <= Load(Settled', AnswerWeights')
  BY <1>2, <1>3
<1> QED
  BY <1>4, <1>5 DEF Sums, Remembers

-----------------------------------------------------------------------------
(* The parts of the invariant that most steps leave alone.                 *)

LEMMA CountsStay ==
    ASSUME Rows, Kept, Counts, call'.totalResponses = call.totalResponses,
           Uncounted' \subseteq Uncounted
    PROVE  Counts'
<1>1. Given \in SUBSET Given' /\ Given' \in SUBSET Answers
  BY DEF Given, Kept
<1>2. IsFiniteSet(Given') /\ IsFiniteSet(Uncounted)
  BY <1>1, FS_Subset, ProcurementAssumption DEF Uncounted
<1>3. Cardinality(Given) <= Cardinality(Given') /\ IsFiniteSet(Given)
  BY <1>1, <1>2, FS_Subset
<1>4. Cardinality(Uncounted') <= Cardinality(Uncounted) /\ IsFiniteSet(Uncounted')
  BY <1>2, FS_Subset
<1>5. /\ Cardinality(Given) \in Nat /\ Cardinality(Given') \in Nat
      /\ Cardinality(Uncounted) \in Nat /\ Cardinality(Uncounted') \in Nat
      /\ call.totalResponses \in Nat
  BY <1>2, <1>3, <1>4, FS_CardinalityType DEF Rows
<1>6. /\ Cardinality(Uncounted)' = Cardinality(Uncounted')
      /\ Cardinality(Given)' = Cardinality(Given')
  OBVIOUS
<1> QED
  BY <1>3, <1>4, <1>5, <1>6 DEF Counts

LEMMA AwardsStay ==
    ASSUME Kept, AwardedToAreAwarded, call'.awardedTo \subseteq call.awardedTo,
           \A a \in Given : answer[a].status = "AWARDED" => answer'[a].status = "AWARDED"
    PROVE  AwardedToAreAwarded'
BY DEF Kept, AwardedToAreAwarded, Given

\* An offer stays accepted and on its way when no other is accepted and nobody gives up.
LEMMA OnItsWayStays ==
    ASSUME Rows, Kept, AcceptedIsOnItsWay,
           \A a \in Answers :
               answer'[a].status = "accepted" /\ answer'[a].order = "none"
                   => answer[a].status = "accepted" /\ answer[a].order = "none",
           \A s \in Requests : request[s].op = "order" => request'[s] = request[s]
    PROVE  AcceptedIsOnItsWay'
<1>1. \A b : ~BatchFree(b) => ~BatchFree(b)'
  BY DEF BatchFree, Kept, Rows, Given
<1>2. ASSUME NEW a \in Answers, answer'[a].status = "accepted", answer'[a].order = "none"
      PROVE  \/ answer'[a].batch = None
             \/ ~BatchFree(answer[a].batch)'
             \/ \E r \in Requests : request'[r].op = "order" /\ request'[r].answer = a
  <2>1. answer[a].status = "accepted" /\ answer[a].order = "none" /\ a \in Given
    BY <1>2 DEF Given
  <2>2. answer'[a].batch = answer[a].batch
    BY <2>1 DEF Kept
  <2>3. CASE ~BatchFree(answer[a].batch)
    <3>1. PICK b : b = answer[a].batch
      OBVIOUS
    <3>2. ~BatchFree(b)'
      BY <1>1, <2>3, <3>1
    <3> QED
      BY <2>2, <3>1, <3>2 DEF BatchFree
  <2>4. CASE \E r \in Requests : request[r].op = "order" /\ request[r].answer = a
    BY <2>4
  <2> QED
    BY <2>1, <2>2, <2>3, <2>4 DEF AcceptedIsOnItsWay
<1> QED
  BY <1>2 DEF AcceptedIsOnItsWay

\* A step that leaves what is fulfilled alone.
LEMMA Step ==
    ASSUME Inv, Rows', Kept, NEW r, Moves(r), call'.fulfilled = call.fulfilled,
           Counts', AwardedToAreAwarded', AcceptedIsOnItsWay'
    PROVE  Inv'
BY HandlersMove, SumsStay DEF Inv

\* What Moves says of a handler that goes on.
LEMMA GoesOn ==
    ASSUME Inv, NEW r \in Requests, NEW q \in Request, Goto(r, q), Relies(q)', Takes(r, q), Sees(r, q)
    PROVE  /\ Moves(r)
           /\ request'[r] = q /\ \A s \in Requests \ {r} : request'[s] = request[s]
<1>1. request' = [request EXCEPT ![r] = q] /\ request \in [Requests -> Request]
  BY DEF Inv, Handlers, Goto
<1>2. request'[r] = q /\ \A s \in Requests \ {r} : request'[s] = request[s]
  BY <1>1
<1>3. Relies(request[r])'
  BY <1>2 DEF Relies
<1>4. request' \in [Requests -> Request]
  BY <1>1
<1> QED
  BY <1>2, <1>3, <1>4 DEF Moves

\* A statement that changes neither what is fulfilled nor which offers are accepted.
LEMMA PlainStep ==
    ASSUME Inv, Rows', Kept, NEW r \in Requests, NEW q \in Request, Goto(r, q), Relies(q)',
           Takes(r, q), Sees(r, q), q.op # "count", request[r].op # "order",
           call'.fulfilled = call.fulfilled, call'.totalResponses = call.totalResponses,
           AwardedToAreAwarded',
           \A a \in Answers :
               answer'[a].status = "accepted" /\ answer'[a].order = "none"
                   => answer[a].status = "accepted" /\ answer[a].order = "none"
    PROVE  Inv'
<1>1. /\ Moves(r) /\ request'[r] = q
      /\ \A s \in Requests \ {r} : request'[s] = request[s]
  BY GoesOn
<1>2. Uncounted' \subseteq Uncounted
  BY <1>1 DEF Uncounted
<1>3. Counts'
  BY <1>2, CountsStay DEF Inv
<1>4. AcceptedIsOnItsWay'
  BY <1>1, OnItsWayStays DEF Inv
<1> QED
  BY <1>1, <1>3, <1>4, Step

\* The same at the end of a handler, and when nobody moves.
LEMMA PlainEnd ==
    ASSUME Inv, Rows', Kept, NEW r \in Requests, Finish(r), request[r].op # "order",
           call'.fulfilled = call.fulfilled, call'.totalResponses = call.totalResponses,
           AwardedToAreAwarded',
           \A a \in Answers :
               answer'[a].status = "accepted" /\ answer'[a].order = "none"
                   => answer[a].status = "accepted" /\ answer[a].order = "none"
    PROVE  Inv'
<1>1. PICK q : q = Idle
  OBVIOUS
<1>2. q \in Request /\ q.op = "idle" /\ q.op # "count" /\ Goto(r, q)
  BY <1>1, RequestShapes DEF Idle, Finish
<1>3. Relies(q)' /\ Takes(r, q) /\ Sees(r, q)
  BY <1>1, <1>2 DEF Relies, HasAnswer, Converting, Remembers, Takes, Sees
<1> QED
  BY <1>2, <1>3, PlainStep

LEMMA NobodyMoves ==
    ASSUME Inv, Rows', Kept, request' = request,
           call'.fulfilled = call.fulfilled, call'.totalResponses = call.totalResponses,
           AwardedToAreAwarded',
           \A a \in Answers :
               answer'[a].status = "accepted" /\ answer'[a].order = "none"
                   => answer[a].status = "accepted" /\ answer[a].order = "none"
    PROVE  Inv'
<1>1. \A r : Moves(r)
  BY DEF Moves, Inv, Handlers
<1>2. Uncounted' \subseteq Uncounted
  BY DEF Uncounted
<1>3. Counts'
  BY <1>2, CountsStay DEF Inv
<1>4. AcceptedIsOnItsWay'
  BY OnItsWayStays DEF Inv
<1> QED
  BY <1>1, <1>3, <1>4, Step

\* A handler that reads.
LEMMA ReadStep ==
    ASSUME Inv, UNCHANGED <<call, answer>>, NEW r \in Requests, NEW q \in Request, Goto(r, q),
           Relies(q), Takes(r, q), Sees(r, q), q.op # "count", request[r].op # "order"
    PROVE  Inv'
<1>1. Rows' /\ Kept /\ Relies(q)'
  BY DEF Inv, Rows, Kept, Given, Relies
<1>2. AwardedToAreAwarded'
  BY <1>1, AwardsStay DEF Inv
<1> QED
  BY <1>1, <1>2, PlainStep

-----------------------------------------------------------------------------
(* The call.                                                               *)

\* The call's status or quantity is written.
LEMMA CallWritten ==
    ASSUME Inv, answer' = answer, call.status # "absent" \/ Given = {},
           NEW status \in CallStatuses, NEW quantity \in Quantity,
           call' = [call EXCEPT !.status = status, !.quantity = quantity]
    PROVE  /\ Rows' /\ Kept /\ AwardedToAreAwarded'
           /\ call'.fulfilled = call.fulfilled /\ call'.totalResponses = call.totalResponses
           /\ \A a \in Answers : answer'[a] = answer[a]
<1>1. /\ call'.kind = call.kind /\ call'.status = status /\ call'.quantity = quantity
      /\ call'.fulfilled = call.fulfilled /\ call'.awardedTo = call.awardedTo
      /\ call'.totalResponses = call.totalResponses
  BY DEF Inv, Rows
<1>2. status # "absent"
  BY DEF CallStatuses
<1>3. Rows' /\ Kept
  BY <1>1, <1>2 DEF Inv, Rows, Kept, Given
<1>4. AwardedToAreAwarded'
  BY <1>1, <1>3, AwardsStay DEF Inv
<1> QED
  BY <1>1, <1>3, <1>4

LEMMA CallSteps ==
    ASSUME Inv,
           \/ \E n \in Asked : CreateRFQ(n) \/ \E status \in CallStatuses : CreateSourcingRequest(n, status)
           \/ \E status \in CallStatuses : SetSourcing(status)
    PROVE  Inv'
<1>1. PICK status \in CallStatuses, n \in Quantity :
          /\ call' = [call EXCEPT !.status = status, !.quantity = n]
          /\ UNCHANGED <<answer, request>>
  <2>1. call.quantity \in Quantity /\ \A n \in Asked : n \in Quantity
    BY ProcurementAssumption DEF Inv, Rows
  <2>2. "DRAFT" \in CallStatuses
    BY DEF CallStatuses
  <2>3. \A status : [call EXCEPT !.status = status]
                      = [call EXCEPT !.status = status, !.quantity = call.quantity]
    BY DEF Inv, Rows
  <2> QED
    BY <2>1, <2>2, <2>3 DEF CreateRFQ, CreateSourcingRequest, SetSourcing
<1>2. call.status # "absent" \/ Given = {}
  BY DEF Inv, Rows
<1>3. /\ Rows' /\ Kept /\ AwardedToAreAwarded'
      /\ call'.fulfilled = call.fulfilled /\ call'.totalResponses = call.totalResponses
      /\ \A a \in Answers : answer'[a] = answer[a]
  BY <1>1, <1>2, CallWritten
<1> QED
  BY <1>1, <1>3, NobodyMoves

\* setRFQ..., updateRFQ and the like: the second statement.
LEMMA CallWrites ==
    ASSUME Inv, NEW r \in Requests, SetRfqWrite(r) \/ EditWrite(r)
    PROVE  Inv'
<1>1. request[r] \in Request /\ Relies(request[r]) /\ call.status # "absent"
  BY DEF Inv, Handlers, Relies, SetRfqWrite, EditWrite, Idle
<1>2. PICK status \in CallStatuses, n \in Quantity :
          call' = [call EXCEPT !.status = status, !.quantity = n]
  <2>1. call.quantity \in Quantity /\ call.status \in CallStatuses
    BY <1>1 DEF Inv, Rows
  <2>2. /\ \A status : [call EXCEPT !.status = status]
                         = [call EXCEPT !.status = status, !.quantity = call.quantity]
        /\ \A n : [call EXCEPT !.quantity = n]
                         = [call EXCEPT !.status = call.status, !.quantity = n]
    BY DEF Inv, Rows
  <2>3. CASE SetRfqWrite(r)
    <3>1. request[r].to \in CallStatuses
      BY <1>1, <2>3, RequestFields DEF SetRfqWrite
    <3> QED
      BY <2>1, <2>2, <2>3, <3>1 DEF SetRfqWrite
  <2>4. CASE EditWrite(r)
    <3>1. request[r].quantity \in Quantity
      BY <1>1, <2>4, RequestFields DEF EditWrite
    <3> QED
      BY <2>1, <2>2, <2>4, <3>1 DEF EditWrite
  <2> QED
    BY <2>3, <2>4
<1>3. answer' = answer /\ Finish(r) /\ request[r].op # "order"
  BY DEF SetRfqWrite, EditWrite
<1>4. /\ Rows' /\ Kept /\ AwardedToAreAwarded'
      /\ call'.fulfilled = call.fulfilled /\ call'.totalResponses = call.totalResponses
      /\ \A a \in Answers : answer'[a] = answer[a]
  BY <1>1, <1>2, <1>3, CallWritten
<1> QED
  BY <1>3, <1>4, PlainEnd

\* The first statements of handlers, and the look at a request to be fulfilled.
LEMMA Starts ==
    ASSUME Inv, NEW r \in Requests, HandlerStart(r)
    PROVE  Inv'
<1>1. UNCHANGED <<call, answer>>
  BY DEF HandlerStart, SetRfqRead, EditRead, SubmitRead, CancelRead, AwardRead, AcceptRead,
         ConvertRead, PlaceOrder
<1>2. request[r] = Idle /\ call.status # "absent"
  BY DEF HandlerStart, SetRfqRead, EditRead, SubmitRead, CancelRead, AwardRead, AcceptRead,
         ConvertRead, PlaceOrder, Begin, Rfq, Sourcing, Inv, Rows, Given
<1>3. request[r].op # "order" /\ call.status \in CallStatuses
  BY <1>2 DEF Idle, Inv, Rows
<1> DEFINE Good(q) == q \in Request /\ Relies(q) /\ Takes(r, q) /\ Sees(r, q) /\ q.op # "count"
<1>4. ASSUME NEW q, Good(q), Goto(r, q)
      PROVE  Inv'
  BY <1>1, <1>3, <1>4, ReadStep
<1>5. ASSUME NEW q \in Request, q.op \in {"set", "edit", "submit"}
      PROVE  Good(q)
  BY <1>2, <1>5 DEF Relies, HasAnswer, Converting, Remembers, Takes, Sees
<1> HIDE DEF Good
<1>6. ASSUME NEW to \in {"PUBLISHED", "EVALUATING", "CLOSED"}, SetRfqRead(r, to)
      PROVE  Inv'
  <2>1. PICK q : q = [op |-> "set", to |-> to]
    OBVIOUS
  <2>2. q \in Request /\ q.op = "set"
    BY <2>1, RequestShapes DEF CallStatuses
  <2> QED
    BY <1>4, <1>5, <1>6, <2>1, <2>2 DEF SetRfqRead, Begin
<1>7. ASSUME NEW n \in Asked, EditRead(r, n)
      PROVE  Inv'
  <2>1. PICK q : q = [op |-> "edit", quantity |-> n]
    OBVIOUS
  <2>2. q \in Request /\ q.op = "edit"
    BY <2>1, RequestShapes, ProcurementAssumption
  <2> QED
    BY <1>4, <1>5, <1>7, <2>1, <2>2 DEF EditRead, Begin
<1>8. ASSUME NEW f \in Farmers, NEW b \in Batches \cup {None}, NEW n \in Quantity \ {0},
             SubmitRead(r, f, b, n)
      PROVE  Inv'
  <2>1. PICK q : q = [op |-> "submit", farmer |-> f, batch |-> b, quantity |-> n]
    OBVIOUS
  <2>2. q \in Request /\ q.op = "submit"
    BY <2>1, RequestShapes
  <2> QED
    BY <1>4, <1>5, <1>8, <2>1, <2>2 DEF SubmitRead, Begin
<1>9. CASE CancelRead(r)
  <2>1. PICK q : q = [op |-> "cancel", left |-> {"answers", "call"}]
    OBVIOUS
  <2>2. q \in Request /\ q.op = "cancel"
    BY <2>1, RequestShapes
  <2>3. Good(q)
    BY <1>2, <1>9, <2>2
       DEF Good, Relies, HasAnswer, Converting, Remembers, Takes, Sees, CancelRead, Rfq
  <2> QED
    BY <1>4, <1>9, <2>1, <2>3 DEF CancelRead, Begin
<1>10. ASSUME NEW a \in Answers, AwardRead(r, a) \/ ConvertRead(r, a) \/ PlaceOrder(r, a)
       PROVE  Inv'
  <2>1. answer[a].status # "absent"
    BY <1>10 DEF AwardRead, ConvertRead, PlaceOrder, Given
  <2>2. PICK q : /\ q \in {[op |-> "award", answer |-> a, left |-> {"answer", "call"}],
                           [op |-> "convert", answer |-> a], [op |-> "place", answer |-> a]}
                 /\ Goto(r, q)
                 /\ q.op \in {"award", "convert"} => call.kind = "rfq"
    BY <1>10 DEF AwardRead, ConvertRead, PlaceOrder, Begin, Rfq
  <2>3. q \in Request /\ q.op \in {"award", "convert", "place"} /\ q.answer = a
    <3>1. /\ [op |-> "award", answer |-> a, left |-> {"answer", "call"}] \in Request
          /\ [op |-> "convert", answer |-> a] \in Request
          /\ [op |-> "place", answer |-> a] \in Request
      BY RequestShapes
    <3> QED
      BY <2>2, <3>1
  <2>4. Good(q)
    BY <1>2, <2>1, <2>2, <2>3 DEF Good, Relies, HasAnswer, Converting, Remembers, Takes, Sees
  <2> QED
    BY <1>4, <2>2, <2>4
<1>11. ASSUME NEW a \in Answers, AcceptRead(r, a)
       PROVE  Inv'
  <2>1. answer[a].status # "absent" /\ call.kind = "sourcing"
    BY <1>11 DEF AcceptRead, Sourcing
  <2>2. PICK seen : seen = [fulfilled |-> call.fulfilled, quantity |-> call.quantity,
                            status |-> call.status]
    OBVIOUS
  <2>3. seen \in Seen /\ seen.fulfilled = call.fulfilled
    BY <1>3, <2>2, FulfilledInTotal DEF Seen, Inv, Rows
  <2>4. PICK q : q = [op |-> "accept", answer |-> a, seen |-> seen]
    OBVIOUS
  <2>5. q \in Request /\ q.op = "accept" /\ q.answer = a /\ q.seen = seen
    BY <2>3, <2>4, RequestShapes
  <2>6. Good(q)
    BY <1>2, <2>1, <2>3, <2>5 DEF Good, Relies, HasAnswer, Converting, Remembers, Takes, Sees
  <2> QED
    BY <1>4, <1>11, <2>2, <2>4, <2>6 DEF AcceptRead, Begin
<1> QED
  BY <1>6, <1>7, <1>8, <1>9, <1>10, <1>11 DEF HandlerStart

-----------------------------------------------------------------------------
(* The answers.                                                            *)

\* A new answer, which no handler and no list knows yet.
LEMMA SubmitKeeps ==
    ASSUME Inv, NEW r \in Requests, SubmitWrite(r)
    PROVE  Inv'
<1>1. PICK a, q : a = (CHOOSE b \in Answers : b \notin Given) /\ q = request[r]
  OBVIOUS
<1>2. a \in Answers /\ a \notin Given /\ answer[a].order = "none" /\ answer[a] \in AnswerRow
  BY <1>1 DEF SubmitWrite, Given, Inv, Rows
<1>3. /\ q \in Request /\ q.op = "submit" /\ Relies(q) /\ call.status # "absent"
      /\ q.farmer \in Farmers /\ q.batch \in Batches \cup {None} /\ q.quantity \in Quantity
  BY <1>1, RequestFields DEF SubmitWrite, Inv, Handlers, Relies, Idle
<1>4. PICK new : new = [status |-> IF call.kind = "rfq" THEN "SUBMITTED" ELSE "pending",
                        farmer |-> q.farmer, batch |-> q.batch, quantity |-> q.quantity,
                        order |-> "none"]
  OBVIOUS
<1>5. /\ new \in AnswerRow /\ new.status # "absent" /\ new.status # "accepted"
      /\ new.order = "none"
  BY <1>3, <1>4 DEF AnswerRow, AnswerStatuses, ResponseStatuses, Orders
<1>6. answer' = [answer EXCEPT ![a] = new]
  BY <1>1, <1>4 DEF SubmitWrite
<1>7. \A b \in Answers : answer'[b] = IF b = a THEN new ELSE answer[b]
  BY <1>2, <1>6 DEF Inv, Rows
<1>8. /\ call'.kind = call.kind /\ call'.status = call.status
      /\ call'.fulfilled = call.fulfilled /\ call'.awardedTo = call.awardedTo
      /\ call' \in [kind : Kinds, status : CallStatuses \cup {"absent"}, quantity : Quantity,
                    fulfilled : Nat, awardedTo : SUBSET Farmers, totalResponses : Nat]
      /\ call'.totalResponses = IF call.kind = "rfq" THEN call.totalResponses + 1
                                ELSE call.totalResponses
  BY DEF SubmitWrite, Inv, Rows
<1>9. Given' = Given \cup {a}
  BY <1>2, <1>5, <1>7 DEF Given
<1>10. Rows' /\ Kept
  <2>1. answer' \in [Answers -> AnswerRow]
    BY <1>5, <1>6 DEF Inv, Rows
  <2>2. \A b \in Answers : answer'[b].order # "none" => answer'[b].status # "absent"
    BY <1>5, <1>7 DEF Inv, Rows
  <2>3. Kept
    BY <1>2, <1>7, <1>8 DEF Kept, Given
  <2> QED
    BY <1>3, <1>8, <2>1, <2>2, <2>3 DEF Inv, Rows
<1>11. AwardedToAreAwarded'
  BY <1>2, <1>7, <1>8, <1>10, AwardsStay DEF Inv, Given
<1>12. PICK p : p = IF call.kind = "rfq" THEN [op |-> "count"] ELSE Idle
  OBVIOUS
<1>13. p \in Request /\ p.op \in {"count", "idle"} /\ Goto(r, p)
  BY <1>12, RequestShapes DEF SubmitWrite, Finish, Idle
<1>14. Relies(p)' /\ Takes(r, p) /\ Sees(r, p)
  BY <1>3, <1>8, <1>13 DEF Relies, HasAnswer, Converting, Remembers, Takes, Sees
<1>15. /\ Moves(r) /\ request'[r] = p
       /\ \A s \in Requests \ {r} : request'[s] = request[s]
  BY <1>13, <1>14, GoesOn
<1>16. AcceptedIsOnItsWay'
  BY <1>1, <1>3, <1>5, <1>7, <1>10, <1>15, OnItsWayStays DEF Inv
<1>17. Counts'
  <2>1. IsFiniteSet(Given) /\ IsFiniteSet(Uncounted)
    BY FS_Subset, ProcurementAssumption DEF Given, Uncounted
  <2>2. Cardinality(Given \cup {a}) = Cardinality(Given) + 1
    BY <1>2, <2>1, FS_AddElement
  <2>3. r \notin Uncounted
    BY <1>1, <1>3 DEF Uncounted
  <2>4. Cardinality(Uncounted \cup {r}) = Cardinality(Uncounted) + 1
    BY <2>1, <2>3, FS_AddElement
  <2>5. Uncounted' = IF call.kind = "rfq" THEN Uncounted \cup {r} ELSE Uncounted
    <3>1. request'[r].op = IF call.kind = "rfq" THEN "count" ELSE "idle"
      BY <1>12, <1>15 DEF Idle
    <3> QED
      BY <1>15, <2>3, <3>1 DEF Uncounted
  <2>6. /\ Cardinality(Uncounted)' = Cardinality(Uncounted')
        /\ Cardinality(Given)' = Cardinality(Given')
    OBVIOUS
  <2>7. /\ Cardinality(Given) \in Nat /\ Cardinality(Uncounted) \in Nat
        /\ call.totalResponses \in Nat
    BY <2>1, FS_CardinalityType DEF Inv, Rows
  <2>8. call.totalResponses + Cardinality(Uncounted) <= 2 * Cardinality(Given)
    BY DEF Inv, Counts
  <2>9. call'.totalResponses + Cardinality(Uncounted') <= 2 * Cardinality(Given')
    <3>1. Cardinality(Given') = Cardinality(Given) + 1
      BY <1>9, <2>2
    <3>2. CASE call.kind = "rfq"
      BY <1>8, <2>4, <2>5, <2>7, <2>8, <3>1, <3>2
    <3>3. CASE call.kind # "rfq"
      BY <1>8, <2>5, <2>7, <2>8, <3>1, <3>3
    <3> QED
      BY <3>2, <3>3
  <2> QED
    BY <2>6, <2>9 DEF Counts
<1> QED
  BY <1>8, <1>10, <1>11, <1>15, <1>16, <1>17, Step

\* A counted response is one that was still to be counted.
LEMMA CountKeeps ==
    ASSUME Inv, NEW r \in Requests, CountResponse(r)
    PROVE  Inv'
<1>1. /\ call'.kind = call.kind /\ call'.status = call.status
      /\ call'.fulfilled = call.fulfilled /\ call'.awardedTo = call.awardedTo
      /\ call'.totalResponses = call.totalResponses + 1 /\ answer' = answer
      /\ call' \in [kind : Kinds, status : CallStatuses \cup {"absent"}, quantity : Quantity,
                    fulfilled : Nat, awardedTo : SUBSET Farmers, totalResponses : Nat]
  BY DEF CountResponse, Inv, Rows
<1>2. Rows' /\ Kept
  BY <1>1 DEF Inv, Rows, Kept, Given
<1>3. AwardedToAreAwarded'
  BY <1>1, <1>2, AwardsStay DEF Inv
<1>4. PICK p : p = Idle
  OBVIOUS
<1>5. p \in Request /\ Goto(r, p) /\ p.op = "idle" /\ request[r].op = "count"
  BY <1>4, RequestShapes DEF CountResponse, Finish, Idle
<1>6. Relies(p)' /\ Takes(r, p) /\ Sees(r, p)
  BY <1>4, <1>5 DEF Relies, HasAnswer, Converting, Remembers, Takes, Sees
<1>7. /\ Moves(r) /\ request'[r] = p
      /\ \A s \in Requests \ {r} : request'[s] = request[s]
  BY <1>5, <1>6, GoesOn
<1>8. AcceptedIsOnItsWay'
  BY <1>1, <1>2, <1>5, <1>7, OnItsWayStays DEF Inv
<1>9. Counts'
  <2>1. IsFiniteSet(Given) /\ IsFiniteSet(Uncounted)
    BY FS_Subset, ProcurementAssumption DEF Given, Uncounted
  <2>2. r \in Uncounted /\ Uncounted' = Uncounted \ {r} /\ Given' = Given
    BY <1>1, <1>5, <1>7 DEF Uncounted, Given
  <2>3. Cardinality(Uncounted \ {r}) = Cardinality(Uncounted) - 1
    BY <2>1, <2>2, FS_RemoveElement
  <2>4. /\ Cardinality(Uncounted)' = Cardinality(Uncounted')
        /\ Cardinality(Given)' = Cardinality(Given')
    OBVIOUS
  <2>5. /\ Cardinality(Given) \in Nat /\ Cardinality(Uncounted) \in Nat
        /\ call.totalResponses \in Nat
    BY <2>1, FS_CardinalityType DEF Inv, Rows
  <2> QED
    BY <1>1, <2>2, <2>3, <2>4, <2>5 DEF Inv, Counts
<1> QED
  BY <1>1, <1>2, <1>3, <1>7, <1>8, <1>9, Step

\* The trigger keeps the list of the awarded suppliers right.
LEMMA AnswerSet ==
    ASSUME Inv, NEW a \in Answers, NEW to \in AnswerStatuses, answer[a].status # "absent",
           SetAnswer(a, to)
    PROVE  /\ Rows' /\ Kept /\ AwardedToAreAwarded'
           /\ call'.fulfilled = call.fulfilled /\ call'.totalResponses = call.totalResponses
           /\ \A b \in Answers : /\ answer'[b].order = answer[b].order
                                 /\ b # a => answer'[b] = answer[b]
                                 /\ answer'[a].status = to
<1>1. \A b \in Answers :
          /\ answer'[b].status = IF b = a THEN to ELSE answer[b].status
          /\ answer'[b].farmer = answer[b].farmer /\ answer'[b].batch = answer[b].batch
          /\ answer'[b].quantity = answer[b].quantity /\ answer'[b].order = answer[b].order
          /\ b # a => answer'[b] = answer[b]
  BY DEF SetAnswer, Inv, Rows, AnswerRow
<1>2. to # "absent" /\ answer' \in [Answers -> AnswerRow]
  BY DEF SetAnswer, Inv, Rows, AnswerRow, AnswerStatuses, ResponseStatuses
<1>3. Given' = Given /\ a \in Given /\ call.status # "absent"
  BY <1>1, <1>2 DEF Given, Inv, Rows
<1>4. CASE call.kind = "sourcing"
  <2>1. call' = call /\ call.awardedTo = {}
    BY <1>4 DEF SetAnswer, Inv, Rows
  <2>2. Rows' /\ Kept
    BY <1>1, <1>2, <1>3, <2>1 DEF Inv, Rows, Kept, Given
  <2> QED
    BY <1>1, <2>1, <2>2 DEF AwardedToAreAwarded
<1>5. CASE call.kind = "rfq"
  <2> DEFINE f == answer[a].farmer
             was == answer[a].status
  <2>1. f \in Farmers
    BY DEF Inv, Rows, AnswerRow
  <2>2. \/ /\ to = "AWARDED" /\ was # "AWARDED"
           /\ call' = [call EXCEPT !.awardedTo = @ \cup {f}, !.status = "AWARDED"]
        \/ to # "AWARDED" /\ was = "AWARDED" /\ call' = [call EXCEPT !.awardedTo = @ \ {f}]
        \/ /\ call' = call
           /\ \/ to = "AWARDED"
              \/ to # "AWARDED" /\ was # "AWARDED"
    BY <1>5 DEF SetAnswer, AwardTrigger
  <2>3. PICK list \in SUBSET Farmers, status \in CallStatuses :
           /\ call' = [call EXCEPT !.awardedTo = list, !.status = status]
           /\ \/ to = "AWARDED" /\ list = call.awardedTo \cup {f}
              \/ to # "AWARDED" /\ was = "AWARDED" /\ list = call.awardedTo \ {f}
              \/ list = call.awardedTo /\ (to = "AWARDED" \/ was # "AWARDED")
    <3>1. call.awardedTo \in SUBSET Farmers /\ call.status \in CallStatuses
      BY <1>3 DEF Inv, Rows
    <3>2. /\ call = [call EXCEPT !.awardedTo = call.awardedTo, !.status = call.status]
          /\ \A list : [call EXCEPT !.awardedTo = list]
                           = [call EXCEPT !.awardedTo = list, !.status = call.status]
      BY DEF Inv, Rows
    <3>3. "AWARDED" \in CallStatuses
      BY DEF CallStatuses
    <3>4. call.awardedTo \cup {f} \in SUBSET Farmers /\ call.awardedTo \ {f} \in SUBSET Farmers
      BY <2>1, <3>1
    <3> QED
      BY <2>2, <3>1, <3>2, <3>3, <3>4
  <2>4. /\ call'.kind = call.kind /\ call'.fulfilled = call.fulfilled
        /\ call'.totalResponses = call.totalResponses /\ call'.status = status
        /\ call'.awardedTo = list
        /\ call' \in [kind : Kinds, status : CallStatuses \cup {"absent"}, quantity : Quantity,
                      fulfilled : Nat, awardedTo : SUBSET Farmers, totalResponses : Nat]
    BY <2>3 DEF Inv, Rows
  <2>5. Rows' /\ Kept
    <3>1. status # "absent"
      BY DEF CallStatuses
    <3> QED
      BY <1>1, <1>2, <1>3, <1>5, <2>4, <3>1 DEF Inv, Rows, Kept, Given
  <2>6. ASSUME NEW g \in call'.awardedTo
        PROVE  \E b \in Given' : answer'[b].farmer = g /\ answer'[b].status = "AWARDED"
    <3>1. g \in call.awardedTo \/ (g = f /\ to = "AWARDED")
      BY <2>3, <2>4, <2>6
    <3>2. CASE g = f /\ to = "AWARDED"
      BY <1>1, <1>3, <3>2
    <3>3. CASE g \in call.awardedTo
      <4>1. PICK b \in Given : answer[b].farmer = g /\ answer[b].status = "AWARDED"
        BY <3>3 DEF Inv, AwardedToAreAwarded
      <4>2. to # "AWARDED" /\ was = "AWARDED" => g # f
        BY <2>3, <2>4, <2>6
      <4>3. answer'[b].status = "AWARDED"
        BY <1>1, <4>1, <4>2 DEF Given
      <4> QED
        BY <1>1, <1>3, <4>1, <4>3 DEF Given
    <3> QED
      BY <3>1, <3>2, <3>3
  <2> QED
    BY <1>1, <2>4, <2>5, <2>6 DEF AwardedToAreAwarded
<1>6. call.kind \in {"sourcing", "rfq"}
  BY DEF Inv, Rows, Kinds
<1> QED
  BY <1>4, <1>5, <1>6

LEMMA SetResponseKeeps ==
    ASSUME Inv, NEW a \in Answers, NEW to \in Verdicts, SetResponse(a, to)
    PROVE  Inv'
<1>1. to \in AnswerStatuses /\ to # "accepted"
  BY VerdictsAssumption DEF AnswerStatuses, ResponseStatuses
<1>2. answer[a].status # "absent" /\ SetAnswer(a, to) /\ request' = request
  BY DEF SetResponse, Given
<1> QED
  BY <1>1, <1>2, AnswerSet, NobodyMoves

\* A handler that has done one of the statements it issued at once.
LEMMA DidGoesOn ==
    ASSUME Inv, Kept, NEW r \in Requests, request[r].op \in {"award", "cancel"}, NEW w, Did(r, w)
    PROVE  \E q \in Request :
               /\ Goto(r, q) /\ Relies(q)' /\ Takes(r, q) /\ Sees(r, q)
               /\ q.op \in {"idle", "award", "cancel"}
<1>1. PICK p : p = request[r]
  OBVIOUS
<1>2. p \in Request /\ Relies(p) /\ p.op \in {"award", "cancel"}
  BY <1>1 DEF Inv, Handlers
<1>3. PICK q : Goto(r, q) /\ q \in {Idle, [p EXCEPT !.left = @ \ {w}]}
  BY <1>1 DEF Did
<1>4. CASE q = Idle
  <2>1. q \in Request /\ q.op = "idle"
    BY <1>4, RequestShapes DEF Idle
  <2>2. Relies(q)' /\ Takes(r, q) /\ Sees(r, q)
    BY <1>4, <2>1 DEF Relies, HasAnswer, Converting, Remembers, Takes, Sees
  <2> QED
    BY <1>3, <2>1, <2>2
<1>5. CASE q = [p EXCEPT !.left = @ \ {w}]
  <2>1. q \in Request /\ q.op = p.op /\ (p.op = "award" => q.answer = p.answer)
    <3>1. CASE p.op = "award"
      <4>1. p.answer \in Answers /\ p.left \ {w} \in SUBSET {"answer", "call"}
        BY <1>2, <3>1, RequestFields DEF HasAnswer
      <4>2. q = [op |-> "award", answer |-> p.answer, left |-> p.left \ {w}]
        BY <1>2, <1>5, <3>1 DEF Request
      <4> QED
        BY <3>1, <4>1, <4>2, RequestShapes
    <3>2. CASE p.op = "cancel"
      <4>1. p.left \ {w} \in SUBSET {"answers", "call"}
        BY <1>2, <3>2, RequestFields
      <4>2. q = [op |-> "cancel", left |-> p.left \ {w}]
        BY <1>2, <1>5, <3>2 DEF Request
      <4> QED
        BY <3>2, <4>1, <4>2, RequestShapes
    <3> QED
      BY <1>2, <3>1, <3>2
  <2>2. Relies(q)
    BY <1>2, <2>1 DEF Relies, HasAnswer, Converting, Remembers, Idle
  <2>3. Relies(q)'
    BY <2>1, <2>2, ReliesStays
  <2>4. Takes(r, q) /\ Sees(r, q)
    BY <1>2, <2>1 DEF Converting, Remembers, Takes, Sees
  <2> QED
    BY <1>2, <1>3, <2>1, <2>3, <2>4
<1> QED
  BY <1>3, <1>4, <1>5

\* awardRFQ: either statement, in either order.
LEMMA AwardKeeps ==
    ASSUME Inv, NEW r \in Requests, AwardWrite(r)
    PROVE  Inv'
<1>1. PICK a : a = request[r].answer
  OBVIOUS
<1>2. /\ a \in Answers /\ answer[a].status # "absent" /\ call.status # "absent"
      /\ request[r].op = "award"
  BY <1>1, RequestFields DEF AwardWrite, Inv, Handlers, Relies, HasAnswer, Idle
<1>3. PICK w : Did(r, w)
  BY DEF AwardWrite
<1>4. CASE SetAnswer(a, "AWARDED")
  <2>1. "AWARDED" \in AnswerStatuses
    BY DEF AnswerStatuses, ResponseStatuses
  <2>2. /\ Rows' /\ Kept /\ AwardedToAreAwarded'
        /\ call'.fulfilled = call.fulfilled /\ call'.totalResponses = call.totalResponses
        /\ \A b \in Answers : /\ answer'[b].order = answer[b].order
                              /\ b # a => answer'[b] = answer[b]
                              /\ answer'[a].status = "AWARDED"
    BY <1>2, <1>4, <2>1, AnswerSet
  <2> QED
    BY <1>2, <1>3, <2>2, DidGoesOn, PlainStep
<1>5. CASE call' = [call EXCEPT !.status = "AWARDED"] /\ answer' = answer
  <2>1. "AWARDED" \in CallStatuses /\ call.quantity \in Quantity
    BY DEF CallStatuses, Inv, Rows
  <2>2. call' = [call EXCEPT !.status = "AWARDED", !.quantity = call.quantity]
    BY <1>5 DEF Inv, Rows
  <2>3. /\ Rows' /\ Kept /\ AwardedToAreAwarded'
        /\ call'.fulfilled = call.fulfilled /\ call'.totalResponses = call.totalResponses
        /\ \A b \in Answers : answer'[b] = answer[b]
    BY <1>2, <1>5, <2>1, <2>2, CallWritten
  <2> QED
    BY <1>2, <1>3, <2>3, DidGoesOn, PlainStep
<1> QED
  BY <1>1, <1>4, <1>5 DEF AwardWrite

\* cancelRFQ takes every supplier off the list with the responses.
LEMMA CancelKeeps ==
    ASSUME Inv, NEW r \in Requests, CancelWrite(r)
    PROVE  Inv'
<1>1. call.kind = "rfq" /\ call.status # "absent" /\ request[r].op = "cancel"
  BY DEF CancelWrite, Inv, Handlers, Relies, Idle
<1>2. PICK w : Did(r, w)
  BY DEF CancelWrite
<1> DEFINE gone == {answer[a].farmer : a \in {b \in Given : answer[b].status = "AWARDED"}}
<1>3. CASE /\ answer' = [a \in Answers |-> IF a \in Given THEN [answer[a] EXCEPT !.status = "WITHDRAWN"]
                                          ELSE answer[a]]
           /\ call' = [call EXCEPT !.awardedTo = @ \ gone]
  <2>1. /\ call'.kind = call.kind /\ call'.status = call.status
        /\ call'.fulfilled = call.fulfilled /\ call'.totalResponses = call.totalResponses
        /\ call'.awardedTo = call.awardedTo \ gone
        /\ call' \in [kind : Kinds, status : CallStatuses \cup {"absent"}, quantity : Quantity,
                      fulfilled : Nat, awardedTo : SUBSET Farmers, totalResponses : Nat]
    BY <1>3 DEF Inv, Rows
  <2>2. \A a \in Answers :
           /\ a \in Given => /\ answer'[a].status = "WITHDRAWN"
                             /\ answer'[a].farmer = answer[a].farmer
                             /\ answer'[a].batch = answer[a].batch
                             /\ answer'[a].quantity = answer[a].quantity
                             /\ answer'[a].order = answer[a].order
           /\ a \notin Given => answer'[a] = answer[a]
           /\ answer'[a] \in AnswerRow
    BY <1>3 DEF Inv, Rows, AnswerRow, AnswerStatuses, ResponseStatuses
  <2>3. Given' = Given
    BY <2>2 DEF Given
  <2>4. answer' \in [Answers -> AnswerRow]
    BY <1>3, <2>2
  <2>5. Rows' /\ Kept
    BY <1>1, <2>1, <2>2, <2>3, <2>4 DEF Inv, Rows, Kept, Given
  <2>6. call'.awardedTo = {}
    BY <2>1 DEF Inv, AwardedToAreAwarded
  <2>7. AwardedToAreAwarded'
    BY <2>6 DEF AwardedToAreAwarded
  <2>8. \A a \in Answers : answer'[a].status # "accepted" \/ answer'[a] = answer[a]
    BY <2>2
  <2> QED
    BY <1>1, <1>2, <2>1, <2>5, <2>7, <2>8, DidGoesOn, PlainStep
<1>4. CASE call' = [call EXCEPT !.status = "CANCELLED"] /\ answer' = answer
  <2>1. "CANCELLED" \in CallStatuses /\ call.quantity \in Quantity
    BY DEF CallStatuses, Inv, Rows
  <2>2. call' = [call EXCEPT !.status = "CANCELLED", !.quantity = call.quantity]
    BY <1>4 DEF Inv, Rows
  <2>3. /\ Rows' /\ Kept /\ AwardedToAreAwarded'
        /\ call'.fulfilled = call.fulfilled /\ call'.totalResponses = call.totalResponses
        /\ \A b \in Answers : answer'[b] = answer[b]
    BY <1>1, <1>4, <2>1, <2>2, CallWritten
  <2> QED
    BY <1>1, <1>2, <2>3, DidGoesOn, PlainStep
<1> QED
  BY <1>3, <1>4 DEF CancelWrite

-----------------------------------------------------------------------------
(* The orders.                                                             *)

\* An answer gets its order.
LEMMA OrderInserted ==
    ASSUME Inv, call' = call, NEW a \in Answers, answer[a].status # "absent",
           answer[a].order = "none", NEW kind \in {"own", "batch"}, InsertOrder(a, kind)
    PROVE  /\ Rows' /\ Kept /\ AwardedToAreAwarded'
           /\ answer'[a].order = kind /\ answer'[a].batch = answer[a].batch
           /\ \A b \in Answers : b # a => answer'[b] = answer[b]
<1>1. \A b \in Answers :
          /\ b # a => answer'[b] = answer[b]
          /\ answer'[b].farmer = answer[b].farmer /\ answer'[b].batch = answer[b].batch
          /\ answer'[b].quantity = answer[b].quantity
          /\ answer'[b].order = IF b = a THEN kind ELSE answer[b].order
          /\ call.kind # "sourcing" => answer'[b].status = answer[b].status
          /\ answer[b].status # "absent" => answer'[b].status # "absent"
  BY DEF InsertOrder, Inv, Rows, AnswerRow
<1>2. answer' \in [Answers -> AnswerRow]
  <2>1. PICK status : status = IF call.kind = "sourcing" THEN "converted" ELSE answer[a].status
    OBVIOUS
  <2>2. answer[a] \in AnswerRow /\ status \in AnswerStatuses \cup {"absent"}
    BY <2>1 DEF Inv, Rows, AnswerRow, AnswerStatuses
  <2>3. PICK new : new = [answer[a] EXCEPT !.order = kind, !.status = status]
    OBVIOUS
  <2>4. new \in AnswerRow
    BY <2>2, <2>3 DEF AnswerRow, Orders
  <2>5. answer' = [answer EXCEPT ![a] = new]
    BY <2>1, <2>3 DEF InsertOrder, Inv, Rows
  <2> QED
    BY <2>4, <2>5 DEF Inv, Rows
<1>3. Rows' /\ Kept
  BY <1>1, <1>2 DEF Inv, Rows, Kept, Given
<1>4. AwardedToAreAwarded'
  BY <1>1, <1>3 DEF Inv, Rows, AwardedToAreAwarded, Given, Kinds
<1> QED
  BY <1>1, <1>3, <1>4

\* The next request of a handler that goes on with its answer and what it saw.
LEMMA ThenGoesOn ==
    ASSUME Inv, NEW r \in Requests, Remembers(request[r]),
           NEW op \in {"accept", "order", "link", "fulfil"}, Then(r, op)
    PROVE  \E q \in Request : /\ Goto(r, q) /\ q.op = op /\ q.answer = request[r].answer
                              /\ Remembers(q) /\ Sees(r, q)
<1>1. PICK p : p = request[r]
  OBVIOUS
<1>2. p \in Request /\ p = [op |-> p.op, answer |-> p.answer, seen |-> p.seen]
  BY <1>1, RequestFields DEF Inv, Handlers
<1>3. p.answer \in Answers /\ p.seen \in Seen
  BY <1>1, <1>2, RequestFields DEF Remembers, HasAnswer
<1>4. PICK q : q = [op |-> op, answer |-> p.answer, seen |-> p.seen]
  OBVIOUS
<1>5. q \in Request /\ q.op = op /\ q.answer = p.answer /\ q.seen = p.seen
  BY <1>3, <1>4, RequestShapes
<1>6. [p EXCEPT !.op = op] = q
  BY <1>2, <1>4
<1> QED
  BY <1>1, <1>5, <1>6 DEF Then, Remembers, Sees

\* An accepted offer is on its way, for its handler goes on to insert the order.
LEMMA AcceptWriteKeeps ==
    ASSUME Inv, NEW r \in Requests, AcceptWrite(r)
    PROVE  Inv'
<1>1. PICK a : a = request[r].answer
  OBVIOUS
<1>2. /\ a \in Answers /\ answer[a].status # "absent" /\ call.kind = "sourcing"
      /\ call.status # "absent" /\ request[r].op = "accept" /\ Remembers(request[r])
  BY <1>1, RequestFields DEF AcceptWrite, Inv, Handlers, Relies, HasAnswer, Remembers, Idle
<1>3. PICK q \in Request : /\ Goto(r, q) /\ q.op = "order" /\ q.answer = a
                           /\ Remembers(q) /\ Sees(r, q)
  BY <1>1, <1>2, ThenGoesOn DEF AcceptWrite
<1>4. SetAnswer(a, "accepted")
  BY <1>1, <1>2 DEF AcceptWrite, SetAnswer
<1>5. "accepted" \in AnswerStatuses
  BY DEF AnswerStatuses
<1>6. /\ Rows' /\ Kept /\ AwardedToAreAwarded'
      /\ call'.fulfilled = call.fulfilled /\ call'.totalResponses = call.totalResponses
      /\ \A b \in Answers : /\ answer'[b].order = answer[b].order
                            /\ b # a => answer'[b] = answer[b]
                            /\ answer'[a].status = "accepted"
  BY <1>2, <1>4, <1>5, AnswerSet
<1>7. Relies(q)' /\ Takes(r, q)
  <2>1. call'.status # "absent" /\ answer'[a].status # "absent" /\ call'.kind = "sourcing"
    BY <1>2, <1>6 DEF Kept
  <2> QED
    BY <1>3, <2>1 DEF Relies, Takes, Converting
<1>8. /\ Moves(r) /\ request'[r] = q
      /\ \A s \in Requests \ {r} : request'[s] = request[s]
  BY <1>3, <1>7, GoesOn
<1>9. Counts'
  <2>1. Uncounted' \subseteq Uncounted
    BY <1>3, <1>8 DEF Uncounted
  <2> QED
    BY <1>6, <2>1, CountsStay DEF Inv
<1>10. AcceptedIsOnItsWay'
  <2>1. \A b : ~BatchFree(b) => ~BatchFree(b)'
    BY <1>6 DEF BatchFree, Kept, Inv, Rows, Given
  <2>2. ASSUME NEW c \in Answers, answer'[c].status = "accepted", answer'[c].order = "none", c # a
        PROVE  \/ answer'[c].batch = None
               \/ ~BatchFree(answer[c].batch)'
               \/ \E s \in Requests : request'[s].op = "order" /\ request'[s].answer = c
    <3>1. answer'[c] = answer[c]
      BY <1>6, <2>2
    <3>2. PICK b : b = answer[c].batch
      OBVIOUS
    <3>3. ~BatchFree(b) => ~BatchFree(b)'
      BY <2>1
    <3>4. ~BatchFree(answer[c].batch) => ~BatchFree(answer[c].batch)'
      BY <3>1, <3>2, <3>3 DEF BatchFree
    <3> QED
      BY <1>2, <1>8, <2>2, <3>1, <3>4 DEF Inv, AcceptedIsOnItsWay
  <2>3. request'[r].op = "order" /\ request'[r].answer = a
    BY <1>3, <1>8
  <2> QED
    BY <2>2, <2>3 DEF AcceptedIsOnItsWay
<1> QED
  BY <1>6, <1>8, <1>9, <1>10, Step

\* The acceptance ends with the order, or where there is no batch for one.
LEMMA OnItsWayAfterOrder ==
    ASSUME Inv, Kept, NEW r \in Requests, request[r].op = "order", NEW a, a = request[r].answer,
           \A s \in Requests \ {r} : request'[s] = request[s],
           \A c \in Answers : c # a => answer'[c] = answer[c],
           \/ answer'[a].order # "none"
           \/ answer' = answer /\ (answer[a].batch = None \/ ~BatchFree(answer[a].batch))
    PROVE  AcceptedIsOnItsWay'
<1>1. \A b : ~BatchFree(b) => ~BatchFree(b)'
  BY DEF BatchFree, Kept, Inv, Rows, Given
<1>2. ASSUME NEW c \in Answers, answer'[c].status = "accepted", answer'[c].order = "none"
      PROVE  \/ answer'[c].batch = None
             \/ ~BatchFree(answer[c].batch)'
             \/ \E s \in Requests : request'[s].op = "order" /\ request'[s].answer = c
  <2>1. answer'[c] = answer[c]
    BY <1>2
  <2>2. \/ answer[c].batch = None
        \/ ~BatchFree(answer[c].batch)
        \/ \E s \in Requests \ {r} : request[s].op = "order" /\ request[s].answer = c
    BY <1>2, <2>1 DEF Inv, AcceptedIsOnItsWay
  <2>3. PICK b : b = answer[c].batch
    OBVIOUS
  <2>4. ~BatchFree(b) => ~BatchFree(b)'
    BY <1>1
  <2>5. ~BatchFree(answer[c].batch) => ~BatchFree(answer[c].batch)'
    BY <2>1, <2>3, <2>4 DEF BatchFree
  <2> QED
    BY <2>1, <2>2, <2>5
<1>3. \A c \in Answers : answer'[c].status = "accepted" /\ answer'[c].order = "none"
                            => answer'[c].batch = answer[c].batch
  BY DEF Kept
<1> QED
  BY <1>2, <1>3 DEF AcceptedIsOnItsWay

LEMMA AcceptOrderKeeps ==
    ASSUME Inv, NEW r \in Requests, AcceptOrder(r)
    PROVE  Inv'
<1>1. PICK a : a = request[r].answer
  OBVIOUS
<1>2. /\ a \in Answers /\ answer[a].status # "absent" /\ call.kind = "sourcing"
      /\ call.status # "absent" /\ request[r].op = "order" /\ Remembers(request[r])
      /\ call' = call
  BY <1>1, RequestFields DEF AcceptOrder, Inv, Handlers, Relies, HasAnswer, Remembers, Idle
<1>3. CASE /\ answer[a].order = "none" /\ InsertOrder(a, "batch") /\ Then(r, "link")
  <2>1. /\ Rows' /\ Kept /\ AwardedToAreAwarded'
        /\ answer'[a].order = "batch" /\ answer'[a].batch = answer[a].batch
        /\ \A b \in Answers : b # a => answer'[b] = answer[b]
    BY <1>2, <1>3, OrderInserted
  <2>2. PICK q \in Request : /\ Goto(r, q) /\ q.op = "link" /\ q.answer = a
                             /\ Remembers(q) /\ Sees(r, q)
    BY <1>1, <1>2, <1>3, ThenGoesOn
  <2>3. Relies(q)' /\ Takes(r, q)
    <3>1. answer'[a].status # "absent" /\ answer'[a].order # "none"
      BY <1>2, <2>1 DEF Kept, Given
    <3> QED
      BY <1>2, <1>3, <2>2, <3>1 DEF Relies, Takes, Converting
  <2>4. /\ Moves(r) /\ request'[r] = q
        /\ \A s \in Requests \ {r} : request'[s] = request[s]
    BY <2>2, <2>3, GoesOn
  <2>5. Counts'
    <3>1. Uncounted' \subseteq Uncounted
      BY <2>2, <2>4 DEF Uncounted
    <3> QED
      BY <1>2, <2>1, <3>1, CountsStay DEF Inv
  <2>6. AcceptedIsOnItsWay'
    BY <1>1, <1>2, <2>1, <2>4, OnItsWayAfterOrder
  <2> QED
    BY <1>2, <2>1, <2>4, <2>5, <2>6, Step
<1>4. CASE /\ ~(answer[a].batch # None /\ answer[a].order = "none" /\ BatchFree(answer[a].batch))
           /\ answer' = answer /\ Finish(r)
  <2>1. Rows' /\ Kept
    BY <1>2, <1>4 DEF Inv, Rows, Kept, Given
  <2>2. AwardedToAreAwarded'
    BY <1>2, <1>4, <2>1, AwardsStay DEF Inv
  <2>3. PICK q : q = Idle
    OBVIOUS
  <2>4. q \in Request /\ q.op = "idle" /\ Goto(r, q)
    BY <1>4, <2>3, RequestShapes DEF Idle, Finish
  <2>5. Relies(q)' /\ Takes(r, q) /\ Sees(r, q)
    BY <2>3, <2>4 DEF Relies, HasAnswer, Converting, Remembers, Takes, Sees
  <2>6. /\ Moves(r) /\ request'[r] = q
        /\ \A s \in Requests \ {r} : request'[s] = request[s]
    BY <2>4, <2>5, GoesOn
  <2>7. Counts'
    <3>1. Uncounted' \subseteq Uncounted
      BY <2>4, <2>6 DEF Uncounted
    <3> QED
      BY <1>2, <2>1, <3>1, CountsStay DEF Inv
  <2>8. AcceptedIsOnItsWay'
    BY <1>1, <1>2, <1>4, <2>1, <2>6, OnItsWayAfterOrder
  <2> QED
    BY <1>2, <2>1, <2>2, <2>6, <2>7, <2>8, Step
<1> QED
  BY <1>1, <1>3, <1>4 DEF AcceptOrder

LEMMA AcceptLinkKeeps ==
    ASSUME Inv, NEW r \in Requests, AcceptLink(r)
    PROVE  Inv'
<1>1. PICK a : a = request[r].answer
  OBVIOUS
<1>2. /\ a \in Answers /\ answer[a].status # "absent" /\ answer[a].order # "none"
      /\ call.kind = "sourcing" /\ call.status # "absent"
      /\ request[r].op = "link" /\ Remembers(request[r])
  BY <1>1, RequestFields
     DEF AcceptLink, Inv, Handlers, Relies, HasAnswer, Remembers, Converting, Idle
<1>3. PICK q \in Request : /\ Goto(r, q) /\ q.op = "fulfil" /\ q.answer = a
                           /\ Remembers(q) /\ Sees(r, q)
  BY <1>1, <1>2, ThenGoesOn DEF AcceptLink
<1>4. SetAnswer(a, "converted") /\ "converted" \in AnswerStatuses
  BY <1>1, <1>2 DEF AcceptLink, SetAnswer, AnswerStatuses
<1>5. /\ Rows' /\ Kept /\ AwardedToAreAwarded'
      /\ call'.fulfilled = call.fulfilled /\ call'.totalResponses = call.totalResponses
      /\ \A b \in Answers : /\ answer'[b].order = answer[b].order
                            /\ b # a => answer'[b] = answer[b]
                            /\ answer'[a].status = "converted"
  BY <1>2, <1>4, AnswerSet
<1>6. Relies(q)' /\ Takes(r, q)
  <2>1. /\ call'.status # "absent" /\ call'.kind = "sourcing"
        /\ answer'[a].status # "absent" /\ answer'[a].order # "none"
    BY <1>2, <1>5 DEF Kept
  <2> QED
    BY <1>1, <1>2, <1>3, <2>1 DEF Relies, Takes, Converting
<1> QED
  BY <1>2, <1>3, <1>5, <1>6, PlainStep

\* What is added to what was seen was not in it, and is settled from then on.
LEMMA FulfilKeeps ==
    ASSUME Inv, NEW r \in Requests, Fulfil(r)
    PROVE  Inv'
<1>1. PICK a, seen, n : /\ a = request[r].answer /\ seen = request[r].seen
                        /\ n = answer[a].quantity
  OBVIOUS
<1>2. /\ a \in Answers /\ answer[a].status # "absent" /\ answer[a].order # "none"
      /\ call.kind = "sourcing" /\ call.status # "absent" /\ seen \in Seen
      /\ request[r].op = "fulfil" /\ Remembers(request[r]) /\ Converting(request[r])
  BY <1>1, RequestFields
     DEF Fulfil, Inv, Handlers, Relies, HasAnswer, Remembers, Converting, Idle
<1>3. /\ seen.fulfilled \in Nat /\ seen.status \in CallStatuses /\ n \in Nat /\ n \in Quantity
  <2>1. \A k \in Total : k \in Nat
    BY FS_CardinalityType, MaxQtyAssumption, ProcurementAssumption DEF Total
  <2>2. \A k \in Quantity : k \in Nat
    BY MaxQtyAssumption DEF Quantity
  <2> QED
    BY <1>1, <1>2, <2>1, <2>2 DEF Seen, Inv, Rows, AnswerRow
<1>4. PICK sum, status : /\ sum = seen.fulfilled + n
                         /\ status = IF sum >= seen.quantity THEN "FULFILLED" ELSE seen.status
  OBVIOUS
<1>5. sum \in Nat /\ status \in CallStatuses
  BY <1>3, <1>4 DEF CallStatuses
<1>6. call' = [call EXCEPT !.fulfilled = sum, !.status = status] /\ answer' = answer /\ Finish(r)
  BY <1>1, <1>4 DEF Fulfil
<1>7. /\ call'.kind = call.kind /\ call'.status = status /\ call'.fulfilled = sum
      /\ call'.awardedTo = call.awardedTo /\ call'.totalResponses = call.totalResponses
      /\ call' \in [kind : Kinds, status : CallStatuses \cup {"absent"}, quantity : Quantity,
                    fulfilled : Nat, awardedTo : SUBSET Farmers, totalResponses : Nat]
  BY <1>5, <1>6 DEF Inv, Rows
<1>8. Rows' /\ Kept
  BY <1>5, <1>6, <1>7 DEF Inv, Rows, Kept, Given, CallStatuses
<1>9. AwardedToAreAwarded'
  BY <1>6, <1>7, <1>8, AwardsStay DEF Inv
<1>10. PICK q : q = Idle
  OBVIOUS
<1>11. q \in Request /\ q.op = "idle" /\ Goto(r, q)
  BY <1>6, <1>10, RequestShapes DEF Idle, Finish
<1>12. Relies(q)' /\ Takes(r, q) /\ Sees(r, q)
  BY <1>10, <1>11 DEF Relies, HasAnswer, Converting, Remembers, Takes, Sees
<1>13. /\ Moves(r) /\ request'[r] = q
       /\ \A s \in Requests \ {r} : request'[s] = request[s]
  BY <1>11, <1>12, GoesOn
<1>14. Counts'
  <2>1. Uncounted' \subseteq Uncounted
    BY <1>11, <1>13 DEF Uncounted
  <2> QED
    BY <1>7, <1>8, <2>1, CountsStay DEF Inv
<1>15. AcceptedIsOnItsWay'
  BY <1>2, <1>6, <1>8, <1>13, OnItsWayStays DEF Inv
<1>16. Handlers' /\ OneConverter' /\ Settled \subseteq Settled'
  BY <1>8, <1>13, HandlersMove DEF Inv
<1>17. a \notin Settled /\ a \in Settled'
  <2>1. a \notin Settled
    BY <1>1, <1>2 DEF Settled
  <2>2. \A s \in Requests \ {r} : Converting(request[s]) => request[s].answer # a
    BY <1>1, <1>2 DEF Inv, OneConverter
  <2>3. \A s \in Requests : Converting(request'[s]) => request'[s].answer # a
    BY <1>11, <1>13, <2>2 DEF Converting
  <2>4. a \in Ordered'
    BY <1>2, <1>6 DEF Ordered
  <2> QED
    BY <2>1, <2>3, <2>4 DEF Settled, Converting
<1>18. Sums'
  <2>1. /\ IsFiniteSet(Settled) /\ IsFiniteSet(Settled')
        /\ Load(Settled, AnswerWeights') = Load(Settled, AnswerWeights)
        /\ Load(Settled, AnswerWeights) \in Nat /\ Load(Settled', AnswerWeights') \in Nat
        /\ Load(Settled, AnswerWeights) <= Load(Settled', AnswerWeights')
    BY <1>8, <1>16, SettledGrows DEF Inv
  <2>2. AnswerWeights'[a] = n
    BY <1>1, <1>2, <1>6 DEF AnswerWeights
  <2>3. Load(Settled \cup {a}, AnswerWeights') = Load(Settled, AnswerWeights') + n
    BY <1>3, <1>17, <2>1, <2>2, LoadAdd
  <2>4. Settled \cup {a} \subseteq Settled'
    BY <1>16, <1>17
  <2>5. Load(Settled \cup {a}, AnswerWeights') <= Load(Settled', AnswerWeights')
    BY <2>1, <2>4, LoadMonotone
  <2>6. seen.fulfilled <= Load(Settled, AnswerWeights)
    BY <1>1, <1>2 DEF Inv, Sums
  <2>7. call'.fulfilled <= Load(Settled', AnswerWeights')
    BY <1>3, <1>4, <1>7, <2>1, <2>3, <2>5, <2>6
  <2>8. ASSUME NEW s \in Requests, Remembers(request'[s])
        PROVE  request'[s].seen.fulfilled <= Load(Settled', AnswerWeights')
    <3>1. request'[s] = request[s] /\ Remembers(request[s])
      BY <1>11, <1>13, <2>8 DEF Remembers
    <3>2. request[s].seen.fulfilled <= Load(Settled, AnswerWeights)
      BY <3>1 DEF Inv, Sums
    <3>3. request[s].seen.fulfilled \in Nat
      <4>1. request[s].seen \in Seen
        BY <3>1, RequestFields DEF Inv, Handlers
      <4>2. \A k \in Total : k \in Nat
        BY FS_CardinalityType, MaxQtyAssumption, ProcurementAssumption DEF Total
      <4> QED
        BY <4>1, <4>2 DEF Seen
    <3> QED
      BY <2>1, <3>1, <3>2, <3>3
  <2> QED
    BY <2>7, <2>8 DEF Sums, Remembers
<1> QED
  BY <1>8, <1>9, <1>14, <1>15, <1>16, <1>18 DEF Inv

\* The orders of an RFQ, and those of createOrder.
LEMMA ConvertKeeps ==
    ASSUME Inv, NEW r \in Requests, ConvertOrder(r)
    PROVE  Inv'
<1>1. PICK a : a = request[r].answer
  OBVIOUS
<1>2. /\ a \in Answers /\ answer[a].status # "absent" /\ request[r].op = "convert"
      /\ call' = call /\ Finish(r)
  BY <1>1, RequestFields DEF ConvertOrder, Inv, Handlers, Relies, HasAnswer
<1>3. CASE answer[a].order = "none" /\ InsertOrder(a, "batch")
  <2>1. /\ Rows' /\ Kept /\ AwardedToAreAwarded'
        /\ answer'[a].order = "batch" /\ answer'[a].batch = answer[a].batch
        /\ \A b \in Answers : b # a => answer'[b] = answer[b]
    BY <1>2, <1>3, OrderInserted
  <2> QED
    BY <1>2, <2>1, PlainEnd
<1>4. CASE answer' = answer
  <2>1. Rows' /\ Kept
    BY <1>2, <1>4 DEF Inv, Rows, Kept, Given
  <2>2. AwardedToAreAwarded'
    BY <1>2, <1>4, <2>1, AwardsStay DEF Inv
  <2> QED
    BY <1>2, <1>4, <2>1, <2>2, PlainEnd
<1> QED
  BY <1>1, <1>3, <1>4 DEF ConvertOrder

LEMMA PlaceInsertKeeps ==
    ASSUME Inv, NEW r \in Requests, PlaceInsert(r)
    PROVE  Inv'
<1>1. PICK a : a = request[r].answer
  OBVIOUS
<1>2. /\ a \in Answers /\ answer[a].status # "absent" /\ request[r].op = "place"
      /\ call' = call /\ call.status # "absent"
      /\ request[r] \in Request
  BY <1>1, RequestFields DEF PlaceInsert, Inv, Handlers, Relies, HasAnswer, Idle
<1>3. CASE answer[a].order = "none" /\ InsertOrder(a, "own") /\ Then(r, "follow")
  <2>1. /\ Rows' /\ Kept /\ AwardedToAreAwarded'
        /\ answer'[a].order = "own" /\ answer'[a].batch = answer[a].batch
        /\ \A b \in Answers : b # a => answer'[b] = answer[b]
    BY <1>2, <1>3, OrderInserted
  <2>2. PICK q : q = [op |-> "follow", answer |-> a]
    OBVIOUS
  <2>3. q \in Request /\ q.op = "follow" /\ q.answer = a
    BY <1>2, <2>2, RequestShapes
  <2>4. Goto(r, q)
    <3>1. request[r] = [op |-> "place", answer |-> a]
      BY <1>1, <1>2, RequestFields
    <3>2. [request[r] EXCEPT !.op = "follow"] = q
      BY <2>2, <3>1
    <3> QED
      BY <1>3, <3>2 DEF Then
  <2>5. Relies(q)' /\ Takes(r, q) /\ Sees(r, q)
    <3>1. answer'[a].status # "absent" /\ answer'[a].order # "none"
      BY <1>2, <2>1 DEF Kept, Given
    <3> QED
      BY <1>2, <1>3, <2>3, <3>1 DEF Relies, Takes, Sees, Converting, Remembers
  <2> QED
    BY <1>2, <2>1, <2>3, <2>4, <2>5, PlainStep
<1>4. CASE answer' = answer /\ Finish(r)
  <2>1. Rows' /\ Kept
    BY <1>2, <1>4 DEF Inv, Rows, Kept, Given
  <2>2. AwardedToAreAwarded'
    BY <1>2, <1>4, <2>1, AwardsStay DEF Inv
  <2> QED
    BY <1>2, <1>4, <2>1, <2>2, PlainEnd
<1> QED
  BY <1>1, <1>3, <1>4 DEF PlaceInsert

LEMMA PlaceFollowKeeps ==
    ASSUME Inv, NEW r \in Requests, PlaceFollow(r)
    PROVE  Inv'
<1>1. PICK a : a = request[r].answer
  OBVIOUS
<1>2. /\ a \in Answers /\ answer[a].status # "absent" /\ answer[a].order # "none"
      /\ request[r].op = "follow" /\ call.status # "absent" /\ request[r] \in Request
  BY <1>1, RequestFields
     DEF PlaceFollow, Inv, Handlers, Relies, HasAnswer, Converting, Idle
<1>3. PICK to \in {"AWARDED", "converted"} : SetAnswer(a, to)
  BY <1>1 DEF PlaceFollow
<1>4. to \in AnswerStatuses /\ to # "accepted"
  BY DEF AnswerStatuses, ResponseStatuses
<1>5. /\ Rows' /\ Kept /\ AwardedToAreAwarded'
      /\ call'.fulfilled = call.fulfilled /\ call'.totalResponses = call.totalResponses
      /\ \A b \in Answers : /\ answer'[b].order = answer[b].order
                            /\ b # a => answer'[b] = answer[b]
                            /\ answer'[a].status = to
  BY <1>2, <1>3, <1>4, AnswerSet
<1>6. CASE call.kind = "rfq"
  <2>1. Finish(r)
    BY <1>6 DEF PlaceFollow
  <2> QED
    BY <1>2, <1>4, <1>5, <2>1, PlainEnd
<1>7. CASE call.kind # "rfq"
  <2>1. call.kind = "sourcing"
    BY <1>7 DEF Inv, Rows, Kinds
  <2>2. PICK q : q = [op |-> "look", answer |-> a]
    OBVIOUS
  <2>3. q \in Request /\ q.op = "look" /\ q.answer = a
    BY <1>2, <2>2, RequestShapes
  <2>4. Goto(r, q)
    <3>1. request[r] = [op |-> "follow", answer |-> a]
      BY <1>1, <1>2, RequestFields
    <3>2. [request[r] EXCEPT !.op = "look"] = q
      BY <2>2, <3>1
    <3> QED
      BY <1>7, <3>2 DEF PlaceFollow, Then
  <2>5. Relies(q)' /\ Takes(r, q) /\ Sees(r, q)
    <3>1. /\ answer'[a].status # "absent" /\ answer'[a].order # "none"
          /\ call'.status # "absent" /\ call'.kind = "sourcing"
      BY <1>2, <1>5, <2>1 DEF Kept, Given
    <3> QED
      BY <1>1, <1>2, <2>3, <3>1 DEF Relies, Takes, Sees, Converting, Remembers
  <2> QED
    BY <1>2, <1>4, <1>5, <2>3, <2>4, <2>5, PlainStep
<1> QED
  BY <1>6, <1>7

\* What is seen now leaves out the answer, which its handler still has in progress.
LEMMA PlaceLookKeeps ==
    ASSUME Inv, NEW r \in Requests, PlaceLook(r)
    PROVE  Inv'
<1>1. PICK a : a = request[r].answer
  OBVIOUS
<1>2. /\ a \in Answers /\ answer[a].status # "absent" /\ answer[a].order # "none"
      /\ request[r].op = "look" /\ call.status # "absent" /\ call.kind = "sourcing"
      /\ UNCHANGED <<call, answer>>
  BY <1>1, RequestFields
     DEF PlaceLook, Inv, Handlers, Relies, HasAnswer, Converting, Idle
<1>3. PICK seen : seen = [fulfilled |-> call.fulfilled, quantity |-> call.quantity,
                          status |-> call.status]
  OBVIOUS
<1>4. seen \in Seen /\ seen.fulfilled = call.fulfilled
  BY <1>2, <1>3, FulfilledInTotal DEF Seen, Inv, Rows
<1>5. PICK q : q = [op |-> "fulfil", answer |-> a, seen |-> seen]
  OBVIOUS
<1>6. q \in Request /\ q.op = "fulfil" /\ q.answer = a /\ q.seen = seen
  BY <1>2, <1>4, <1>5, RequestShapes
<1>7. Goto(r, q)
  BY <1>1, <1>3, <1>5 DEF PlaceLook
<1>8. Relies(q) /\ Takes(r, q) /\ Sees(r, q)
  BY <1>1, <1>2, <1>4, <1>6 DEF Relies, Takes, Sees, Converting, Remembers
<1> QED
  BY <1>2, <1>6, <1>7, <1>8, ReadStep

-----------------------------------------------------------------------------
(* The invariant, and what it says.                                        *)

LEMMA InitEstablishes == Init => Inv
<1> SUFFICES ASSUME Init
             PROVE  Inv
  OBVIOUS
<1>1. PICK f : f \in Farmers /\ f = CHOOSE g \in Farmers : TRUE
  BY ProcurementAssumption
<1>2. 0 \in Quantity
  BY MaxQtyAssumption DEF Quantity
<1>3. /\ call.kind \in Kinds /\ call.status = "absent" /\ call.quantity = 0
      /\ call.fulfilled = 0 /\ call.awardedTo = {} /\ call.totalResponses = 0
      /\ call = [kind |-> call.kind, status |-> "absent", quantity |-> 0, fulfilled |-> 0,
                 awardedTo |-> {}, totalResponses |-> 0]
  BY DEF Init
<1>4. answer = [a \in Answers |-> [status |-> "absent", farmer |-> f, batch |-> None,
                                   quantity |-> 0, order |-> "none"]]
  BY <1>1 DEF Init
<1>5. \A a \in Answers : answer[a].status = "absent" /\ answer[a].order = "none"
  BY <1>4
<1>6. \A r \in Requests : request[r] = Idle /\ request[r].op = "idle"
  BY DEF Init, Idle
<1>7. Given = {} /\ Settled = {} /\ Uncounted = {}
  BY <1>5, <1>6 DEF Given, Settled, Ordered, Uncounted
<1>8. Rows
  <2>1. call \in [kind : Kinds, status : CallStatuses \cup {"absent"}, quantity : Quantity,
                  fulfilled : Nat, awardedTo : SUBSET Farmers, totalResponses : Nat]
    BY <1>2, <1>3
  <2>2. answer \in [Answers -> AnswerRow]
    BY <1>1, <1>2, <1>4 DEF AnswerRow, Orders
  <2> QED
    BY <1>3, <1>5, <1>7, <2>1, <2>2 DEF Rows
<1>9. Handlers
  <2>1. request \in [Requests -> Request]
    BY RequestShapes DEF Init
  <2> QED
    BY <1>6, <2>1 DEF Handlers, Relies, HasAnswer, Converting, Remembers
<1>10. OneConverter
  BY <1>6 DEF OneConverter, Converting
<1>11. Sums
  <2>1. Load(Settled, AnswerWeights) = 0
    BY <1>7, LoadEmpty
  <2> QED
    BY <1>3, <1>6, <2>1 DEF Sums, Remembers
<1>12. Counts
  <2>1. Cardinality(Given) = 0 /\ Cardinality(Uncounted) = 0
    BY <1>7, FS_EmptySet
  <2> QED
    BY <1>3, <2>1 DEF Counts
<1>13. AwardedToAreAwarded /\ AcceptedIsOnItsWay
  BY <1>3, <1>5 DEF AwardedToAreAwarded, AcceptedIsOnItsWay
<1> QED
  BY <1>8, <1>9, <1>10, <1>11, <1>12, <1>13 DEF Inv

LEMMA NextKeeps == Inv /\ [Next]_vars => Inv'
<1> SUFFICES ASSUME Inv, [Next]_vars
             PROVE  Inv'
  OBVIOUS
<1>1. CASE \/ \E n \in Asked :
                  CreateRFQ(n) \/ \E status \in CallStatuses : CreateSourcingRequest(n, status)
           \/ \E status \in CallStatuses : SetSourcing(status)
  BY <1>1, CallSteps
<1>2. ASSUME NEW a \in Answers, NEW to \in Verdicts, SetResponse(a, to)
      PROVE  Inv'
  BY <1>2, SetResponseKeeps
<1>3. ASSUME NEW r \in Requests, HandlerStart(r)
      PROVE  Inv'
  BY <1>3, Starts
<1>4. ASSUME NEW r \in Requests, HandlerStep(r)
      PROVE  Inv'
  BY <1>4, CallWrites, SubmitKeeps, CountKeeps, AwardKeeps, CancelKeeps, AcceptWriteKeeps,
     AcceptOrderKeeps, AcceptLinkKeeps, FulfilKeeps, ConvertKeeps, PlaceInsertKeeps,
     PlaceFollowKeeps, PlaceLookKeeps DEF HandlerStep
<1>5. CASE UNCHANGED vars
  <2>1. call' = call /\ answer' = answer /\ request' = request
    BY <1>5 DEF vars
  <2>2. Rows' /\ Kept
    BY <2>1 DEF Inv, Rows, Kept, Given
  <2>3. AwardedToAreAwarded'
    BY <2>1, <2>2, AwardsStay DEF Inv
  <2> QED
    BY <2>1, <2>2, <2>3, NobodyMoves
<1> QED
  BY <1>1, <1>2, <1>3, <1>4, <1>5 DEF Next

LEMMA Invariance == Spec => []Inv
<1> QED
  BY InitEstablishes, NextKeeps, PTL DEF Spec

\* The columns of a call and its answers keep to their types and, whatever sums handlers
\* write from what they saw before, the fulfilled quantity and the number of responses
\* stay within what the answers can add.
THEOREM TypeCorrect == Spec => []TypeOK
<1>1. ASSUME Inv
      PROVE  TypeOK
  <2>1. call.fulfilled \in Total
    BY <1>1, FulfilledInTotal DEF Inv
  <2>2. call.totalResponses \in 0 .. 2 * Cardinality(Answers)
    <3>1. Given \in SUBSET Answers /\ Uncounted \in SUBSET Requests
      BY DEF Given, Uncounted
    <3>2. Cardinality(Given) <= Cardinality(Answers) /\ IsFiniteSet(Given) /\ IsFiniteSet(Uncounted)
      BY <3>1, FS_Subset, ProcurementAssumption
    <3>3. /\ Cardinality(Given) \in Nat /\ Cardinality(Answers) \in Nat
          /\ Cardinality(Uncounted) \in Nat /\ call.totalResponses \in Nat
      BY <1>1, <3>2, FS_CardinalityType, ProcurementAssumption DEF Inv, Rows
    <3> QED
      BY <1>1, <3>2, <3>3 DEF Inv, Counts
  <2> QED
    BY <1>1, <2>1, <2>2 DEF Inv, Rows, Handlers, TypeOK, CallTypeOK, AnswerRow
<1> QED
  BY <1>1, Invariance, PTL

\* What a call counts as fulfilled never exceeds the offers that have become orders, for
\* any number of acceptances and orders that write sums of what they saw several awaits
\* before.
THEOREM FulfilledHasOrders == Spec => []FulfilledIsOrdered
<1>1. ASSUME Inv
      PROVE  FulfilledIsOrdered
  BY <1>1, FulfilledInTotal DEF Inv, AnswerWeights, FulfilledIsOrdered
<1> QED
  BY <1>1, Invariance, PTL

\* The list of awarded suppliers, which a trigger of the database keeps, names only
\* suppliers with an awarded response, however awards, cancellations and changes of
\* status cross.
THEOREM AwardListIsTrue == Spec => []AwardedToAreAwarded
<1>1. Inv => AwardedToAreAwarded
  BY DEF Inv
<1> QED
  BY <1>1, Invariance, PTL

\* An accepted offer whose batch is known and free has its order, or a handler on its way
\* to insert it.
THEOREM NothingStrandsAccepted == Spec => []AcceptedIsOnItsWay
<1>1. Inv => AcceptedIsOnItsWay
  BY DEF Inv
<1> QED
  BY <1>1, Invariance, PTL
=============================================================================
