------------------------ MODULE ListingsAndUssd_proofs ------------------------
(***************************************************************************)
(* Theorems about Listings, for any numbers of handlers and lead farmers   *)
(* and any terms; about UssdSession, for any lists, any keys and calls of  *)
(* any length; and about UssdCalls, for any calls that overlap.  The menu  *)
(* and the listings share no state.                                        *)
(***************************************************************************)
EXTENDS Listings, UssdSession, UssdCalls, FiniteSetTheorems, TLAPS

-----------------------------------------------------------------------------
(***************************************************************************)
(* Listings.  The status ACTIVE has two writers: a lead farmer, who writes *)
(* the approval with it, and the stock-in that makes the row.  No other    *)
(* statement writes an approval or a reason and leaves a status that it    *)
(* did not write.  The stored total has one writer, which empties it       *)
(* unless it writes both terms.                                            *)
(***************************************************************************)

\* A negotiation that is not there has no total.
NoTotalYet == negotiation.status = "absent" => negotiation.total = None

\* A handler links an order that was made.
LinksMadeOrders ==
    \A r \in Requests : request[r].op = "convert" => request[r].order \in 1 .. orders

Inv ==
    /\ TypeOK
    /\ NoTotalYet
    /\ LinksMadeOrders
    /\ PostedIsApproved
    /\ TotalMatchesTerms

LEMMA ListingInit ==
    ASSUME ListingsAssumption, Init
    PROVE  Inv
<1>1. TypeOK
  <2>1. request \in [Requests -> Request]
    BY DEF Init, Idle, Request
  <2> QED
    BY <2>1, ListingsAssumption DEF Init, Row, TypeOK
<1> QED
  BY <1>1 DEF Init, Row, Idle, Inv, NoTotalYet, LinksMadeOrders, PostedIsApproved, TotalMatchesTerms

-----------------------------------------------------------------------------
(* The listing.                                                            *)

ListingRow == [status : ListingStatuses \cup {"absent", "deleted"},
               approvedBy : Leads \cup {None}, reason : BOOLEAN, fromStock : BOOLEAN]

\* A row that buyers see was approved, or made by a stock-in.
Approved(row) ==
    row.status = "ACTIVE" => ~row.reason /\ (row.approvedBy \in Leads \/ row.fromStock)

\* A step that writes the listing and moves handler r to a request of its type.
LEMMA ListingStep ==
    ASSUME Inv, UNCHANGED <<negotiation, recurring, orders>>,
           listing' \in ListingRow, Approved(listing'),
           request' \in [Requests -> Request],
           \A s \in Requests : request'[s] = request[s] \/ request'[s].op # "convert"
    PROVE  Inv'
<1>1. TypeOK'
  BY DEF Inv, TypeOK, ListingRow
<1>2. LinksMadeOrders'
  BY DEF Inv, LinksMadeOrders
<1> QED
  BY <1>1, <1>2 DEF Inv, NoTotalYet, PostedIsApproved, Approved, TotalMatchesTerms

\* A handler that reads the listing.
LEMMA ListingRead ==
    ASSUME Inv, UNCHANGED <<listing, negotiation, recurring, orders>>, NEW r \in Requests,
           NEW q \in Request, q.op # "convert", Begin(r, q)
    PROVE  Inv'
<1>1. listing' \in ListingRow /\ Approved(listing')
  BY DEF Inv, TypeOK, ListingRow, PostedIsApproved, Approved
<1>2. request' \in [Requests -> Request]
  BY DEF Inv, TypeOK, Begin
<1>3. \A s \in Requests : request'[s] = request[s] \/ request'[s].op # "convert"
  BY DEF Inv, TypeOK, Begin
<1> QED
  BY <1>1, <1>2, <1>3, ListingStep

\* A handler that writes the listing last.
LEMMA ListingWrite ==
    ASSUME Inv, UNCHANGED <<negotiation, recurring, orders>>, NEW r \in Requests, NEW op,
           Finish(r, op), listing' \in ListingRow, Approved(listing')
    PROVE  Inv'
<1>1. Idle \in Request /\ Idle.op # "convert"
  BY DEF Idle, Request
<1>2. /\ request' \in [Requests -> Request]
      /\ \A s \in Requests : request'[s] = request[s] \/ request'[s].op # "convert"
  BY <1>1 DEF Inv, TypeOK, Finish
<1> QED
  BY <1>2, ListingStep

\* No update writes ACTIVE: the status of the row that it read is not what it writes over.
LEMMA UpdatedRow ==
    ASSUME NEW row \in ListingRow, Approved(row), NEW q \in Request, q.op = "update"
    PROVE  Updated(row, q) \in ListingRow /\ Approved(Updated(row, q))
<1>1. q.to \in ListingStatuses \cup {"none"} /\ q.resubmit \in BOOLEAN
  BY DEF Request
<1>2. CASE q.resubmit
  <2>1. Updated(row, q) = [row EXCEPT !.status = "PENDING_LEAD_APPROVAL", !.reason = FALSE]
    BY <1>2 DEF Updated
  <2> QED
    BY <2>1 DEF ListingRow, ListingStatuses, Approved
<1>3. CASE ~q.resubmit /\ q.to \in {"none", "ACTIVE"}
  BY <1>3 DEF Updated
<1>4. CASE ~q.resubmit /\ q.to \notin {"none", "ACTIVE"}
  <2>1. Updated(row, q) = [row EXCEPT !.status = q.to]
    BY <1>4 DEF Updated
  <2>2. q.to \in ListingStatuses /\ q.to # "ACTIVE"
    BY <1>1, <1>4
  <2> QED
    BY <2>1, <2>2 DEF ListingRow, Approved
<1> QED
  BY <1>1, <1>2, <1>3, <1>4

LEMMA ListingKeeps ==
    ASSUME Inv, NEW r \in Requests, ListingNext(r)
    PROVE  Inv'
<1>1. listing \in ListingRow /\ Approved(listing) /\ request[r] \in Request
  BY DEF Inv, TypeOK, ListingRow, PostedIsApproved, Approved
<1>2. ASSUME NEW asked \in Asked, UpdateRead(r, asked)
      PROVE  Inv'
  <2>1. PICK to, resubmit : /\ to = NormalizeStatus(asked)
                            /\ resubmit = (/\ listing.status = "REVISION_REQUESTED"
                                           /\ to = "PENDING_LEAD_APPROVAL")
    OBVIOUS
  <2>2. to \in ListingStatuses \cup {"none"} /\ resubmit \in BOOLEAN
    BY <2>1 DEF NormalizeStatus, Asked, ListingStatuses
  <2>3. PICK q : q = [op |-> "update", to |-> to, resubmit |-> resubmit]
    OBVIOUS
  <2>4. q \in Request /\ q.op = "update"
    BY <2>2, <2>3 DEF Request
  <2> QED
    BY <1>2, <2>1, <2>3, <2>4, ListingRead DEF UpdateRead
<1>3. CASE UpdateWrite(r)
  BY <1>1, <1>3, UpdatedRow, ListingWrite DEF UpdateWrite, Finish
<1>4. ASSUME NEW lead \in Leads, ApproveRead(r, lead)
      PROVE  Inv'
  <2>1. [op |-> "approve", lead |-> lead] \in Request
    BY DEF Request
  <2> QED
    BY <1>4, <2>1, ListingRead DEF ApproveRead
<1>5. CASE ApproveWrite(r)
  <2>1. request[r].lead \in Leads
    BY <1>1, <1>5 DEF ApproveWrite, Finish, Request
  <2>2. listing' \in ListingRow /\ Approved(listing')
    BY <1>1, <1>5, <2>1 DEF ApproveWrite, ListingRow, ListingStatuses, Approved
  <2> QED
    BY <1>5, <2>2, ListingWrite DEF ApproveWrite
<1>6. ASSUME NEW reason \in BOOLEAN, RejectRead(r, reason)
      PROVE  Inv'
  <2>1. [op |-> "reject", reason |-> reason] \in Request
    BY DEF Request
  <2> QED
    BY <1>6, <2>1, ListingRead DEF RejectRead
<1>7. CASE RejectWrite(r)
  <2>1. request[r].reason \in BOOLEAN
    BY <1>1, <1>7 DEF RejectWrite, Finish, Request
  <2>2. listing' \in ListingRow /\ Approved(listing')
    BY <1>1, <1>7, <2>1 DEF RejectWrite, ListingRow, ListingStatuses, Approved
  <2> QED
    BY <1>7, <2>2, ListingWrite DEF RejectWrite
<1> QED
  BY <1>2, <1>3, <1>4, <1>5, <1>6, <1>7 DEF ListingNext

\* The row is posted, made by a stock-in or deleted, by handlers of one statement.
LEMMA PostOrDeleteKeeps ==
    ASSUME Inv, CreateListing \/ ListStockIn \/ DeleteListing
    PROVE  Inv'
<1>1. UNCHANGED <<negotiation, recurring, orders, request>>
  BY DEF CreateListing, ListStockIn, DeleteListing
<1>2. listing' \in ListingRow /\ Approved(listing')
  <2>1. ASSUME NEW status \in {"PENDING_LEAD_APPROVAL", "ACTIVE"}, NEW stocked \in BOOLEAN,
               listing' = Row(status, stocked), status = "ACTIVE" => stocked
        PROVE  listing' \in ListingRow /\ Approved(listing')
    BY <2>1 DEF Row, ListingRow, ListingStatuses, Approved
  <2>2. CASE DeleteListing
    <3>1. listing \in ListingRow /\ listing' = [listing EXCEPT !.status = "deleted"]
      BY <2>2 DEF DeleteListing, Inv, TypeOK, ListingRow
    <3> QED
      BY <3>1 DEF ListingRow, Approved
  <2> QED
    BY <2>1, <2>2 DEF CreateListing, ListStockIn
<1>3. request' \in [Requests -> Request]
  BY <1>1 DEF Inv, TypeOK
<1> QED
  BY <1>1, <1>2, <1>3, ListingStep

-----------------------------------------------------------------------------
(* The negotiation.                                                        *)

Totals == {p * q : p, q \in Terms}

NegotiationRow == [status : NegotiationStatuses \cup {"absent"},
                   price : Terms \cup {None}, quantity : Terms \cup {None},
                   total : Totals \cup {None},
                   order : 1 .. orders \cup {None}]

\* A step that writes the negotiation only.
LEMMA NegotiationStep ==
    ASSUME Inv, UNCHANGED <<listing, recurring, orders, request>>,
           negotiation' \in NegotiationRow, negotiation'.status # "absent", TotalMatchesTerms'
    PROVE  Inv'
<1>1. TypeOK'
  BY DEF Inv, TypeOK, NegotiationRow, Totals
<1> QED
  BY <1>1 DEF Inv, NoTotalYet, LinksMadeOrders, PostedIsApproved

\* The total is written with both of its terms, or not at all.
LEMMA MessageKeeps ==
    ASSUME Inv, NEW price \in Terms \cup {None}, NEW quantity \in Terms \cup {None},
           SendNegotiationMessage(price, quantity)
    PROVE  Inv'
<1>1. negotiation \in NegotiationRow /\ UNCHANGED <<listing, recurring, orders, request>>
  BY DEF Inv, TypeOK, NegotiationRow, Totals, SendNegotiationMessage
<1>2. PICK newPrice, newQuantity :
          /\ newPrice = Or(price, negotiation.price)
          /\ newQuantity = Or(quantity, negotiation.quantity)
  OBVIOUS
<1>3. newPrice \in Terms \cup {None} /\ newQuantity \in Terms \cup {None}
  BY <1>1, <1>2 DEF Or, NegotiationRow
<1>4. CASE Positive(price) /\ Positive(quantity)
  <2>1. /\ newPrice = price /\ price \in Terms
        /\ newQuantity = quantity /\ quantity \in Terms
    BY <1>2, <1>4 DEF Or, Positive
  <2>2. negotiation' = [negotiation EXCEPT !.status = "COUNTER_OFFER", !.price = price,
                                           !.quantity = quantity, !.total = price * quantity]
    BY <1>2, <1>4, <2>1 DEF SendNegotiationMessage
  <2>3. price * quantity \in Totals
    BY <2>1 DEF Totals
  <2>4. negotiation' \in NegotiationRow /\ negotiation'.status = "COUNTER_OFFER"
    BY <1>1, <2>1, <2>2, <2>3 DEF NegotiationRow, NegotiationStatuses
  <2>5. TotalMatchesTerms'
    BY <1>1, <2>2 DEF TotalMatchesTerms, NegotiationRow
  <2> QED
    BY <1>1, <2>4, <2>5, NegotiationStep
<1>5. CASE ~(Positive(price) /\ Positive(quantity))
  <2>1. negotiation' = [negotiation EXCEPT !.status = "COUNTER_OFFER", !.price = newPrice,
                                           !.quantity = newQuantity, !.total = None]
    BY <1>2, <1>5 DEF SendNegotiationMessage
  <2>2. negotiation' \in NegotiationRow /\ negotiation'.status = "COUNTER_OFFER"
    BY <1>1, <1>3, <2>1 DEF NegotiationRow, NegotiationStatuses
  <2>3. TotalMatchesTerms'
    BY <1>1, <2>1 DEF TotalMatchesTerms, NegotiationRow
  <2> QED
    BY <1>1, <2>2, <2>3, NegotiationStep
<1> QED
  BY <1>4, <1>5

LEMMA NegotiationKeeps ==
    ASSUME Inv, NegotiationNext
    PROVE  Inv'
<1>1. negotiation \in NegotiationRow
  BY DEF Inv, TypeOK, NegotiationRow, Totals
<1>2. ASSUME NEW price \in Terms, NEW quantity \in Terms, InitiateNegotiation(price, quantity)
      PROVE  Inv'
  <2>1. negotiation' = [negotiation EXCEPT !.status = "PENDING", !.price = price,
                                           !.quantity = quantity]
    BY <1>2 DEF InitiateNegotiation
  <2>2. negotiation' \in NegotiationRow /\ negotiation'.status = "PENDING"
    BY <1>1, <2>1 DEF NegotiationRow, NegotiationStatuses
  <2>3. negotiation'.total = None
    BY <1>1, <1>2, <2>1 DEF NegotiationRow, InitiateNegotiation, Negotiated, Inv, NoTotalYet
  <2> QED
    BY <1>2, <2>2, <2>3, NegotiationStep DEF TotalMatchesTerms, InitiateNegotiation
<1>3. ASSUME NEW status \in {"ACCEPTED", "REJECTED"},
             negotiation' = [negotiation EXCEPT !.status = status],
             UNCHANGED <<listing, recurring, orders, request>>
      PROVE  Inv'
  <2>1. negotiation' \in NegotiationRow /\ negotiation'.status = status
    BY <1>1, <1>3 DEF NegotiationRow, NegotiationStatuses
  <2>2. TotalMatchesTerms'
    BY <1>1, <1>3 DEF NegotiationRow, Inv, TotalMatchesTerms
  <2> QED
    BY <1>3, <2>1, <2>2, NegotiationStep
<1>4. CASE AcceptNegotiation \/ RejectNegotiation
  BY <1>3, <1>4 DEF AcceptNegotiation, RejectNegotiation
<1> QED
  BY <1>2, <1>4, MessageKeeps DEF NegotiationNext

\* The order is counted before a handler may link it.
LEMMA PlaceOrderKeeps ==
    ASSUME ListingsAssumption, Inv, NEW r \in Requests, PlaceOrder(r)
    PROVE  Inv'
<1>1. /\ orders \in Nat /\ orders' = orders + 1 /\ orders' \in 1 .. MaxOrders
      /\ UNCHANGED <<listing, negotiation, recurring>>
  BY ListingsAssumption DEF PlaceOrder, Inv, TypeOK
<1>2. \A n : n \in 1 .. orders => n \in 1 .. orders'
  BY <1>1
<1>3. PICK q : q = [op |-> "convert", order |-> orders']
  OBVIOUS
<1>4. q \in Request /\ q.order \in 1 .. orders'
  BY <1>1, <1>3 DEF Request
<1>5. request' = [request EXCEPT ![r] = q]
  BY <1>3 DEF PlaceOrder, Begin
<1>6. TypeOK'
  <2>1. negotiation' \in NegotiationRow'
    BY <1>1, <1>2 DEF Inv, TypeOK, NegotiationRow, Totals
  <2>2. request' \in [Requests -> Request]
    BY <1>4, <1>5 DEF Inv, TypeOK
  <2>3. orders' \in 0 .. MaxOrders
    BY <1>1, ListingsAssumption
  <2> QED
    BY <1>1, <2>1, <2>2, <2>3 DEF Inv, TypeOK, NegotiationRow, Totals
<1>7. LinksMadeOrders'
  <2>1. ASSUME NEW s \in Requests, request'[s].op = "convert"
        PROVE  request'[s].order \in 1 .. orders'
    <3>1. CASE s = r
      BY <1>4, <1>5, <3>1 DEF Inv, TypeOK
    <3>2. CASE s # r
      BY <1>2, <1>5, <2>1, <3>2 DEF Inv, TypeOK, LinksMadeOrders
    <3> QED
      BY <3>1, <3>2
  <2> QED
    BY <2>1 DEF LinksMadeOrders
<1> QED
  BY <1>1, <1>6, <1>7 DEF Inv, NoTotalYet, PostedIsApproved, TotalMatchesTerms

LEMMA ConvertKeeps ==
    ASSUME Inv, NEW r \in Requests, ConvertNegotiation(r)
    PROVE  Inv'
<1>1. /\ negotiation \in NegotiationRow /\ request[r].order \in 1 .. orders
      /\ UNCHANGED <<listing, recurring, orders>>
  BY DEF Inv, TypeOK, LinksMadeOrders, ConvertNegotiation, Finish, NegotiationRow, Totals
<1>2. negotiation' = [negotiation EXCEPT !.status = "CONVERTED", !.order = request[r].order]
  BY DEF ConvertNegotiation
<1>3. negotiation' \in NegotiationRow /\ negotiation'.status = "CONVERTED"
  BY <1>1, <1>2 DEF NegotiationRow, NegotiationStatuses
<1>4. TotalMatchesTerms'
  BY <1>1, <1>2 DEF NegotiationRow, Inv, TotalMatchesTerms
<1>5. /\ request' \in [Requests -> Request]
      /\ \A s \in Requests : request'[s] = request[s] \/ request'[s].op # "convert"
  BY DEF Inv, TypeOK, ConvertNegotiation, Finish, Idle, Request
<1>6. TypeOK'
  BY <1>1, <1>3, <1>5 DEF Inv, TypeOK, NegotiationRow, Totals
<1>7. LinksMadeOrders'
  BY <1>1, <1>5 DEF Inv, LinksMadeOrders
<1> QED
  BY <1>1, <1>3, <1>4, <1>6, <1>7 DEF Inv, NoTotalYet, PostedIsApproved

-----------------------------------------------------------------------------

\* The recurring order's two columns are written together.
LEMMA RecurringKeeps ==
    ASSUME Inv, RecurringNext
    PROVE  Inv'
<1>1. PICK status \in {"absent", "active", "paused", "cancelled"} :
          /\ recurring' = [status |-> status, isActive |-> status = "active"]
          /\ UNCHANGED <<listing, negotiation, orders, request>>
  BY DEF RecurringNext, CreateRecurringOrder, UpdateRecurringOrder, DeleteRecurringOrder
<1>2. PICK active \in BOOLEAN : active <=> status = "active"
  OBVIOUS
<1>3. recurring' = [status |-> status, isActive |-> active]
  BY <1>1, <1>2
<1>4. TypeOK'
  BY <1>1, <1>2, <1>3 DEF Inv, TypeOK
<1> QED
  BY <1>1, <1>4
     DEF Inv, NoTotalYet, LinksMadeOrders, PostedIsApproved, TotalMatchesTerms

LEMMA ListingNextKeeps ==
    ASSUME ListingsAssumption, Inv, [Next]_vars
    PROVE  Inv'
<1>1. CASE CreateListing \/ ListStockIn \/ DeleteListing
  BY <1>1, PostOrDeleteKeeps
<1>2. ASSUME NEW r \in Requests, ListingNext(r) \/ PlaceOrder(r) \/ ConvertNegotiation(r)
      PROVE  Inv'
  BY <1>2, ListingKeeps, PlaceOrderKeeps, ConvertKeeps
<1>3. CASE NegotiationNext
  BY <1>3, NegotiationKeeps
<1>4. CASE RecurringNext
  BY <1>4, RecurringKeeps
<1>5. CASE UNCHANGED vars
  BY <1>5 DEF vars, Inv, TypeOK, NoTotalYet, LinksMadeOrders, PostedIsApproved,
              TotalMatchesTerms
<1> QED
  BY <1>1, <1>2, <1>3, <1>4, <1>5 DEF Next

LEMMA Invariance == Spec => []Inv
<1>1. Init => Inv
  BY ListingInit, ListingsAssumption
<1>2. Inv /\ [Next]_vars => Inv'
  BY ListingNextKeeps, ListingsAssumption
<1> QED
  BY <1>1, <1>2, PTL DEF Spec

\* The columns of a listing, its negotiation and a recurring order keep to their types; a
\* negotiation is linked to an order that was made, and isActive says what the status says.
THEOREM ListingTypeCorrect == Spec => []TypeOK
<1>1. Inv => TypeOK
  BY DEF Inv
<1> QED
  BY <1>1, Invariance, PTL

\* However approvals, rejections and the farmer's updates overlap, a listing that buyers
\* see carries no reason for a rejection, and was approved by a lead farmer or made by a
\* stock-in.
THEOREM BuyersSeeApprovedOrStocked == Spec => []PostedIsApproved
<1>1. Inv => PostedIsApproved
  BY DEF Inv
<1> QED
  BY <1>1, Invariance, PTL

\* The total of a negotiation is the product of the terms stored with it, whatever offers,
\* acceptances and conversions follow each other.
THEOREM TotalIsOfTerms == Spec => []TotalMatchesTerms
<1>1. Inv => TotalMatchesTerms
  BY DEF Inv
<1> QED
  BY <1>1, Invariance, PTL

-----------------------------------------------------------------------------
(***************************************************************************)
(* The USSD session.  A request runs the state that a walk along all keys  *)
(* of the call ends in, so each property needs to know where walks can     *)
(* end.  First, walks exist and follow Goes key by key (by the least       *)
(* number of keys for which they would not); then, no menu leads back to   *)
(* where a PIN is asked for (Menus), so that the session says which of the *)
(* two a request reaches; then, the invariant: what the session knows of   *)
(* the caller (CallInv), and that what it would do for the chosen row is   *)
(* what the row's page said (PagesInv).                                    *)
(***************************************************************************)

-----------------------------------------------------------------------------
(* Walks.                                                                  *)

\* A set of numbers that is not empty has a least one.
LEMMA Least ==
    ASSUME NEW T \in SUBSET Nat, T # {}
    PROVE  \E x \in T : \A y \in T : x <= y
<1> DEFINE F == {0 .. n : n \in T}
           R == StrictSubsetOrdering(Nat)
<1>1. IsWellFoundedOn(R, FiniteSubsetsOf(Nat))
  BY FS_StrictSubsetOrderingWellFounded
<1>2. F \subseteq FiniteSubsetsOf(Nat)
  <2> SUFFICES ASSUME NEW n \in T
               PROVE  0 .. n \in FiniteSubsetsOf(Nat)
    OBVIOUS
  <2>1. IsFiniteSet(0 .. n)
    BY FS_Interval
  <2> QED
    BY <2>1 DEF FiniteSubsetsOf
<1>3. F # {}
  OBVIOUS
<1> HIDE DEF F, R
<1>4. PICK f \in F : \A g \in F : <<g, f>> \notin R
  BY <1>1, <1>2, <1>3, WFMin
<1>5. PICK x \in T : f = 0 .. x
  BY <1>4 DEF F
<1>6. ASSUME NEW y \in T, y < x
      PROVE  FALSE
  <2>1. 0 .. y \in F
    BY DEF F
  <2>2. 0 .. y \subseteq 0 .. x /\ 0 .. y \subseteq Nat /\ 0 .. x \subseteq Nat
    BY <1>6
  <2>3. x \in 0 .. x /\ x \notin 0 .. y
    BY <1>6
  <2>4. <<0 .. y, 0 .. x>> \in R
    BY <2>2, <2>3 DEF R, StrictSubsetOrdering
  <2> QED
    BY <2>1, <2>4, <1>4, <1>5
<1> QED
  BY <1>6

\* at is the walk along the first n keys.
IsWalk(at, keys, n, s) ==
    at = [i \in 0 .. n |-> IF i = 0 THEN "start" ELSE Goes(at[i - 1], keys[i], s)]

\* There is one: a least number of keys without a walk would be one more than a number with one.
LEMMA WalkExists ==
    ASSUME NEW keys, NEW s, NEW n \in Nat
    PROVE  \E at : IsWalk(at, keys, n, s)
<1> DEFINE T == {m \in Nat : ~ \E at : IsWalk(at, keys, m, s)}
<1> SUFFICES ASSUME T # {}
             PROVE  FALSE
  OBVIOUS
<1>1. PICK m \in T : \A y \in T : m <= y
  <2>1. T \in SUBSET Nat
    OBVIOUS
  <2> HIDE DEF T
  <2> QED
    BY <2>1, Least
<1>2. CASE m = 0
  <2> DEFINE f == [i \in 0 .. 0 |-> "start"]
  <2>1. \A i \in 0 .. 0 : i = 0
    OBVIOUS
  <2>2. [i \in 0 .. 0 |-> IF i = 0 THEN "start" ELSE Goes(f[i - 1], keys[i], s)] = f
    BY <2>1
  <2>3. IsWalk(f, keys, 0, s)
    BY <2>2 DEF IsWalk
  <2> QED
    BY <2>3, <1>2
<1>3. CASE m # 0
  <2>1. m - 1 \in Nat /\ m - 1 \notin T
    BY <1>3, <1>1
  <2>2. PICK f : IsWalk(f, keys, m - 1, s)
    BY <2>1
  <2> DEFINE g == [i \in 0 .. m |-> IF i = m THEN Goes(f[m - 1], keys[m], s) ELSE f[i]]
             h == [i \in 0 .. m |-> IF i = 0 THEN "start" ELSE Goes(g[i - 1], keys[i], s)]
  <2>3. ASSUME NEW i \in 0 .. m
        PROVE  g[i] = IF i = 0 THEN "start" ELSE Goes(g[i - 1], keys[i], s)
    <3>1. CASE i = m
      <4>1. m - 1 \in 0 .. m /\ m - 1 # m
        BY <2>1
      <4>2. g[m - 1] = f[m - 1]
        BY <4>1
      <4> QED
        BY <3>1, <4>2, <1>3
    <3>2. CASE i # m
      <4>1. i \in 0 .. m - 1
        BY <3>2
      <4>2. g[i] = f[i]
        BY <3>2
      <4>3. f[i] = IF i = 0 THEN "start" ELSE Goes(f[i - 1], keys[i], s)
        BY <4>1, <2>2 DEF IsWalk
      <4>4. i # 0 => g[i - 1] = f[i - 1]
        BY <4>1
      <4> QED
        BY <4>2, <4>3, <4>4
    <3> QED
      BY <3>1, <3>2
  <2>4. g = h
    BY <2>3
  <2>5. IsWalk(g, keys, m, s)
    BY <2>4 DEF IsWalk
  <2> QED
    BY <2>5
<1> QED
  BY <1>2, <1>3

\* Each state of the walk follows from the one before.
Steps(at, keys, n, s) ==
    /\ at[0] = "start"
    /\ \A i \in 1 .. n : at[i] = Goes(at[i - 1], keys[i], s)

\* Walk is the last state of such a walk.
LEMMA WalkSteps ==
    ASSUME NEW keys, Len(keys) \in Nat, NEW s
    PROVE  \E at : Walk(keys, s) = at[Len(keys)] /\ Steps(at, keys, Len(keys), s)
<1> DEFINE at == CHOOSE f : IsWalk(f, keys, Len(keys), s)
<1>1. IsWalk(at, keys, Len(keys), s)
  BY WalkExists
<1>2. Walk(keys, s) = at[Len(keys)]
  BY DEF Walk, IsWalk
<1> HIDE DEF at
<1>3. at[0] = "start"
  BY <1>1 DEF IsWalk
<1>4. ASSUME NEW i \in 1 .. Len(keys)
      PROVE  at[i] = Goes(at[i - 1], keys[i], s)
  BY <1>1 DEF IsWalk
<1> QED
  BY <1>2, <1>3, <1>4 DEF Steps

\* No key leads out of M.
Closed(M, s) == \A x \in M : \A v : Goes(x, v, s) \in M

\* What holds after n keys and stays true from state to state, holds after m keys or more.
LEMMA WalkStays ==
    ASSUME NEW M, NEW keys, NEW s, NEW at, NEW n \in Nat, NEW m \in Nat, n <= m,
           Steps(at, keys, m, s), at[n] \in M, Closed(M, s)
    PROVE  at[m] \in M
<1> DEFINE T == {i \in n .. m : at[i] \notin M}
<1> SUFFICES ASSUME T # {}
             PROVE  FALSE
  OBVIOUS
<1>1. PICK i \in T : \A y \in T : i <= y
  <2>1. T \in SUBSET Nat
    OBVIOUS
  <2> HIDE DEF T
  <2> QED
    BY <2>1, Least
<1>2. i - 1 \in n .. m /\ i - 1 \notin T /\ i \in 1 .. m
  BY <1>1
<1>3. at[i] = Goes(at[i - 1], keys[i], s) /\ at[i - 1] \in M
  BY <1>2 DEF Steps
<1> QED
  BY <1>1, <1>3 DEF Closed

-----------------------------------------------------------------------------
(* Routes.                                                                 *)

\* The states that no PIN is asked in.
Menus ==
    {"menu.main", "session.exit", "market.menu", "advisories.menu", "advisories.detail",
     "orders.menu", "orders.more", "orders.view", "orders.pickupDetails",
     "orders.accept", "orders.reject", "orders.confirmPayment",
     "pickups.menu", "pickups.centers", "pickups.centers.more", "pickups.schedules",
     "pickups.schedules.more", "pickups.schedule.detail", "pickups.book.quantity",
     "pickups.book.confirm", "pickups.book.submit", "pickups.bookings.list",
     "pickups.bookings.more", "pickups.bookings.detail", "pickups.bookings.cancel",
     "pickups.bookings.confirm",
     "rfq.menu", "rfq.detail", "rfq.batches", "rfq.price", "rfq.quantity", "rfq.confirm",
     "rfq.submit", "inventory.menu", "inventory.detail", "inventory.price",
     "inventory.price.confirm", "nowhere"}

LEMMA MainRouteMenus == ASSUME NEW v PROVE MainRoute(v) \in Menus
BY DEF MainRoute, Menus

\* No menu leads back to a PIN.
LEMMA MenusStay ==
    ASSUME NEW x \in Menus, NEW v, NEW s
    PROVE  Goes(x, v, s) \in Menus
<1> USE MainRouteMenus DEF PinScreens, Last
<1>1. CASE x \in {"orders.menu", "orders.more", "orders.view", "orders.pickupDetails"}
  <2>1. OrdersRoute(x, v, s) \in Menus
    BY <1>1 DEF OrdersRoute, ListRoute, ViewRoute, Nav, Menus
  <2> QED
    BY <1>1, <2>1 DEF Goes
<1>2. CASE x \in {"rfq.menu", "rfq.detail", "rfq.batches", "rfq.price", "rfq.quantity", "rfq.confirm"}
  <2>1. RfqRoute(x, v, s) \in Menus
    BY <1>2 DEF RfqRoute, ListRoute, OfferRoute, Nav, Menus
  <2> QED
    BY <1>2, <2>1 DEF Goes
<1>3. CASE x \in {"inventory.menu", "inventory.detail", "inventory.price", "inventory.price.confirm"}
  <2>1. InventoryRoute(x, v, s) \in Menus
    BY <1>3 DEF InventoryRoute, ListRoute, Nav, Menus
  <2> QED
    BY <1>3, <2>1 DEF Goes
<1>4. CASE x \in {"pickups.menu", "pickups.centers", "pickups.centers.more", "pickups.schedules",
                  "pickups.schedules.more", "pickups.schedule.detail", "pickups.book.quantity",
                  "pickups.book.confirm", "pickups.bookings.list", "pickups.bookings.more",
                  "pickups.bookings.detail"}
  <2>1. PickupsRoute(x, v, s) \in Menus
    BY <1>4 DEF PickupsRoute, ListRoute, ConfirmRoute, BookingRoute, Nav, Menus
  <2> QED
    BY <1>4, <2>1 DEF Goes
<1>5. CASE x \in {"menu.main", "market.menu", "advisories.menu", "advisories.detail"} \cup Last
  BY <1>5 DEF Goes, ListRoute, Nav, Menus
<1> QED
  BY <1>1, <1>2, <1>3, <1>4, <1>5 DEF Menus

\* The routes of the states that ask for a PIN.
LEMMA PinRoutes ==
    ASSUME NEW v, NEW s
    PROVE  /\ Goes("start", v, s) = IF s.setup THEN "auth.pinSetup.capture" ELSE "auth.verifyPin"
           /\ Goes("auth.pinSetup.capture", v, s)
                = IF s.pinValid THEN "auth.pinSetup.confirm" ELSE "auth.pinSetup.capture"
           /\ Goes("auth.verifyPin", v, s)
                = IF s.verified THEN MainRoute(v) ELSE "auth.verifyPin"
           /\ Goes("auth.pinSetup.confirm", v, s)
                = IF s.verified THEN MainRoute(v) ELSE "auth.pinSetup.capture"
<1>1. \A x \in PinScreens : Goes(x, v, s) = AuthRoute(x, v, s)
  BY DEF Goes, PinScreens, Last
<1> QED
  BY <1>1 DEF AuthRoute, PinScreens

\* The keys of the call and one more.
LEMMA OneMore ==
    ASSUME NEW keys \in Seq(Nat), NEW v \in Nat
    PROVE  /\ Append(keys, v) \in Seq(Nat)
           /\ Len(Append(keys, v)) = Len(keys) + 1
           /\ Len(keys) \in Nat
           /\ Append(keys, v)[Len(keys) + 1] = v
           /\ \A i \in 1 .. Len(keys) : Append(keys, v)[i] = keys[i]
  OBVIOUS

\* at is the walk along the keys k: the n keys of the call, and v.
Walked(keys, v, s, n, at, k) ==
    /\ n \in Nat /\ n = Len(keys)
    /\ Walk(Append(keys, v), s) = at[n + 1]
    /\ Steps(at, k, n + 1, s)
    /\ k[n + 1] = v

\* There is one.
LEMMA WalkOfCall ==
    ASSUME NEW keys \in Seq(Nat), NEW v \in Nat, NEW s
    PROVE  \E n, at, k : Walked(keys, v, s, n, at, k)
<1>1. Len(Append(keys, v)) = Len(keys) + 1 /\ Len(keys) \in Nat
      /\ Append(keys, v)[Len(keys) + 1] = v
  BY OneMore
<1> DEFINE k == Append(keys, v)
<1>2. Len(k) \in Nat
  BY <1>1
<1>3. PICK at : Walk(k, s) = at[Len(k)] /\ Steps(at, k, Len(k), s)
  <2> HIDE DEF k
  <2> QED
    BY <1>2, WalkSteps
<1>4. Walked(keys, v, s, Len(keys), at, k)
  BY <1>1, <1>3 DEF Walked
<1> QED
  BY <1>4

\* Who has given no PIN and has one is asked for it, whatever was typed.
LEMMA WalkToVerify ==
    ASSUME NEW keys \in Seq(Nat), NEW v \in Nat, NEW s, ~s.verified, ~s.setup
    PROVE  Walk(Append(keys, v), s) = "auth.verifyPin"
<1> DEFINE M == {"auth.verifyPin"}
<1>w. PICK n, at, k : Walked(keys, v, s, n, at, k)
  BY WalkOfCall
<1>1. /\ n \in Nat /\ n = Len(keys)
      /\ Walk(Append(keys, v), s) = at[n + 1]
      /\ Steps(at, k, n + 1, s)
      /\ k[n + 1] = v
  BY <1>w DEF Walked
<1>0. at[0] = "start" /\ \A i \in 1 .. n + 1 : at[i] = Goes(at[i - 1], k[i], s)
  BY <1>1 DEF Steps
<1>2. at[1] \in M
  <2>1. at[1] = Goes(at[0], k[1], s)
    BY <1>1, <1>0
  <2> QED
    BY <1>0, <2>1, PinRoutes
<1>3. Closed(M, s)
  BY PinRoutes DEF Closed
<1> HIDE DEF M
<1>4. at[n + 1] \in M
  BY <1>1, <1>2, <1>3, WalkStays
<1> QED
  BY <1>1, <1>4 DEF M

\* Who is to choose a PIN is asked for one, or for the same one again.
LEMMA WalkToSetup ==
    ASSUME NEW keys \in Seq(Nat), NEW v \in Nat, NEW s, ~s.verified, s.setup
    PROVE  /\ Walk(Append(keys, v), s) \in {"auth.pinSetup.capture", "auth.pinSetup.confirm"}
           /\ Walk(Append(keys, v), s) = "auth.pinSetup.confirm" => s.pinValid
<1> DEFINE M == {"auth.pinSetup.capture", "auth.pinSetup.confirm"}
<1>w. PICK n, at, k : Walked(keys, v, s, n, at, k)
  BY WalkOfCall
<1>1. /\ n \in Nat /\ n = Len(keys)
      /\ Walk(Append(keys, v), s) = at[n + 1]
      /\ Steps(at, k, n + 1, s)
      /\ k[n + 1] = v
  BY <1>w DEF Walked
<1>0. at[0] = "start" /\ \A i \in 1 .. n + 1 : at[i] = Goes(at[i - 1], k[i], s)
  BY <1>1 DEF Steps
<1>2. at[1] = "auth.pinSetup.capture"
  <2>1. at[1] = Goes(at[0], k[1], s)
    BY <1>1, <1>0
  <2> QED
    BY <1>0, <2>1, PinRoutes
<1>3. /\ Closed(M, s)
      /\ \A x \in M : \A u : Goes(x, u, s) = "auth.pinSetup.confirm" => s.pinValid
  BY PinRoutes DEF Closed
<1>4. at[1] \in M
  BY <1>2
<1> HIDE DEF M
<1>5. CASE n = 0
  BY <1>1, <1>2, <1>4, <1>5 DEF M
<1>6. CASE n # 0
  <2>1. at[n] \in M
    <3>1. Steps(at, k, n, s) /\ 1 <= n /\ n \in Nat
      BY <1>1, <1>6 DEF Steps
    <3> QED
      BY <1>3, <1>4, <3>1, WalkStays
  <2>2. at[n + 1] = Goes(at[n], k[n + 1], s)
    BY <1>1, <1>0
  <2> QED
    BY <1>1, <1>3, <2>1, <2>2 DEF M, Closed
<1> QED
  BY <1>5, <1>6

\* Who has given the PIN is somewhere in the menus from the second key on.
LEMMA WalkToMenus ==
    ASSUME NEW keys \in Seq(Nat), keys # <<>>, NEW v \in Nat, NEW s, s.verified, ~s.setup
    PROVE  Walk(Append(keys, v), s) \in Menus
<1>w. PICK n, at, k : Walked(keys, v, s, n, at, k)
  BY WalkOfCall
<1>1. /\ n \in Nat /\ n = Len(keys)
      /\ Walk(Append(keys, v), s) = at[n + 1]
      /\ Steps(at, k, n + 1, s)
      /\ k[n + 1] = v
  BY <1>w DEF Walked
<1>0. at[0] = "start" /\ \A i \in 1 .. n + 1 : at[i] = Goes(at[i - 1], k[i], s)
  BY <1>1 DEF Steps
<1>2. n >= 1
  BY <1>1
<1>3. at[1] = "auth.verifyPin"
  <2>1. at[1] = Goes(at[0], k[1], s)
    BY <1>1, <1>0
  <2> QED
    BY <1>0, <2>1, PinRoutes
<1>4. at[2] \in Menus
  <2>1. at[2] = Goes(at[1], k[2], s)
    BY <1>1, <1>0, <1>2
  <2> QED
    BY <1>3, <2>1, PinRoutes, MainRouteMenus
<1>5. Closed(Menus, s)
  BY MenusStay DEF Closed
<1>6. at[n + 1] \in Menus
  BY <1>1, <1>2, <1>4, <1>5, WalkStays
<1> QED
  BY <1>1, <1>6

\* The state before the last key, and the key: what the deeds of a row are reached from.
LEMMA WalkToDeed ==
    ASSUME NEW keys \in Seq(Nat), keys # <<>>, NEW v \in Nat, NEW s, s.verified, ~s.setup
    PROVE  \E x \in Menus \cup {"auth.verifyPin"} : Walk(Append(keys, v), s) = Goes(x, v, s)
<1>w. PICK n, at, k : Walked(keys, v, s, n, at, k)
  BY WalkOfCall
<1>1. /\ n \in Nat /\ n = Len(keys)
      /\ Walk(Append(keys, v), s) = at[n + 1]
      /\ Steps(at, k, n + 1, s)
      /\ k[n + 1] = v
  BY <1>w DEF Walked
<1>0. at[0] = "start" /\ \A i \in 1 .. n + 1 : at[i] = Goes(at[i - 1], k[i], s)
  BY <1>1 DEF Steps
<1> DEFINE M == Menus \cup {"auth.verifyPin"}
<1>2. n >= 1
  BY <1>1
<1>3. at[1] \in M
  <2>1. at[1] = Goes(at[0], k[1], s)
    BY <1>1, <1>0
  <2> QED
    BY <1>0, <2>1, PinRoutes
<1>4. Closed(M, s)
  BY MenusStay, PinRoutes, MainRouteMenus DEF Closed
<1> HIDE DEF M
<1>5. at[n] \in M
  <2>1. Steps(at, k, n, s) /\ n \in Nat
    BY <1>1 DEF Steps
  <2> QED
    BY <1>2, <1>3, <1>4, <2>1, WalkStays
<1>6. at[n + 1] = Goes(at[n], v, s)
  BY <1>1, <1>0
<1> QED
  BY <1>1, <1>5, <1>6 DEF M

\* From the page of an order and from that of a booking only, by the key for it.
LEMMA RowRoutes ==
    ASSUME NEW x \in Menus \cup {"auth.verifyPin"}, NEW v \in Nat, NEW s, s.verified
    PROVE  /\ Goes(x, v, s) = "orders.accept" =>
                 v = 1 /\ "orders" \notin s.error /\ OrderStatus(s) = "ORDER_PLACED"
           /\ Goes(x, v, s) = "orders.reject" =>
                 v = 2 /\ "orders" \notin s.error /\ OrderStatus(s) = "ORDER_PLACED"
           /\ Goes(x, v, s) = "orders.confirmPayment" =>
                 v = 1 /\ "orders" \notin s.error /\ OrderStatus(s) = "PAYMENT_SECURED"
           /\ Goes(x, v, s) = "pickups.bookings.cancel" =>
                 v = 1 /\ "bookings" \notin s.error /\ s.canCancel
           /\ Goes(x, v, s) = "pickups.bookings.confirm" =>
                 v = 2 /\ "bookings" \notin s.error /\ s.canConfirm
<1> DEFINE Deeds == {"orders.accept", "orders.reject", "orders.confirmPayment",
                     "pickups.bookings.cancel", "pickups.bookings.confirm"}
<1>0. MainRoute(v) \notin Deeds
  BY DEF MainRoute
<1>1. CASE x \in {"orders.menu", "orders.more", "orders.pickupDetails"}
  <2>1. OrdersRoute(x, v, s) \notin Deeds
    BY <1>1 DEF OrdersRoute, ListRoute, Nav
  <2> QED
    BY <1>1, <2>1 DEF Goes, PinScreens, Last
<1>2. CASE x = "orders.view"
  <2>1. Goes(x, v, s) = ViewRoute(v, s)
    BY <1>2 DEF Goes, PinScreens, Last, OrdersRoute
  <2> QED
    BY <2>1 DEF ViewRoute
<1>3. CASE x \in {"rfq.menu", "rfq.detail", "rfq.batches", "rfq.price", "rfq.quantity", "rfq.confirm"}
  <2>1. RfqRoute(x, v, s) \notin Deeds
    BY <1>3 DEF RfqRoute, ListRoute, OfferRoute, Nav
  <2> QED
    BY <1>3, <2>1 DEF Goes, PinScreens, Last
<1>4. CASE x \in {"inventory.menu", "inventory.detail", "inventory.price", "inventory.price.confirm"}
  <2>1. InventoryRoute(x, v, s) \notin Deeds
    BY <1>4 DEF InventoryRoute, ListRoute, Nav
  <2> QED
    BY <1>4, <2>1 DEF Goes, PinScreens, Last
<1>5. CASE x \in {"pickups.menu", "pickups.centers", "pickups.centers.more", "pickups.schedules",
                  "pickups.schedules.more", "pickups.schedule.detail", "pickups.book.quantity",
                  "pickups.book.confirm", "pickups.bookings.list", "pickups.bookings.more"}
  <2>1. PickupsRoute(x, v, s) \notin Deeds
    BY <1>5 DEF PickupsRoute, ListRoute, ConfirmRoute, Nav
  <2> QED
    BY <1>5, <2>1 DEF Goes, PinScreens, Last
<1>6. CASE x = "pickups.bookings.detail"
  <2>1. Goes(x, v, s) = Nav(v, "pickups.bookings.list", BookingRoute(v, s))
    BY <1>6 DEF Goes, PinScreens, Last, PickupsRoute
  <2> QED
    BY <2>1 DEF Nav, BookingRoute
<1>7. CASE x \in {"menu.main", "market.menu", "advisories.menu", "advisories.detail"} \cup Last
  <2>1. Goes(x, v, s) \notin Deeds
    BY <1>0, <1>7 DEF Goes, PinScreens, Last, ListRoute, Nav
  <2> QED
    BY <2>1
<1>8. CASE x = "auth.verifyPin"
  <2>1. Goes(x, v, s) \notin Deeds
    BY <1>0, <1>8, PinRoutes
  <2> QED
    BY <2>1
<1> QED
  BY <1>1, <1>2, <1>3, <1>4, <1>5, <1>6, <1>7, <1>8 DEF Menus, Last

-----------------------------------------------------------------------------
(* Sessions.                                                               *)

Pages == {"orders.view", "pickups.bookings.detail"}

\* What a list of the session may be, and what may be chosen of it.
Lists ==
    {<<>>, OrderList, CentreList, BookingList, RequestList, BatchList, AdvisoryList}
    \cup {SchedulesOf[CentreList[i]] : i \in 1 .. Len(CentreList)}

Rows == {Undefined} \cup UNION {{l[i] : i \in 1 .. Len(l)} : l \in Lists}

Errors == Areas \cup {"price", "quantity"}

Sessions ==
    [setup : BOOLEAN, setupUser : BOOLEAN, attempts : 0 .. 2, pinValid : BOOLEAN,
     newPin : Pins \cup {Undefined}, verified : BOOLEAN, user : BOOLEAN,
     list : [Areas -> Lists], loaded : SUBSET Areas, offset : [Areas -> Nat],
     size : [Areas -> 0 .. PageSize], error : SUBSET Errors, chosen : [Areas -> Rows],
     quantity : Nat, bookState : {Undefined, "invalid", "exceeds", "ready"}, price : Nat,
     offer : Nat, confirmState : {Undefined, "exceeds", "ready"},
     canCancel : BOOLEAN, canConfirm : BOOLEAN]

\* The session t knows of the caller, of the order and of the booking what s knows.
Like(t, s) ==
    /\ t.setup = s.setup /\ t.setupUser = s.setupUser /\ t.pinValid = s.pinValid
    /\ t.newPin = s.newPin /\ t.verified = s.verified /\ t.user = s.user
    /\ t.canCancel = s.canCancel /\ t.canConfirm = s.canConfirm
    /\ t.list["centers"] \in {s.list["centers"], CentreList}
    /\ \A a \in {"orders", "bookings"} : /\ t.chosen[a] = s.chosen[a]
                                         /\ a \in t.error <=> a \in s.error

LEMMA LikeLike ==
    ASSUME NEW r, NEW s, NEW t, Like(r, s), Like(s, t)
    PROVE  Like(r, t)
BY DEF Like

LEMMA ListLengths == ASSUME NEW l \in Lists PROVE Len(l) \in Nat
<1>1. Len(<<>>) \in Nat
  OBVIOUS
<1> QED
  BY <1>1, UssdAssumption DEF Lists

LEMMA PageFits ==
    ASSUME NEW l, Len(l) \in Nat, NEW offset \in Nat
    PROVE  Page(l, offset) \in 0 .. PageSize
BY UssdAssumption DEF Page

LEMMA FetchedLike ==
    ASSUME NEW s \in Sessions, NEW a \in Areas, NEW l \in Lists,
           a = "centers" => l = CentreList
    PROVE  Fetched(s, a, l) \in Sessions /\ Like(Fetched(s, a, l), s)
<1> DEFINE size == Page(l, 0)
<1>1. size \in 0 .. PageSize
  BY ListLengths, PageFits
<1> HIDE DEF size
<1>2. Fetched(s, a, l) = [s EXCEPT !.list[a] = l, !.loaded = @ \cup {a}, !.offset[a] = 0,
                                   !.size[a] = size]
  BY DEF Fetched, size
<1>3. Fetched(s, a, l) \in Sessions
  <2>1. [s.list EXCEPT ![a] = l] \in [Areas -> Lists]
        /\ [s.offset EXCEPT ![a] = 0] \in [Areas -> Nat]
        /\ [s.size EXCEPT ![a] = size] \in [Areas -> 0 .. PageSize]
        /\ s.loaded \cup {a} \in SUBSET Areas
    BY <1>1 DEF Sessions
  <2> QED
    BY <1>2, <2>1 DEF Sessions
<1>4. Like(Fetched(s, a, l), s)
  BY <1>2 DEF Sessions, Like
<1> QED
  BY <1>3, <1>4

LEMMA ShownLike ==
    ASSUME NEW s \in Sessions, NEW a \in Areas
    PROVE  Shown(s, a) \in Sessions /\ Like(Shown(s, a), s)
<1> DEFINE size == Page(s.list[a], s.offset[a])
<1>1. size \in 0 .. PageSize
  BY ListLengths, PageFits DEF Sessions
<1> HIDE DEF size
<1>2. Shown(s, a) = [s EXCEPT !.size[a] = size]
  BY DEF Shown, size
<1> QED
  BY <1>1, <1>2 DEF Sessions, Like

LEMMA CachedLike ==
    ASSUME NEW s \in Sessions, NEW a \in Areas, NEW l \in Lists,
           a = "centers" => l = CentreList
    PROVE  Cached(s, a, l) \in Sessions /\ Like(Cached(s, a, l), s)
<1> DEFINE t == IF a \in s.loaded THEN s ELSE Fetched(s, a, l)
<1>1. t \in Sessions /\ Like(t, s)
  BY FetchedLike DEF Like
<1> HIDE DEF t
<1>2. Cached(s, a, l) = Shown(t, a)
  BY DEF Cached, t
<1> QED
  BY <1>1, <1>2, ShownLike, LikeLike

LEMMA FurtherLike ==
    ASSUME NEW s \in Sessions, NEW a \in Areas
    PROVE  Further(s, a) \in Sessions /\ Like(Further(s, a), s)
<1> DEFINE next == s.offset[a] + PageSize
           offset == IF next >= Len(s.list[a]) THEN 0 ELSE next
<1>1. offset \in Nat
  BY UssdAssumption DEF Sessions
<1> HIDE DEF offset
<1>2. Further(s, a) = [s EXCEPT !.offset[a] = offset]
  BY DEF Further, offset
<1> QED
  BY <1>1, <1>2 DEF Sessions, Like

\* A line of the list is a row.
LEMMA SelectedRow ==
    ASSUME NEW s \in Sessions, NEW a \in Areas, NEW v \in Nat, Selects(v, s, a)
    PROVE  Selected(v, s, a) \in Rows
<1> DEFINE l == s.list[a]
           i == s.offset[a] + v
<1>1. l \in Lists /\ i \in 1 .. Len(l)
  BY ListLengths DEF Sessions, Selects
<1> QED
  BY <1>1 DEF Selected, Rows

LEMMA ChosenLike ==
    ASSUME NEW s \in Sessions, NEW a \in Areas \ {"orders", "bookings"}, NEW v \in Nat,
           Selects(v, s, a)
    PROVE  Chosen(v, s, a) \in Sessions /\ Like(Chosen(v, s, a), s)
<1> DEFINE row == Selected(v, s, a)
<1>1. row \in Rows
  BY SelectedRow
<1> HIDE DEF row
<1>2. Chosen(v, s, a) = [s EXCEPT !.error = @ \ {a}, !.chosen[a] = row]
  BY DEF Chosen, row
<1>3. Chosen(v, s, a) \in Sessions
  <2>1. [s.chosen EXCEPT ![a] = row] \in [Areas -> Rows] /\ s.error \ {a} \in SUBSET Errors
    BY <1>1 DEF Sessions
  <2> QED
    BY <1>2, <2>1 DEF Sessions
<1>4. Like(Chosen(v, s, a), s)
  BY <1>2 DEF Sessions, Like
<1> QED
  BY <1>3, <1>4

LEMMA ErrorLike ==
    ASSUME NEW s \in Sessions, NEW e \in Errors \ {"orders", "bookings"}
    PROVE  /\ [s EXCEPT !.error = @ \cup {e}] \in Sessions
           /\ Like([s EXCEPT !.error = @ \cup {e}], s)
           /\ [s EXCEPT !.error = @ \ {e}] \in Sessions
           /\ Like([s EXCEPT !.error = @ \ {e}], s)
BY DEF Sessions, Like, Errors

-----------------------------------------------------------------------------
(* The invariant.                                                          *)

\* A screen says of its keys nothing but what there is to do.
Known(offers) == \A d \in offers : d.kind \in Kinds \cup {"back"}

WellTyped ==
    /\ pin \in Pins \cup {Undefined}
    /\ inputs \in Seq(Nat) /\ Len(inputs) <= MaxInputs
    /\ session \in Sessions
    /\ session.list["centers"] \in {<<>>, CentreList}
    /\ Known(screen.offers)
    /\ deed # Undefined => deed.kind \in Kinds
    /\ screen = Over => session = Fresh /\ inputs = <<>>

\* What the session knows of the caller, and what the keys of the call say of it.
CallInv ==
    /\ session.verified = session.user
    /\ session.verified => ~session.setup /\ pin # Undefined /\ inputs # <<>>
    /\ session.setup => session.setupUser
    /\ session.newPin # Undefined => session.setup
    /\ session.pinValid => /\ session.newPin # Undefined /\ inputs # <<>>
                           /\ inputs[Len(inputs)] = session.newPin

\* The deeds that the session would do for the chosen row are those its page offered.
OrderPage(s, sh) ==
    "orders" \notin s.error /\ s.chosen["orders"] # Undefined
        => OrderOffers(s.chosen["orders"]) \subseteq sh["orders.view"]

BookingPage(s, sh) ==
    LET b == s.chosen["bookings"]
    IN  "bookings" \notin s.error /\ b # Undefined
            => /\ s.canCancel => One("cancelBooking", b[1]) \in sh["pickups.bookings.detail"]
               /\ s.canConfirm => Two("confirmPickup", b[1]) \in sh["pickups.bookings.detail"]

PagesInv == DOMAIN shown = Pages /\ OrderPage(session, shown) /\ BookingPage(session, shown)

UssdInv == WellTyped /\ CallInv /\ PagesInv

LEMMA FreshTyped ==
    /\ Fresh \in Sessions
    /\ Fresh.setup = FALSE /\ Fresh.setupUser = FALSE /\ Fresh.pinValid = FALSE
    /\ Fresh.verified = FALSE /\ Fresh.user = FALSE
    /\ Fresh.newPin = Undefined
    /\ \A a \in Areas : Fresh.chosen[a] = Undefined /\ Fresh.list[a] = <<>>
<1>1. /\ [a \in Areas |-> <<>>] \in [Areas -> Lists]
      /\ [a \in Areas |-> 0] \in [Areas -> Nat]
      /\ [a \in Areas |-> PageSize] \in [Areas -> 0 .. PageSize]
      /\ [a \in Areas |-> Undefined] \in [Areas -> Rows]
  BY UssdAssumption DEF Lists, Rows
<1>2. Fresh \in Sessions
  BY <1>1 DEF Fresh, Sessions
<1> QED
  BY <1>2 DEF Fresh

LEMMA FreshPages ==
    ASSUME NEW sh
    PROVE  OrderPage(Fresh, sh) /\ BookingPage(Fresh, sh)
BY FreshTyped DEF OrderPage, BookingPage, Areas

\* The call ends.
LEMMA EndKeeps ==
    ASSUME UssdInv, NEW d, d # Undefined => d.kind \in Kinds, End(d)
    PROVE  UssdInv'
<1>1. WellTyped'
  <2>1. <<>> \in Seq(Nat) /\ Len(<<>>) = 0
    OBVIOUS
  <2>2. screen'.offers = {}
    BY DEF End, Over
  <2> QED
    BY <2>1, <2>2, FreshTyped, UssdAssumption DEF UssdInv, WellTyped, Known, End, Areas
<1>2. session' = Fresh
  BY DEF End
<1>5. CallInv'
  BY <1>2, FreshTyped DEF CallInv
<1>3. DOMAIN shown' = Pages
  BY DEF End, NothingShown, Pages
<1>4. OrderPage(session', shown') /\ BookingPage(session', shown')
  BY FreshPages DEF End
<1> QED
  BY <1>1, <1>5, <1>3, <1>4 DEF UssdInv, PagesInv

\* The call goes on for a caller who is known, and with what the page shown says.
LEMMA ConKeeps ==
    ASSUME UssdInv, session.verified, Len(inputs) < MaxInputs, NEW v \in Nat,
           NEW t \in Sessions, NEW at, NEW offers, Con(v, t, at, offers), at # "over",
           Known(offers), t.list["centers"] \in {<<>>, CentreList},
           t.setup = session.setup, t.setupUser = session.setupUser,
           t.pinValid = session.pinValid, t.newPin = session.newPin,
           t.verified = session.verified, t.user = session.user,
           OrderPage(t, IF at \in Pages THEN [shown EXCEPT ![at] = offers] ELSE shown),
           BookingPage(t, IF at \in Pages THEN [shown EXCEPT ![at] = offers] ELSE shown)
    PROVE  UssdInv'
<1>1. inputs' \in Seq(Nat) /\ Len(inputs') <= MaxInputs
      /\ \A i \in 1 .. Len(inputs) : i \in 1 .. Len(inputs') /\ inputs'[i] = inputs[i]
  BY OneMore, UssdAssumption DEF UssdInv, WellTyped, Con
<1>2. screen' # Over /\ screen'.offers = offers
  BY DEF Con, Over
<1>3. WellTyped'
  BY <1>1, <1>2 DEF UssdInv, WellTyped, Con
<1>4. ~session.pinValid
  BY DEF UssdInv, CallInv
<1>5. inputs' # <<>>
  BY <1>1 DEF Con, UssdInv, WellTyped
<1>6. CallInv'
  BY <1>4, <1>5 DEF UssdInv, CallInv, Con
<1>7. shown' = IF at \in Pages THEN [shown EXCEPT ![at] = offers] ELSE shown
  BY DEF Con, Seen, UssdInv, PagesInv
<1>8. DOMAIN shown' = Pages
  BY <1>7 DEF UssdInv, PagesInv
<1>9. session' = t
  BY DEF Con
<1> QED
  BY <1>3, <1>5, <1>6, <1>7, <1>8, <1>9 DEF UssdInv, PagesInv

\* Most screens leave alone what the session knows of the caller, the order and the booking.
LEMMA QuietKeeps ==
    ASSUME UssdInv, session.verified, Len(inputs) < MaxInputs, NEW v \in Nat,
           NEW t \in Sessions, NEW at, NEW offers, Con(v, t, at, offers), at # "over",
           Known(offers),
           at \notin Pages, Like(t, session)
    PROVE  UssdInv'
<1>1. OrderPage(t, shown)
  BY DEF UssdInv, PagesInv, OrderPage, Like
<1>2. BookingPage(t, shown)
  BY DEF UssdInv, PagesInv, BookingPage, Like
<1>3. t.list["centers"] \in {<<>>, CentreList}
  BY DEF UssdInv, WellTyped, Like
<1> QED
  BY <1>1, <1>2, <1>3, ConKeeps DEF Like

LEMMA Offers ==
    /\ Known({})
    /\ Known({Back})
    /\ \A k \in Kinds : \A i : Known({One(k, i)})
    /\ \A o : Known({Back} \cup OrderOffers(o))
    /\ \A b : Known({Back} \cup BookingOffers(b))
BY DEF Known, Kinds, Back, One, Two, OrderOffers, BookingOffers

-----------------------------------------------------------------------------
(* The screens of the menus, for a caller who is known.                    *)

\* The call goes on, and knows what it knew of the caller, the order and the booking.
Quiet(v) ==
    \E t, at, offers : /\ t \in Sessions /\ Like(t, session)
                       /\ at \notin Pages /\ at # "over" /\ Known(offers)
                       /\ Con(v, t, at, offers)

LEMMA IsQuiet ==
    ASSUME NEW v, NEW t, NEW at, NEW offers, t \in Sessions, Like(t, session),
           at \notin Pages, at # "over", Known(offers), Con(v, t, at, offers)
    PROVE  Quiet(v)
BY DEF Quiet

Ended == \E d : End(d) /\ (d # Undefined => d.kind \in Kinds)

LEMMA IsEnded ==
    ASSUME NEW d, End(d), d # Undefined => d.kind \in Kinds
    PROVE  Ended
BY DEF Ended

\* Of a caller who is known, in the middle of a call.
Caller(v) ==
    /\ UssdInv
    /\ session.verified
    /\ Len(inputs) < MaxInputs
    /\ v \in Nat

LEMMA CallerFacts ==
    ASSUME NEW v, Caller(v)
    PROVE  /\ session \in Sessions /\ session.user = TRUE /\ Like(session, session)
           /\ session.list["centers"] \in {<<>>, CentreList}
           /\ v \in Nat
BY DEF Caller, UssdInv, WellTyped, CallInv, Sessions, Like

\* A list that is there is shown, or fetched and shown.
LEMMA ListQuiet ==
    ASSUME NEW v, NEW s \in Sessions, Like(s, session), NEW a \in Areas, NEW l \in Lists,
           a = "centers" => l = CentreList, NEW at, at \notin Pages, at # "over"
    PROVE  /\ Con(v, Fetched(s, a, l), at, {Back}) => Quiet(v)
           /\ Con(v, Cached(s, a, l), at, {Back}) => Quiet(v)
           /\ Con(v, Shown(s, a), at, {Back}) => Quiet(v)
<1>1. Known({Back})
  BY Offers
<1>2. Fetched(s, a, l) \in Sessions /\ Like(Fetched(s, a, l), session)
  BY FetchedLike, LikeLike
<1>3. Cached(s, a, l) \in Sessions /\ Like(Cached(s, a, l), session)
  BY CachedLike, LikeLike
<1>4. Shown(s, a) \in Sessions /\ Like(Shown(s, a), session)
  BY ShownLike, LikeLike
<1>5. Con(v, Fetched(s, a, l), at, {Back}) => Quiet(v)
  BY <1>1, <1>2, IsQuiet
<1>6. Con(v, Cached(s, a, l), at, {Back}) => Quiet(v)
  BY <1>1, <1>3, IsQuiet
<1>7. Con(v, Shown(s, a), at, {Back}) => Quiet(v)
  BY <1>1, <1>4, IsQuiet
<1> QED
  BY <1>5, <1>6, <1>7

LEMMA FixedLists ==
    /\ OrderList \in Lists /\ CentreList \in Lists /\ BookingList \in Lists
    /\ RequestList \in Lists /\ BatchList \in Lists /\ AdvisoryList \in Lists
BY DEF Lists

\* A row of a list other than that of orders and that of bookings is shown, or there is none.
LEMMA RowQuiet ==
    ASSUME NEW v, Caller(v), NEW a \in Areas \ {"orders", "bookings"}, NEW at,
           at \notin Pages, at # "over"
    PROVE  /\ Invalid(v, a, at) => Quiet(v)
           /\ \A offers \in {{}, {Back}} :
                 Selects(v, session, a) /\ Con(v, Chosen(v, session, a), at, offers) => Quiet(v)
<1> USE CallerFacts
<1>1. Known({Back}) /\ Known({})
  BY Offers
<1>2. a \in Errors \ {"orders", "bookings"}
  BY DEF Errors
<1>3. Invalid(v, a, at) => Quiet(v)
  <2> DEFINE t == [session EXCEPT !.error = @ \cup {a}]
  <2>1. t \in Sessions /\ Like(t, session)
    BY <1>2, ErrorLike
  <2>2. Invalid(v, a, at) => Con(v, t, at, {Back})
    BY DEF Invalid
  <2> HIDE DEF t
  <2> QED
    BY <1>1, <2>1, <2>2, IsQuiet
<1>4. ASSUME NEW offers \in {{}, {Back}}, Selects(v, session, a),
             Con(v, Chosen(v, session, a), at, offers)
      PROVE  Quiet(v)
  <2>1. Chosen(v, session, a) \in Sessions /\ Like(Chosen(v, session, a), session)
    BY <1>4, ChosenLike
  <2> QED
    BY <1>1, <1>4, <2>1, IsQuiet
<1> QED
  BY <1>3, <1>4

LEMMA ShowQuiet ==
    ASSUME NEW v, Caller(v)
    PROVE  /\ ShowBookings(v) => Quiet(v)
           /\ ShowRequests(v) => Quiet(v)
           /\ ShowInventory(v) => Quiet(v)
           /\ ShowOrders(v, session) => Quiet(v)
           /\ ShowOrders(v, Further(session, "orders")) => Quiet(v)
<1> USE CallerFacts, FixedLists, ListQuiet DEF Pages, Areas
<1>1. ShowBookings(v) => Quiet(v)
  BY DEF ShowBookings
<1>2. ShowRequests(v) => Quiet(v)
  BY DEF ShowRequests
<1>3. ShowInventory(v) => Quiet(v)
  BY DEF ShowInventory
<1>4. ShowOrders(v, session) => Quiet(v)
  BY DEF ShowOrders
<1>5. ShowOrders(v, Further(session, "orders")) => Quiet(v)
  <2> DEFINE s == Further(session, "orders")
  <2>1. s \in Sessions /\ Like(s, session) /\ s.user
    BY FurtherLike DEF Like
  <2> HIDE DEF s
  <2>2. ShowOrders(v, s) => Quiet(v)
    BY <2>1 DEF ShowOrders
  <2> QED
    BY <2>2 DEF s
<1> QED
  BY <1>1, <1>2, <1>3, <1>4, <1>5

LEMMA OrdersQuiet ==
    ASSUME NEW v, Caller(v), NEW at
    PROVE  /\ Plain(at, v) => Quiet(v)
           /\ OrdersMenu(at, v) => Quiet(v)
           /\ PickupDetails(at, v) => Quiet(v)
<1> USE CallerFacts, ShowQuiet DEF Pages
<1>1. Plain(at, v) => Quiet(v)
  <2>1. \A x \in {"menu.main", "pickups.menu", "market.menu"}, o \in {{}, {Back}} :
            Con(v, session, x, o) => Quiet(v)
    BY Offers, IsQuiet
  <2> QED
    BY <2>1 DEF Plain
<1>2. OrdersMenu(at, v) => Quiet(v)
  BY DEF OrdersMenu
<1>3. PickupDetails(at, v) => Quiet(v)
  <2>1. Con(v, session, "orders.pickupDetails", {Back}) => Quiet(v)
    BY Offers, IsQuiet
  <2> QED
    BY <2>1 DEF PickupDetails
<1> QED
  BY <1>1, <1>2, <1>3

LEMMA DeedsEnd ==
    ASSUME NEW v, Caller(v), NEW at, NEW state, NEW kind \in Kinds
    PROVE  /\ OrderDeed(at, v, state, kind) => Quiet(v) \/ Ended
           /\ BookingDeed(at, v, state, kind) => Quiet(v) \/ Ended
<1> USE CallerFacts, ShowQuiet, IsEnded
<1>1. OrderDeed(at, v, state, kind) => Quiet(v) \/ Ended
  <2> DEFINE d == [kind |-> kind, item |-> session.chosen["orders"][1], key |-> v]
  <2>1. d.kind \in Kinds
    OBVIOUS
  <2>2. OrderDeed(at, v, state, kind) => End(d) \/ GoStart(v)
    BY DEF OrderDeed
  <2>3. GoStart(v) => Quiet(v)
    <3> DEFINE t == Started(session)
    <3>1. t \in Sessions /\ Like(t, session)
      BY DEF Started, Caller, UssdInv, CallInv, Sessions, Like
    <3>2. GoStart(v) => Con(v, t, "start", {})
      BY DEF GoStart
    <3> HIDE DEF t
    <3> QED
      BY <3>1, <3>2, Offers, IsQuiet DEF Pages
  <2> HIDE DEF d
  <2> QED
    BY <2>1, <2>2, <2>3
<1>2. BookingDeed(at, v, state, kind) => Quiet(v) \/ Ended
  <2> DEFINE d == [kind |-> kind, item |-> session.chosen["bookings"][1], key |-> v]
  <2>1. d.kind \in Kinds
    OBVIOUS
  <2>2. BookingDeed(at, v, state, kind) => End(d) \/ ShowBookings(v)
    BY DEF BookingDeed
  <2> HIDE DEF d
  <2> QED
    BY <2>1, <2>2
<1> QED
  BY <1>1, <1>2

LEMMA PickupsQuiet ==
    ASSUME NEW v, Caller(v), NEW at
    PROVE  /\ Centers(at, v) => Quiet(v)
           /\ Schedules(at, v) => Quiet(v)
           /\ ScheduleDetail(at, v) => Quiet(v)
           /\ BookingsList(at, v) => Quiet(v)
<1> USE CallerFacts, FixedLists
<1>0. {"centers", "schedules", "bookings"} \subseteq Areas
  BY DEF Areas
<1>1. Centers(at, v) => Quiet(v)
  <2> DEFINE s == IF at = "pickups.centers.more" /\ session.list["centers"] # <<>>
                  THEN Further(session, "centers") ELSE session
  <2>1. s \in Sessions /\ Like(s, session)
    BY <1>0, FurtherLike
  <2>2. Centers(at, v) => Con(v, Cached(s, "centers", CentreList), "pickups.centers", {Back})
    BY DEF Centers
  <2> HIDE DEF s
  <2> QED
    BY <1>0, <2>1, <2>2, ListQuiet DEF Pages
<1>2. ASSUME Schedules(at, v), session.chosen["centers"] = Undefined
      PROVE  Quiet(v)
  <2>1. Invalid(v, "centers", "pickups.schedules") => Quiet(v)
    BY <1>0, RowQuiet DEF Pages
  <2>2. ASSUME Selects(v, session, "centers"),
               Con(v, Fetched(Chosen(v, session, "centers"), "schedules",
                              SchedulesOf[Selected(v, session, "centers")]),
                   "pickups.schedules", {Back})
        PROVE  Quiet(v)
    <3> DEFINE s == Chosen(v, session, "centers")
               l == SchedulesOf[Selected(v, session, "centers")]
               i == session.offset["centers"] + v
    <3>1. s \in Sessions /\ Like(s, session)
      BY <1>0, <2>2, ChosenLike
    <3>2. i \in 1 .. Len(CentreList) /\ session.list["centers"] = CentreList
      <4> DEFINE c == session.list["centers"]
                 o == session.offset["centers"]
      <4>1. o \in Nat /\ Len(c) \in Nat /\ v \in Nat
        <5>1. Len(<<>>) \in Nat
          OBVIOUS
        <5> QED
          BY <1>0, <5>1, UssdAssumption DEF Sessions
      <4>2. i = o + v /\ i <= Len(c) /\ v >= 1
        BY <2>2, <1>0 DEF Selects, Sessions
      <4>3. c \in {<<>>, CentreList}
        OBVIOUS
      <4> HIDE DEF c, o, i
      <4>4. i \in 1 .. Len(c)
        BY <4>1, <4>2
      <4>5. c # <<>>
        BY <4>4
      <4> QED
        BY <4>3, <4>4, <4>5 DEF c
    <3>3. l \in Lists
      BY <3>2 DEF Selected, Lists
    <3>4. Con(v, Fetched(s, "schedules", l), "pickups.schedules", {Back})
      BY <2>2
    <3> HIDE DEF s, l
    <3> QED
      BY <1>0, <3>1, <3>3, <3>4, ListQuiet DEF Pages
  <2> QED
    BY <1>2, <2>1, <2>2 DEF Schedules
<1>3. ASSUME Schedules(at, v), session.chosen["centers"] # Undefined
      PROVE  Quiet(v)
  <2> DEFINE s == IF at = "pickups.schedules.more" /\ session.list["schedules"] # <<>>
                  THEN Further(session, "schedules") ELSE session
             r == Shown(s, "schedules")
             t == [r EXCEPT !.error = @ \ {"centers"}]
  <2>1. s \in Sessions /\ Like(s, session)
    BY <1>0, FurtherLike
  <2>2. Con(v, t, "pickups.schedules", {Back})
    BY <1>3 DEF Schedules
  <2> HIDE DEF s
  <2>3. r \in Sessions /\ Like(r, session)
    BY <1>0, <2>1, ShownLike, LikeLike
  <2> HIDE DEF r
  <2>4. "centers" \in Errors \ {"orders", "bookings"}
    BY <1>0 DEF Errors
  <2>5. t \in Sessions /\ Like(t, r)
    BY <2>3, <2>4, ErrorLike
  <2> HIDE DEF t
  <2>6. Like(t, session)
    BY <2>3, <2>5, LikeLike
  <2> QED
    BY <2>2, <2>5, <2>6, Offers, IsQuiet DEF Pages
<1>4. ScheduleDetail(at, v) => Quiet(v)
  BY <1>0, RowQuiet DEF ScheduleDetail, Pages
<1>5. BookingsList(at, v) => Quiet(v)
  <2> DEFINE s == Further(session, "bookings")
  <2>1. s \in Sessions /\ Like(s, session)
    BY <1>0, FurtherLike
  <2>2. BookingsList(at, v)
            => \/ ShowBookings(v)
               \/ Con(v, Shown(s, "bookings"), "pickups.bookings.list", {Back})
    BY DEF BookingsList
  <2> HIDE DEF s
  <2> QED
    BY <1>0, <2>1, <2>2, ShowQuiet, ListQuiet DEF Pages
<1> QED
  BY <1>1, <1>2, <1>3, <1>4, <1>5

\* The number typed at the prompt of a booking, an offer or a price.
LEMMA PromptsQuiet ==
    ASSUME NEW v, Caller(v), NEW at
    PROVE  /\ BookConfirm(at, v) => Quiet(v)
           /\ BookSubmit(at, v) => Quiet(v) \/ Ended
           /\ RfqConfirm(at, v) => Quiet(v)
           /\ RfqSubmit(at, v) => Quiet(v) \/ Ended
           /\ InventoryPrice(at, v) => Quiet(v) \/ Ended
<1> USE CallerFacts
<1>0. /\ \A x : x \notin Pages \cup {"over"} => (Con(v, session, x, {Back}) => Quiet(v))
      /\ \A x : x \notin Pages \cup {"over"} => (Con(v, session, x, {}) => Quiet(v))
  BY Offers, IsQuiet
<1>1. BookConfirm(at, v) => Quiet(v)
  <2> DEFINE invalid == [session EXCEPT !.bookState = "invalid"]
             exceeds == [session EXCEPT !.bookState = "exceeds"]
             ready   == [session EXCEPT !.bookState = "ready", !.quantity = v]
             offers  == {One("book", <<session.chosen["schedules"][1], v>>)}
  <2>1. invalid \in Sessions /\ exceeds \in Sessions /\ ready \in Sessions
    BY DEF Sessions
  <2>2. Like(invalid, session) /\ Like(exceeds, session) /\ Like(ready, session)
    BY DEF Sessions, Like
  <2>3. Known(offers)
    BY Offers DEF Kinds
  <2>4. BookConfirm(at, v)
            => \/ Con(v, session, "pickups.menu", {Back})
               \/ Con(v, session, "pickups.book.quantity", {})
               \/ Con(v, invalid, "pickups.book.confirm", {Back})
               \/ Con(v, exceeds, "pickups.book.confirm", {Back})
               \/ Con(v, ready, "pickups.book.confirm", offers)
    BY DEF BookConfirm
  <2> HIDE DEF invalid, exceeds, ready, offers
  <2>5. /\ Con(v, session, "pickups.menu", {Back}) => Quiet(v)
        /\ Con(v, session, "pickups.book.quantity", {}) => Quiet(v)
    BY <1>0 DEF Pages
  <2>6. Con(v, invalid, "pickups.book.confirm", {Back}) => Quiet(v)
    BY <2>1, <2>2, Offers, IsQuiet DEF Pages
  <2>7. Con(v, exceeds, "pickups.book.confirm", {Back}) => Quiet(v)
    BY <2>1, <2>2, Offers, IsQuiet DEF Pages
  <2>8. Con(v, ready, "pickups.book.confirm", offers) => Quiet(v)
    BY <2>1, <2>2, <2>3, IsQuiet DEF Pages
  <2> QED
    BY <2>4, <2>5, <2>6, <2>7, <2>8
<1>2. BookSubmit(at, v) => Quiet(v) \/ Ended
  <2> DEFINE d == [kind |-> "book", item |-> <<session.chosen["schedules"][1], session.quantity>>,
                   key |-> v]
  <2>1. d.kind \in Kinds
    BY DEF Kinds
  <2>2. BookSubmit(at, v) => End(d) \/ Con(v, session, "pickups.menu", {Back})
    BY DEF BookSubmit
  <2>3. Con(v, session, "pickups.menu", {Back}) => Quiet(v)
    BY <1>0 DEF Pages
  <2> HIDE DEF d
  <2> QED
    BY <2>1, <2>2, <2>3, IsEnded
<1>3. RfqConfirm(at, v) => Quiet(v)
  <2> DEFINE none    == [session EXCEPT !.error = @ \cup {"quantity"}]
             one     == [session EXCEPT !.error = @ \ {"quantity"}]
             priced  == [one EXCEPT !.price = v]
             exceeds == [session EXCEPT !.confirmState = "exceeds"]
             ready   == [session EXCEPT !.confirmState = "ready", !.offer = v]
             offers  == {One("offer", <<session.chosen["rfq"], session.chosen["batches"][1],
                                        session.price, v>>)}
  <2>1. none \in Sessions /\ Like(none, session) /\ one \in Sessions /\ Like(one, session)
    BY ErrorLike DEF Errors, Areas
  <2>2. priced \in Sessions /\ Like(priced, one)
    <3> HIDE DEF one
    <3> QED
      BY <2>1 DEF Sessions, Like
  <2>3. exceeds \in Sessions /\ ready \in Sessions
    BY DEF Sessions
  <2>4. Like(exceeds, session) /\ Like(ready, session)
    BY DEF Sessions, Like
  <2>5. Known(offers)
    BY Offers DEF Kinds
  <2>6. priced = [session EXCEPT !.error = @ \ {"quantity"}, !.price = v]
    BY DEF Sessions
  <2>7. RfqConfirm(at, v)
            => \/ Con(v, none, "rfq.quantity", {Back})
               \/ Con(v, priced, "rfq.quantity", {})
               \/ ShowRequests(v)
               \/ Con(v, exceeds, "rfq.confirm", {Back})
               \/ Con(v, ready, "rfq.confirm", offers)
    BY <2>6 DEF RfqConfirm
  <2> HIDE DEF none, one, priced, exceeds, ready, offers
  <2>8. Like(priced, session)
    BY <2>1, <2>2, LikeLike
  <2>9. Con(v, none, "rfq.quantity", {Back}) => Quiet(v)
    BY <2>1, Offers, IsQuiet DEF Pages
  <2>10. Con(v, priced, "rfq.quantity", {}) => Quiet(v)
    BY <2>2, <2>8, Offers, IsQuiet DEF Pages
  <2>11. Con(v, exceeds, "rfq.confirm", {Back}) => Quiet(v)
    BY <2>3, <2>4, Offers, IsQuiet DEF Pages
  <2>12. Con(v, ready, "rfq.confirm", offers) => Quiet(v)
    BY <2>3, <2>4, <2>5, IsQuiet DEF Pages
  <2> QED
    BY <2>7, <2>9, <2>10, <2>11, <2>12, ShowQuiet
<1>4. RfqSubmit(at, v) => Quiet(v) \/ Ended
  <2> DEFINE d == [kind |-> "offer",
                   item |-> <<session.chosen["rfq"], session.chosen["batches"][1], session.price,
                              session.offer>>,
                   key |-> v]
  <2>1. d.kind \in Kinds
    BY DEF Kinds
  <2>2. RfqSubmit(at, v) => End(d) \/ ShowRequests(v)
    BY DEF RfqSubmit
  <2> HIDE DEF d
  <2> QED
    BY <2>1, <2>2, ShowQuiet, IsEnded
<1>5. InventoryPrice(at, v) => Quiet(v) \/ Ended
  <2> DEFINE d    == [kind |-> "setPrice", item |-> session.chosen["inventory"][1], key |-> v]
             none == [session EXCEPT !.error = @ \cup {"price"}]
  <2>1. d.kind \in Kinds
    BY DEF Kinds
  <2>2. none \in Sessions /\ Like(none, session)
    BY ErrorLike DEF Errors
  <2>3. InventoryPrice(at, v)
            => \/ ShowInventory(v)
               \/ Con(v, session, "inventory.price", {})
               \/ Con(v, none, "inventory.price.confirm", {Back})
               \/ End(d)
    BY DEF InventoryPrice
  <2>4. Con(v, session, "inventory.price", {}) => Quiet(v)
    BY <1>0 DEF Pages
  <2> HIDE DEF d, none
  <2>5. Con(v, none, "inventory.price.confirm", {Back}) => Quiet(v)
    BY <2>2, Offers, IsQuiet DEF Pages
  <2> QED
    BY <2>1, <2>3, <2>4, <2>5, ShowQuiet, IsEnded
<1> QED
  BY <1>1, <1>2, <1>3, <1>4, <1>5

LEMMA BrowseQuiet ==
    ASSUME NEW v, Caller(v), NEW at
    PROVE  /\ RfqMenu(at, v) => Quiet(v)
           /\ RfqBatches(at, v) => Quiet(v)
           /\ Advisories(at, v) => Quiet(v)
           /\ InventoryMenu(at, v) => Quiet(v)
<1> USE CallerFacts, FixedLists, ShowQuiet DEF Pages
<1>0. {"rfq", "batches", "advisories", "inventory"} \subseteq Areas \ {"orders", "bookings"}
  BY DEF Areas
<1>1. RfqMenu(at, v) => Quiet(v)
  BY <1>0, RowQuiet DEF RfqMenu
<1>2. RfqBatches(at, v) => Quiet(v)
  BY <1>0, RowQuiet, ListQuiet DEF RfqBatches
<1>3. Advisories(at, v) => Quiet(v)
  <2> DEFINE t == [session EXCEPT !.error = @ \ {"advisories"}]
  <2>1. t \in Sessions /\ Like(t, session)
    BY <1>0, ErrorLike DEF Errors
  <2>2. Advisories(at, v)
            => \/ Con(v, Fetched(session, "advisories", AdvisoryList), "advisories.menu", {Back})
               \/ Invalid(v, "advisories", "advisories.detail")
               \/ Con(v, t, "advisories.detail", {Back})
    BY DEF Advisories
  <2> HIDE DEF t
  <2>3. Con(v, t, "advisories.detail", {Back}) => Quiet(v)
    BY <2>1, Offers, IsQuiet
  <2>4. Invalid(v, "advisories", "advisories.detail") => Quiet(v)
    BY <1>0, RowQuiet
  <2>5. Con(v, Fetched(session, "advisories", AdvisoryList), "advisories.menu", {Back}) => Quiet(v)
    BY <1>0, ListQuiet
  <2> QED
    BY <2>2, <2>3, <2>4, <2>5
<1>4. InventoryMenu(at, v) => Quiet(v)
  BY <1>0, RowQuiet DEF InventoryMenu
<1> QED
  BY <1>1, <1>2, <1>3, <1>4

\* An order is chosen, and its page says what can be done with it; or no order is.
LEMMA OrderViewKeeps ==
    ASSUME NEW v, Caller(v), NEW at, OrderView(at, v)
    PROVE  UssdInv'
<1> USE CallerFacts
<1> DEFINE page   == "orders.view"
           sh(o)  == IF page \in Pages THEN [shown EXCEPT ![page] = o] ELSE shown
<1>0. "orders" \in Areas /\ page \in Pages /\ page # "over" /\ DOMAIN shown = Pages
  BY DEF Areas, Pages, Caller, UssdInv, PagesInv
<1>1. CASE Invalid(v, "orders", page)
  <2> DEFINE t == [session EXCEPT !.error = @ \cup {"orders"}]
  <2>1. t \in Sessions
    BY <1>0 DEF Sessions, Errors
  <2>2. Con(v, t, page, {Back}) /\ Known({Back})
    BY <1>1, Offers DEF Invalid
  <2>3. /\ t.setup = session.setup /\ t.setupUser = session.setupUser
        /\ t.pinValid = session.pinValid /\ t.newPin = session.newPin
        /\ t.verified = session.verified /\ t.user = session.user
        /\ t.canCancel = session.canCancel /\ t.canConfirm = session.canConfirm
        /\ t.list = session.list /\ t.chosen = session.chosen
        /\ t.error = session.error \cup {"orders"}
    BY DEF Sessions
  <2> HIDE DEF t
  <2>4. OrderPage(t, sh({Back}))
    BY <2>3 DEF OrderPage
  <2>5. BookingPage(t, sh({Back}))
    BY <1>0, <2>3 DEF BookingPage, Caller, UssdInv, PagesInv, Pages
  <2> QED
    BY <1>0, <2>1, <2>2, <2>3, <2>4, <2>5, ConKeeps DEF Caller
<1>2. CASE Selects(v, session, "orders")
           /\ Con(v, Chosen(v, session, "orders"), page,
                  {Back} \cup OrderOffers(Selected(v, session, "orders")))
  <2> DEFINE row == Selected(v, session, "orders")
             t   == Chosen(v, session, "orders")
             o   == {Back} \cup OrderOffers(row)
  <2>1. row \in Rows
    BY <1>0, <1>2, SelectedRow
  <2>2. Con(v, t, page, o) /\ Known(o)
    BY <1>2, Offers
  <2> HIDE DEF row
  <2>3. t = [session EXCEPT !.error = @ \ {"orders"}, !.chosen["orders"] = row]
    BY DEF Chosen, row
  <2>4. t \in Sessions
    <3>1. [session.chosen EXCEPT !["orders"] = row] \in [Areas -> Rows]
          /\ session.error \ {"orders"} \in SUBSET Errors
      BY <1>0, <2>1 DEF Sessions
    <3> QED
      BY <2>3, <3>1 DEF Sessions
  <2>5. /\ t.setup = session.setup /\ t.setupUser = session.setupUser
        /\ t.pinValid = session.pinValid /\ t.newPin = session.newPin
        /\ t.verified = session.verified /\ t.user = session.user
        /\ t.canCancel = session.canCancel /\ t.canConfirm = session.canConfirm
        /\ t.list = session.list
        /\ t.chosen = [session.chosen EXCEPT !["orders"] = row]
        /\ t.error = session.error \ {"orders"}
    BY <2>3 DEF Sessions
  <2>6. t.chosen["orders"] = row /\ t.chosen["bookings"] = session.chosen["bookings"]
    BY <1>0, <2>5 DEF Sessions, Areas
  <2>7. OrderOffers(row) \subseteq o
    OBVIOUS
  <2> HIDE DEF t, o
  <2>8. OrderPage(t, sh(o))
    BY <1>0, <2>6, <2>7 DEF OrderPage
  <2>9. BookingPage(t, sh(o))
    BY <1>0, <2>5, <2>6 DEF BookingPage, Caller, UssdInv, PagesInv, Pages
  <2> QED
    BY <1>0, <2>2, <2>4, <2>5, <2>8, <2>9, ConKeeps DEF Caller
<1> QED
  BY <1>1, <1>2 DEF OrderView

\* A booking is chosen, and its page says what can be done with it; or no booking is.
LEMMA BookingDetailKeeps ==
    ASSUME NEW v, Caller(v), NEW at, BookingDetail(at, v)
    PROVE  UssdInv'
<1> USE CallerFacts
<1> DEFINE page   == "pickups.bookings.detail"
           sh(o)  == IF page \in Pages THEN [shown EXCEPT ![page] = o] ELSE shown
<1>0. "bookings" \in Areas /\ page \in Pages /\ page # "over" /\ DOMAIN shown = Pages
  BY DEF Areas, Pages, Caller, UssdInv, PagesInv
<1>1. CASE Invalid(v, "bookings", page)
  <2> DEFINE t == [session EXCEPT !.error = @ \cup {"bookings"}]
  <2>1. t \in Sessions
    BY <1>0 DEF Sessions, Errors
  <2>2. Con(v, t, page, {Back}) /\ Known({Back})
    BY <1>1, Offers DEF Invalid
  <2>3. /\ t.setup = session.setup /\ t.setupUser = session.setupUser
        /\ t.pinValid = session.pinValid /\ t.newPin = session.newPin
        /\ t.verified = session.verified /\ t.user = session.user
        /\ t.list = session.list /\ t.chosen = session.chosen
        /\ t.error = session.error \cup {"bookings"}
    BY DEF Sessions
  <2> HIDE DEF t
  <2>4. OrderPage(t, sh({Back}))
    BY <1>0, <2>3 DEF OrderPage, Caller, UssdInv, PagesInv, Pages
  <2>5. BookingPage(t, sh({Back}))
    BY <2>3 DEF BookingPage
  <2> QED
    BY <1>0, <2>1, <2>2, <2>3, <2>4, <2>5, ConKeeps DEF Caller
<1>2. CASE Selects(v, session, "bookings") /\ ~Invalid(v, "bookings", page)
  <2> DEFINE row == Selected(v, session, "bookings")
             s   == Chosen(v, session, "bookings")
             t   == [s EXCEPT !.canCancel = CanCancel(row), !.canConfirm = CanConfirm(row)]
             o   == {Back} \cup BookingOffers(row)
  <2>1. row \in Rows
    BY <1>0, <1>2, SelectedRow
  <2>2. Con(v, t, page, o) /\ Known(o)
    BY <1>2, Offers DEF BookingDetail
  <2>p. PICK c \in BOOLEAN, p \in BOOLEAN : (c <=> CanCancel(row)) /\ (p <=> CanConfirm(row))
    OBVIOUS
  <2>q. CanCancel(row) = c /\ CanConfirm(row) = p
    BY <2>p DEF CanCancel, CanConfirm
  <2>r. /\ c => One("cancelBooking", row[1]) \in o
        /\ p => Two("confirmPickup", row[1]) \in o
    BY <2>p DEF BookingOffers
  <2> HIDE DEF row, o
  <2>3. t = [session EXCEPT !.error = @ \ {"bookings"}, !.chosen["bookings"] = row,
                            !.canCancel = c, !.canConfirm = p]
    BY <2>q DEF Chosen, row, Sessions
  <2>4. t \in Sessions
    <3> DEFINE u == [session EXCEPT !.error = @ \ {"bookings"}, !.chosen["bookings"] = row]
    <3>1. [session.chosen EXCEPT !["bookings"] = row] \in [Areas -> Rows]
          /\ session.error \ {"bookings"} \in SUBSET Errors
      BY <1>0, <2>1 DEF Sessions
    <3>2. u \in Sessions
      BY <3>1 DEF Sessions
    <3>3. t = [u EXCEPT !.canCancel = c, !.canConfirm = p]
      BY <2>3 DEF Sessions
    <3> HIDE DEF u, t
    <3>4. [u EXCEPT !.canCancel = c, !.canConfirm = p] \in Sessions
      BY <3>2 DEF Sessions
    <3> QED
      BY <3>3, <3>4
  <2>5. /\ t.setup = session.setup /\ t.setupUser = session.setupUser
        /\ t.pinValid = session.pinValid /\ t.newPin = session.newPin
        /\ t.verified = session.verified /\ t.user = session.user
        /\ t.canCancel = c /\ t.canConfirm = p
        /\ t.list = session.list
        /\ t.chosen = [session.chosen EXCEPT !["bookings"] = row]
        /\ t.error = session.error \ {"bookings"}
    BY <2>3 DEF Sessions
  <2>6. t.chosen["bookings"] = row /\ t.chosen["orders"] = session.chosen["orders"]
    <3> HIDE DEF t
    <3>1. session.chosen \in [Areas -> Rows] /\ "orders" \in Areas
      BY DEF Sessions, Areas
    <3> QED
      BY <1>0, <2>5, <3>1
  <2> HIDE DEF t
  <2>8. OrderPage(t, sh(o))
    BY <1>0, <2>5, <2>6 DEF OrderPage, Caller, UssdInv, PagesInv, Pages
  <2>9. BookingPage(t, sh(o))
    BY <1>0, <2>5, <2>6, <2>r DEF BookingPage
  <2> QED
    BY <1>0, <2>2, <2>4, <2>5, <2>8, <2>9, ConKeeps DEF Caller
<1> QED
  BY <1>1, <1>2 DEF BookingDetail

\* The states that ask for a PIN are no menus.
LEMMA NoPinMenus ==
    Menus \cap (PinScreens \cup {"over"}) = {}
BY DEF Menus, PinScreens

\* No menu changes the PIN.
LEMMA MenuPin ==
    ASSUME NEW v, Caller(v), NEW at \in Menus, Run(at, v)
    PROVE  pin' = pin
<1>1. Quiet(v) \/ Ended => pin' = pin
  BY DEF Quiet, Ended, Con, End
<1>2. ~SetPin(at, v)
  BY NoPinMenus DEF SetPin, PinScreens
<1>3. VerifyPin(at, v) \/ CapturePin(at, v) \/ RefusePin(at, v) => pin' = pin
  BY DEF VerifyPin, VerifiedPin, CapturePin, RefusePin, GoStart, Con, End
<1>4. OrderView(at, v) \/ BookingDetail(at, v) => pin' = pin
  BY DEF OrderView, BookingDetail, Invalid, Con
<1>5. Exit(at) \/ Unavailable(at) => pin' = pin
  BY DEF Exit, Unavailable, End
<1>6. CASE \/ OrderDeed(at, v, "orders.accept", "accept")
           \/ OrderDeed(at, v, "orders.reject", "reject")
           \/ OrderDeed(at, v, "orders.confirmPayment", "confirmPayment")
           \/ BookingDeed(at, v, "pickups.bookings.cancel", "cancelBooking")
           \/ BookingDeed(at, v, "pickups.bookings.confirm", "confirmPickup")
  <2>1. {"accept", "reject", "confirmPayment", "cancelBooking", "confirmPickup"} \subseteq Kinds
    BY DEF Kinds
  <2> QED
    BY <1>1, <1>6, <2>1, DeedsEnd
<1>7. CASE \/ Plain(at, v) \/ OrdersMenu(at, v) \/ PickupDetails(at, v)
           \/ Centers(at, v) \/ Schedules(at, v) \/ ScheduleDetail(at, v) \/ BookingsList(at, v)
  BY <1>1, <1>7, OrdersQuiet, PickupsQuiet
<1>8. CASE \/ BookConfirm(at, v) \/ BookSubmit(at, v) \/ RfqConfirm(at, v) \/ RfqSubmit(at, v)
           \/ InventoryPrice(at, v)
  BY <1>1, <1>8, PromptsQuiet
<1>9. CASE RfqMenu(at, v) \/ RfqBatches(at, v) \/ Advisories(at, v) \/ InventoryMenu(at, v)
  BY <1>1, <1>9, BrowseQuiet
<1> QED
  BY <1>2, <1>3, <1>4, <1>5, <1>6, <1>7, <1>8, <1>9 DEF Run

LEMMA MenuKeeps ==
    ASSUME NEW v, Caller(v), NEW at \in Menus, Run(at, v)
    PROVE  UssdInv'
<1>1. CASE Quiet(v)
  <2>1. PICK t, x, offers : /\ t \in Sessions /\ Like(t, session)
                            /\ x \notin Pages /\ x # "over" /\ Known(offers)
                            /\ Con(v, t, x, offers)
    BY <1>1 DEF Quiet
  <2> QED
    BY <2>1, QuietKeeps DEF Caller
<1>2. CASE Ended
  <2>1. PICK d : End(d) /\ (d # Undefined => d.kind \in Kinds)
    BY <1>2 DEF Ended
  <2> QED
    BY <2>1, EndKeeps DEF Caller
<1>3. CASE OrderView(at, v)
  BY <1>3, OrderViewKeeps
<1>4. CASE BookingDetail(at, v)
  BY <1>4, BookingDetailKeeps
<1>5. ~(VerifyPin(at, v) \/ CapturePin(at, v) \/ RefusePin(at, v) \/ SetPin(at, v))
  BY NoPinMenus DEF VerifyPin, CapturePin, RefusePin, SetPin, PinScreens
<1>6. CASE Exit(at) \/ Unavailable(at)
  <2>1. End(Undefined)
    BY <1>6 DEF Exit, Unavailable
  <2> QED
    BY <2>1, EndKeeps DEF Caller
<1>7. CASE \/ OrderDeed(at, v, "orders.accept", "accept")
           \/ OrderDeed(at, v, "orders.reject", "reject")
           \/ OrderDeed(at, v, "orders.confirmPayment", "confirmPayment")
           \/ BookingDeed(at, v, "pickups.bookings.cancel", "cancelBooking")
           \/ BookingDeed(at, v, "pickups.bookings.confirm", "confirmPickup")
  <2>1. {"accept", "reject", "confirmPayment", "cancelBooking", "confirmPickup"} \subseteq Kinds
    BY DEF Kinds
  <2> QED
    BY <1>1, <1>2, <1>7, <2>1, DeedsEnd
<1>8. CASE Plain(at, v) \/ OrdersMenu(at, v) \/ PickupDetails(at, v)
  BY <1>1, <1>8, OrdersQuiet
<1>9. CASE Centers(at, v) \/ Schedules(at, v) \/ ScheduleDetail(at, v) \/ BookingsList(at, v)
  BY <1>1, <1>9, PickupsQuiet
<1>10. CASE \/ BookConfirm(at, v) \/ BookSubmit(at, v) \/ RfqConfirm(at, v) \/ RfqSubmit(at, v)
            \/ InventoryPrice(at, v)
  BY <1>1, <1>2, <1>10, PromptsQuiet
<1>11. CASE RfqMenu(at, v) \/ RfqBatches(at, v) \/ Advisories(at, v) \/ InventoryMenu(at, v)
  BY <1>1, <1>11, BrowseQuiet
<1> QED
  BY <1>3, <1>4, <1>5, <1>6, <1>7, <1>8, <1>9, <1>10, <1>11 DEF Run

-----------------------------------------------------------------------------
(* The PIN.                                                                *)

\* A caller who is not known yet is asked for a PIN, and the lists stay as they are.
LEMMA AskedForPin ==
    ASSUME UssdInv, Len(inputs) < MaxInputs, NEW v \in Nat, NEW t \in Sessions, NEW x,
           x \notin Pages, x # "over",
           inputs' = Append(inputs, v), session' = t, screen' = [at |-> x, offers |-> {}],
           shown' = shown, deed' = Undefined, pin' \in Pins \cup {Undefined},
           t.list = session.list, t.chosen = session.chosen, t.error = session.error,
           t.canCancel = session.canCancel, t.canConfirm = session.canConfirm
    PROVE  /\ WellTyped' /\ PagesInv'
           /\ Len(inputs') \in 1 .. MaxInputs /\ inputs'[Len(inputs')] = v
           /\ inputs' # <<>>
<1>1. /\ inputs \in Seq(Nat)
      /\ Append(inputs, v) \in Seq(Nat)
      /\ Len(Append(inputs, v)) = Len(inputs) + 1
      /\ Len(inputs) \in Nat
      /\ Append(inputs, v)[Len(inputs) + 1] = v
  BY OneMore DEF UssdInv, WellTyped
<1>2. Len(inputs') \in 1 .. MaxInputs /\ inputs'[Len(inputs')] = v /\ inputs' # <<>>
  BY <1>1, UssdAssumption
<1>3. screen' # Over /\ screen'.offers = {}
  BY DEF Over
<1>4. WellTyped'
  BY <1>1, <1>2, <1>3, Offers DEF UssdInv, WellTyped, Known
<1>5. PagesInv'
  BY DEF UssdInv, PagesInv, OrderPage, BookingPage
<1> QED
  BY <1>2, <1>4, <1>5

LEMMA VerifyPinKeeps ==
    ASSUME UssdInv, Len(inputs) < MaxInputs, NEW v \in Nat, ~session.verified, ~session.setup,
           NEW at, VerifyPin(at, v)
    PROVE  UssdInv'
<1>0. /\ session \in Sessions /\ session.verified = FALSE /\ session.user = FALSE
      /\ session.setup = FALSE /\ session.newPin = Undefined /\ session.pinValid = FALSE
  BY DEF UssdInv, WellTyped, CallInv, Sessions
<1>1. CASE VerifiedPin(v)
  <2> DEFINE t == [session EXCEPT !.attempts = 0, !.verified = TRUE, !.user = TRUE]
  <2>1. /\ t \in Sessions /\ t.list = session.list /\ t.chosen = session.chosen
        /\ t.error = session.error /\ t.canCancel = session.canCancel
        /\ t.canConfirm = session.canConfirm /\ t.verified = TRUE /\ t.user = TRUE
        /\ t.setup = FALSE /\ t.newPin = Undefined /\ t.pinValid = FALSE
    <3>1. 0 \in 0 .. 2 /\ TRUE \in BOOLEAN
      OBVIOUS
    <3>2. t \in Sessions
      BY <1>0, <3>1 DEF Sessions
    <3> QED
      BY <1>0, <3>2 DEF Sessions
  <2>2. Con(v, t, "menu.main", {}) /\ v = pin
    BY <1>1 DEF VerifiedPin
  <2> HIDE DEF t
  <2>3. /\ inputs' = Append(inputs, v) /\ session' = t
        /\ screen' = [at |-> "menu.main", offers |-> {}] /\ deed' = Undefined
        /\ pin' = pin /\ pin' \in Pins \cup {Undefined} /\ shown' = shown
    BY <2>2 DEF Con, Seen, UssdInv, WellTyped, PagesInv, Pages
  <2>4. /\ WellTyped' /\ PagesInv' /\ Len(inputs') \in 1 .. MaxInputs
        /\ inputs'[Len(inputs')] = v
    BY <2>1, <2>3, AskedForPin DEF Pages
  <2>5. pin # Undefined
    BY <2>2, UssdAssumption
  <2>6. inputs' # <<>>
    BY <2>4
  <2>7. CallInv'
    BY <2>1, <2>3, <2>5, <2>6 DEF CallInv
  <2> QED
    BY <2>4, <2>7 DEF UssdInv
<1>2. CASE End(Undefined)
  BY <1>2, EndKeeps
<1>3. CASE /\ session.attempts + 1 < 3
           /\ Con(v, [session EXCEPT !.attempts = @ + 1, !.verified = FALSE], "auth.verifyPin", {})
  <2> DEFINE t == [session EXCEPT !.attempts = @ + 1, !.verified = FALSE]
  <2>0. session.attempts + 1 \in 0 .. 2
    BY <1>0, <1>3 DEF Sessions
  <2>1. /\ t \in Sessions /\ t.list = session.list /\ t.chosen = session.chosen
        /\ t.error = session.error /\ t.canCancel = session.canCancel
        /\ t.canConfirm = session.canConfirm /\ t.verified = FALSE /\ t.user = FALSE
        /\ t.setup = FALSE /\ t.newPin = Undefined /\ t.pinValid = FALSE
    BY <1>0, <2>0 DEF Sessions
  <2>2. Con(v, t, "auth.verifyPin", {})
    BY <1>3
  <2> HIDE DEF t
  <2>3. /\ inputs' = Append(inputs, v) /\ session' = t
        /\ screen' = [at |-> "auth.verifyPin", offers |-> {}] /\ deed' = Undefined
        /\ pin' = pin /\ pin' \in Pins \cup {Undefined} /\ shown' = shown
    BY <2>2 DEF Con, Seen, UssdInv, WellTyped, PagesInv, Pages
  <2>4. WellTyped' /\ PagesInv'
    BY <2>1, <2>3, AskedForPin DEF Pages
  <2>6. CallInv'
    BY <2>1, <2>3 DEF CallInv
  <2> QED
    BY <2>4, <2>6 DEF UssdInv
<1> QED
  BY <1>1, <1>2, <1>3 DEF VerifyPin

LEMMA CapturePinKeeps ==
    ASSUME UssdInv, Len(inputs) < MaxInputs, NEW v \in Nat, ~session.verified, session.setup,
           NEW at, CapturePin(at, v)
    PROVE  UssdInv'
<1>0. /\ session \in Sessions /\ session.verified = FALSE /\ session.user = FALSE
      /\ session.setup = TRUE /\ session.setupUser = TRUE
  BY DEF UssdInv, WellTyped, CallInv, Sessions
<1>1. CASE v \in Pins
  <2> DEFINE t == [session EXCEPT !.newPin = v, !.pinValid = TRUE]
  <2>1. /\ t \in Sessions /\ t.list = session.list /\ t.chosen = session.chosen
        /\ t.error = session.error /\ t.canCancel = session.canCancel
        /\ t.canConfirm = session.canConfirm /\ t.verified = FALSE /\ t.user = FALSE
        /\ t.setup = TRUE /\ t.setupUser = TRUE /\ t.newPin = v
    BY <1>0, <1>1 DEF Sessions
  <2>2. Con(v, t, "auth.pinSetup.confirm", {}) /\ v # Undefined
    BY <1>1, UssdAssumption DEF CapturePin
  <2> HIDE DEF t
  <2>3. /\ inputs' = Append(inputs, v) /\ session' = t
        /\ screen' = [at |-> "auth.pinSetup.confirm", offers |-> {}] /\ deed' = Undefined
        /\ pin' = pin /\ pin' \in Pins \cup {Undefined} /\ shown' = shown
    BY <2>2 DEF Con, Seen, UssdInv, WellTyped, PagesInv, Pages
  <2>4. WellTyped' /\ PagesInv' /\ inputs'[Len(inputs')] = v /\ inputs' # <<>>
    BY <2>1, <2>3, AskedForPin DEF Pages
  <2>6. CallInv'
    BY <2>1, <2>2, <2>3, <2>4 DEF CallInv
  <2> QED
    BY <2>4, <2>6 DEF UssdInv
<1>2. CASE v \notin Pins
  <2> DEFINE t == [session EXCEPT !.pinValid = FALSE]
  <2>1. /\ t \in Sessions /\ t.list = session.list /\ t.chosen = session.chosen
        /\ t.error = session.error /\ t.canCancel = session.canCancel
        /\ t.canConfirm = session.canConfirm /\ t.verified = FALSE /\ t.user = FALSE
        /\ t.setup = TRUE /\ t.setupUser = TRUE /\ t.pinValid = FALSE
    BY <1>0 DEF Sessions
  <2>2. Con(v, t, "auth.pinSetup.capture", {})
    BY <1>2 DEF CapturePin
  <2> HIDE DEF t
  <2>3. /\ inputs' = Append(inputs, v) /\ session' = t
        /\ screen' = [at |-> "auth.pinSetup.capture", offers |-> {}] /\ deed' = Undefined
        /\ pin' = pin /\ pin' \in Pins \cup {Undefined} /\ shown' = shown
    BY <2>2 DEF Con, Seen, UssdInv, WellTyped, PagesInv, Pages
  <2>4. WellTyped' /\ PagesInv'
    BY <2>1, <2>3, AskedForPin DEF Pages
  <2>6. CallInv'
    BY <2>1, <2>3 DEF CallInv
  <2> QED
    BY <2>4, <2>6 DEF UssdInv
<1> QED
  BY <1>1, <1>2

LEMMA RefusePinKeeps ==
    ASSUME UssdInv, Len(inputs) < MaxInputs, NEW v \in Nat, ~session.verified, session.setup,
           session.pinValid, NEW at, RefusePin(at, v)
    PROVE  UssdInv'
<1>0. /\ session \in Sessions /\ session.verified = FALSE /\ session.user = FALSE
      /\ session.setup = TRUE /\ session.setupUser = TRUE /\ session.newPin # Undefined
  BY DEF UssdInv, WellTyped, CallInv, Sessions
<1> DEFINE t == [session EXCEPT !.newPin = Undefined, !.pinValid = FALSE, !.verified = FALSE]
<1>1. /\ t \in Sessions /\ t.list = session.list /\ t.chosen = session.chosen
      /\ t.error = session.error /\ t.canCancel = session.canCancel
      /\ t.canConfirm = session.canConfirm /\ t.verified = FALSE /\ t.user = FALSE
      /\ t.setup = TRUE /\ t.setupUser = TRUE /\ t.pinValid = FALSE /\ t.newPin = Undefined
  BY <1>0 DEF Sessions
<1>2. Con(v, t, "auth.pinSetup.capture", {})
  BY <1>0 DEF RefusePin
<1> HIDE DEF t
<1>3. /\ inputs' = Append(inputs, v) /\ session' = t
      /\ screen' = [at |-> "auth.pinSetup.capture", offers |-> {}] /\ deed' = Undefined
      /\ pin' = pin /\ pin' \in Pins \cup {Undefined} /\ shown' = shown
  BY <1>2 DEF Con, Seen, UssdInv, WellTyped, PagesInv, Pages
<1>4. WellTyped' /\ PagesInv'
  BY <1>1, <1>3, AskedForPin DEF Pages
<1>6. CallInv'
  BY <1>1, <1>3 DEF CallInv
<1> QED
  BY <1>4, <1>6 DEF UssdInv

\* The PIN that is stored is the one of the key before, too.
LEMMA SetPinKeeps ==
    ASSUME UssdInv, Len(inputs) < MaxInputs, NEW v \in Nat, ~session.verified, session.setup,
           session.pinValid, NEW at, SetPin(at, v)
    PROVE  /\ UssdInv'
           /\ inputs # <<>> /\ inputs[Len(inputs)] = pin' /\ inputs'[Len(inputs')] = pin'
<1>0. /\ session \in Sessions /\ session.newPin = v /\ v # Undefined
      /\ inputs # <<>> /\ inputs[Len(inputs)] = v
  BY UssdAssumption DEF UssdInv, WellTyped, CallInv, SetPin
<1> DEFINE t == [session EXCEPT !.newPin = Undefined, !.pinValid = FALSE, !.setup = FALSE,
                                !.verified = TRUE, !.user = TRUE]
<1>1. /\ t \in Sessions /\ t.list = session.list /\ t.chosen = session.chosen
      /\ t.error = session.error /\ t.canCancel = session.canCancel
      /\ t.canConfirm = session.canConfirm /\ t.verified = TRUE /\ t.user = TRUE
      /\ t.setup = FALSE /\ t.pinValid = FALSE /\ t.newPin = Undefined
  BY <1>0 DEF Sessions
<1>2. v \in Pins
  BY <1>0 DEF Sessions
<1>3. /\ inputs' = Append(inputs, v) /\ session' = t
      /\ screen' = [at |-> "menu.main", offers |-> {}] /\ deed' = Undefined
      /\ pin' = v /\ pin' \in Pins \cup {Undefined} /\ shown' = shown
  BY <1>2 DEF SetPin
<1> HIDE DEF t
<1>4. /\ WellTyped' /\ PagesInv' /\ Len(inputs') \in 1 .. MaxInputs
      /\ inputs'[Len(inputs')] = v
  BY <1>1, <1>3, AskedForPin DEF Pages
<1>5. inputs' # <<>>
  BY <1>4
<1>6. CallInv'
  BY <1>0, <1>1, <1>3, <1>5 DEF CallInv
<1> QED
  BY <1>0, <1>3, <1>4, <1>5, <1>6 DEF UssdInv

\* Where a PIN is asked for, nothing else runs.
LEMMA PinRuns ==
    ASSUME NEW v, NEW at \in PinScreens, Run(at, v)
    PROVE  VerifyPin(at, v) \/ CapturePin(at, v) \/ RefusePin(at, v) \/ SetPin(at, v)
           \/ Unavailable(at)
<1> USE DEF PinScreens
<1>1. ~(Plain(at, v) \/ Exit(at) \/ OrdersMenu(at, v) \/ OrderView(at, v) \/ PickupDetails(at, v))
  BY DEF Plain, Exit, OrdersMenu, OrderView, PickupDetails
<1>2. ~ \/ OrderDeed(at, v, "orders.accept", "accept")
        \/ OrderDeed(at, v, "orders.reject", "reject")
        \/ OrderDeed(at, v, "orders.confirmPayment", "confirmPayment")
        \/ BookingDeed(at, v, "pickups.bookings.cancel", "cancelBooking")
        \/ BookingDeed(at, v, "pickups.bookings.confirm", "confirmPickup")
  BY DEF OrderDeed, BookingDeed
<1>3. ~ \/ Centers(at, v) \/ Schedules(at, v) \/ ScheduleDetail(at, v)
        \/ BookConfirm(at, v) \/ BookSubmit(at, v)
        \/ BookingsList(at, v) \/ BookingDetail(at, v)
  BY DEF Centers, Schedules, ScheduleDetail, BookConfirm, BookSubmit, BookingsList, BookingDetail
<1>4. ~ \/ RfqMenu(at, v) \/ RfqBatches(at, v) \/ RfqConfirm(at, v) \/ RfqSubmit(at, v)
        \/ Advisories(at, v) \/ InventoryMenu(at, v) \/ InventoryPrice(at, v)
  BY DEF RfqMenu, RfqBatches, RfqConfirm, RfqSubmit, Advisories, InventoryMenu, InventoryPrice
<1> QED
  BY <1>1, <1>2, <1>3, <1>4 DEF Run

-----------------------------------------------------------------------------
(* Every step.                                                             *)

LEMMA UssdStarts ==
    ASSUME UssdInit
    PROVE  UssdInv
<1>1. <<>> \in Seq(Nat) /\ Len(<<>>) = 0
  OBVIOUS
<1>2. WellTyped
  BY <1>1, FreshTyped, Offers, UssdAssumption DEF UssdInit, WellTyped, Over, Areas
<1>3. CallInv
  BY FreshTyped DEF UssdInit, CallInv
<1>4. PagesInv
  BY FreshPages DEF UssdInit, PagesInv, NothingShown, Pages
<1> QED
  BY <1>2, <1>3, <1>4 DEF UssdInv

LEMMA DialKeeps ==
    ASSUME UssdInv, Dial
    PROVE  UssdInv'
<1> DEFINE t == Started(Fresh)
<1>1. /\ session' = t /\ inputs' = inputs /\ inputs = <<>> /\ session = Fresh
      /\ screen' = [at |-> "start", offers |-> {}]
      /\ pin' = pin /\ shown' = shown /\ deed' = Undefined
  BY DEF Dial, UssdInv, WellTyped
<1>2. Fresh \in Sessions
  BY FreshTyped
<1>3. /\ t \in Sessions /\ t.list = Fresh.list /\ t.chosen = Fresh.chosen /\ t.error = Fresh.error
      /\ t.canCancel = Fresh.canCancel /\ t.canConfirm = Fresh.canConfirm
      /\ t.verified = Fresh.verified /\ t.user = Fresh.user /\ t.pinValid = Fresh.pinValid
      /\ t.newPin = Fresh.newPin
      /\ t.setup => t.setupUser
  <2>1. 0 \in 0 .. 2
    OBVIOUS
  <2> QED
    BY <1>2, <2>1 DEF Started, Sessions
<1> HIDE DEF t
<1>4. screen' # Over /\ screen'.offers = {}
  BY <1>1 DEF Over
<1>5. WellTyped'
  BY <1>1, <1>3, <1>4, Offers DEF UssdInv, WellTyped
<1>6. CallInv'
  BY <1>1, <1>3, FreshTyped DEF CallInv
<1>7. PagesInv'
  BY <1>1, <1>3, FreshTyped DEF UssdInv, PagesInv, OrderPage, BookingPage, Areas
<1> QED
  BY <1>5, <1>6, <1>7 DEF UssdInv

LEMMA RestartKeeps ==
    ASSUME UssdInv, Restart
    PROVE  UssdInv'
<1>1. /\ session' = Fresh /\ inputs' = inputs /\ screen' = screen
      /\ pin' = pin /\ shown' = shown /\ deed' = Undefined
  BY DEF Restart
<1>2. WellTyped'
  BY <1>1, FreshTyped DEF UssdInv, WellTyped, Areas
<1>3. CallInv'
  BY <1>1, FreshTyped DEF CallInv
<1>4. PagesInv'
  BY <1>1, FreshPages DEF UssdInv, PagesInv
<1> QED
  BY <1>2, <1>3, <1>4 DEF UssdInv

\* Where a request of the call leads, by what the session knows of the caller.
LEMMA WhereItLeads ==
    ASSUME UssdInv, NEW v \in Nat, NEW at, at = Walk(Append(inputs, v), session)
    PROVE  /\ session.verified
                => /\ at \in Menus
                   /\ \E x \in Menus \cup {"auth.verifyPin"} : at = Goes(x, v, session)
           /\ ~session.verified /\ ~session.setup => at = "auth.verifyPin"
           /\ ~session.verified /\ session.setup
                => /\ at \in {"auth.pinSetup.capture", "auth.pinSetup.confirm"}
                   /\ at = "auth.pinSetup.confirm" => session.pinValid
<1>1. inputs \in Seq(Nat)
  BY DEF UssdInv, WellTyped
<1>2. session.verified => ~session.setup /\ inputs # <<>>
  BY <1>1 DEF UssdInv, CallInv
<1> DEFINE s == session
           keys == inputs
<1> HIDE DEF s, keys
<1>3. s.verified => /\ Walk(Append(keys, v), s) \in Menus
                    /\ \E x \in Menus \cup {"auth.verifyPin"} :
                          Walk(Append(keys, v), s) = Goes(x, v, s)
  <2>1. keys \in Seq(Nat)
    BY <1>1 DEF keys
  <2>2. s.verified => ~s.setup /\ keys # <<>>
    BY <1>2 DEF keys, s
  <2> QED
    BY <2>1, <2>2, WalkToMenus, WalkToDeed
<1>4. /\ ~s.verified /\ ~s.setup => Walk(Append(keys, v), s) = "auth.verifyPin"
      /\ ~s.verified /\ s.setup
            => /\ Walk(Append(keys, v), s) \in {"auth.pinSetup.capture", "auth.pinSetup.confirm"}
               /\ Walk(Append(keys, v), s) = "auth.pinSetup.confirm" => s.pinValid
  <2>1. keys \in Seq(Nat)
    BY <1>1 DEF keys
  <2> QED
    BY <2>1, WalkToVerify, WalkToSetup
<1> QED
  BY <1>3, <1>4 DEF s, keys

\* One request of the call: from whom it is, and what then runs.
LEMMA RequestKeeps ==
    ASSUME UssdInv, Len(inputs) < MaxInputs, NEW v \in Nat,
           NEW at, at = Walk(Append(inputs, v), session), Run(at, v)
    PROVE  /\ UssdInv'
           /\ pin' # pin => /\ inputs # <<>> /\ inputs[Len(inputs)] = pin'
                            /\ inputs'[Len(inputs')] = pin'
<1>1. CASE session.verified
  <2>1. at \in Menus /\ Caller(v)
    BY <1>1, WhereItLeads DEF Caller
  <2>2. UssdInv'
    BY <2>1, MenuKeeps
  <2>3. pin' = pin
    BY <2>1, MenuPin
  <2> QED
    BY <2>2, <2>3
<1>2. ASSUME ~session.verified
      PROVE  \/ VerifyPin(at, v) \/ CapturePin(at, v) \/ RefusePin(at, v) \/ SetPin(at, v)
             \/ Unavailable(at)
  <2>1. at \in PinScreens
    BY <1>2, WhereItLeads DEF PinScreens
  <2> QED
    BY <2>1, PinRuns
<1>3. CASE ~session.verified /\ Unavailable(at)
  <2>1. End(Undefined)
    BY <1>3 DEF Unavailable
  <2>2. pin' = pin
    BY <2>1 DEF End
  <2> QED
    BY <2>1, <2>2, EndKeeps
<1>4. CASE ~session.verified /\ ~session.setup /\ ~Unavailable(at)
  <2>1. at = "auth.verifyPin"
    BY <1>4, WhereItLeads
  <2>2. VerifyPin(at, v)
    BY <1>2, <1>4, <2>1 DEF CapturePin, RefusePin, SetPin
  <2>3. pin' = pin
    BY <2>2 DEF VerifyPin, VerifiedPin, Con, End
  <2> QED
    BY <1>4, <2>2, <2>3, VerifyPinKeeps
<1>5. CASE ~session.verified /\ session.setup /\ ~Unavailable(at)
  <2>1. /\ at \in {"auth.pinSetup.capture", "auth.pinSetup.confirm"}
        /\ at = "auth.pinSetup.confirm" => session.pinValid
    BY <1>5, WhereItLeads
  <2>2. CASE CapturePin(at, v)
    <3>1. pin' = pin
      BY <2>2 DEF CapturePin, Con
    <3> QED
      BY <1>5, <2>2, <3>1, CapturePinKeeps
  <2>3. CASE RefusePin(at, v)
    <3>1. session.pinValid
      BY <2>1, <2>3 DEF RefusePin
    <3>2. pin' = pin
      BY <2>3 DEF RefusePin, GoStart, Con
    <3> QED
      BY <1>5, <2>3, <3>1, <3>2, RefusePinKeeps
  <2>4. CASE SetPin(at, v)
    <3>1. session.pinValid
      BY <2>1, <2>4 DEF SetPin
    <3> QED
      BY <1>5, <2>4, <3>1, SetPinKeeps
  <2>5. ~VerifyPin(at, v)
    BY <2>1 DEF VerifyPin
  <2> QED
    BY <1>2, <1>5, <2>2, <2>3, <2>4, <2>5
<1> QED
  BY <1>1, <1>3, <1>4, <1>5

LEMMA UssdNextKeeps ==
    ASSUME UssdInv, UssdNext
    PROVE  /\ UssdInv'
           /\ pin' # pin => /\ inputs # <<>> /\ inputs[Len(inputs)] = pin'
                            /\ inputs'[Len(inputs')] = pin'
<1>1. CASE Dial
  BY <1>1, DialKeeps DEF Dial
<1>2. CASE HangUp
  <2>1. End(Undefined)
    BY <1>2 DEF HangUp
  <2>2. pin' = pin
    BY <2>1 DEF End
  <2> QED
    BY <2>1, <2>2, EndKeeps
<1>3. CASE Restart
  BY <1>3, RestartKeeps DEF Restart
<1>4. CASE /\ Len(inputs) < MaxInputs
           /\ \E v \in Typed : LET at == Walk(Append(inputs, v), session) IN Run(at, v)
  <2>1. Typed \subseteq Nat
    BY UssdAssumption DEF Typed
  <2>2. PICK v \in Typed : Run(Walk(Append(inputs, v), session), v)
    BY <1>4
  <2>3. v \in Nat
    BY <2>1
  <2> QED
    BY <1>4, <2>2, <2>3, RequestKeeps
<1> QED
  BY <1>1, <1>2, <1>3, <1>4 DEF UssdNext

-----------------------------------------------------------------------------
(* Deeds.                                                                  *)

\* What a menu does to a row is done to the one chosen, by the state it is routed to.
RowDeed(at, v, d) ==
    \/ /\ session.chosen["orders"] # Undefined
       /\ \/ at = "orders.accept" /\ d = [kind |-> "accept", item |-> session.chosen["orders"][1],
                                          key |-> v]
          \/ at = "orders.reject" /\ d = [kind |-> "reject", item |-> session.chosen["orders"][1],
                                          key |-> v]
          \/ /\ at = "orders.confirmPayment"
             /\ d = [kind |-> "confirmPayment", item |-> session.chosen["orders"][1], key |-> v]
    \/ /\ session.chosen["bookings"] # Undefined
       /\ \/ /\ at = "pickups.bookings.cancel"
             /\ d = [kind |-> "cancelBooking", item |-> session.chosen["bookings"][1], key |-> v]
          \/ /\ at = "pickups.bookings.confirm"
             /\ d = [kind |-> "confirmPickup", item |-> session.chosen["bookings"][1], key |-> v]

LEMMA MenuDeeds ==
    ASSUME NEW v, Caller(v), NEW at \in Menus, Run(at, v),
           deed' # Undefined, deed'.kind \in RowDeeds
    PROVE  RowDeed(at, v, deed')
<1>1. ~Quiet(v)
  BY DEF Quiet, Con
<1>2. ~ \/ VerifyPin(at, v) \/ CapturePin(at, v) \/ RefusePin(at, v) \/ SetPin(at, v)
        \/ Exit(at) \/ Unavailable(at)
  BY DEF VerifyPin, VerifiedPin, CapturePin, RefusePin, SetPin, GoStart, Exit, Unavailable, Con, End
<1>3. ~OrderView(at, v) /\ ~BookingDetail(at, v)
  BY DEF OrderView, BookingDetail, Invalid, Con
<1>4. ~ \/ Plain(at, v) \/ OrdersMenu(at, v) \/ PickupDetails(at, v)
        \/ Centers(at, v) \/ Schedules(at, v) \/ ScheduleDetail(at, v) \/ BookingsList(at, v)
  BY <1>1, OrdersQuiet, PickupsQuiet
<1>5. ~(RfqMenu(at, v) \/ RfqBatches(at, v) \/ Advisories(at, v) \/ InventoryMenu(at, v))
  BY <1>1, BrowseQuiet
<1>6. ~BookConfirm(at, v) /\ ~RfqConfirm(at, v)
  BY <1>1, PromptsQuiet
<1>7. ~BookSubmit(at, v)
  BY DEF BookSubmit, Con, End, RowDeeds
<1>8. ~RfqSubmit(at, v)
  BY DEF RfqSubmit, ShowRequests, GoStart, Con, End, RowDeeds
<1>9. ~InventoryPrice(at, v)
  BY DEF InventoryPrice, ShowInventory, GoStart, Con, End, RowDeeds
<1>10. ASSUME NEW state, NEW kind, OrderDeed(at, v, state, kind)
       PROVE  /\ session.chosen["orders"] # Undefined /\ at = state
              /\ deed' = [kind |-> kind, item |-> session.chosen["orders"][1], key |-> v]
  BY <1>10 DEF OrderDeed, GoStart, Con, End
<1>11. ASSUME NEW state, NEW kind, BookingDeed(at, v, state, kind)
       PROVE  /\ session.chosen["bookings"] # Undefined /\ at = state
              /\ deed' = [kind |-> kind, item |-> session.chosen["bookings"][1], key |-> v]
  BY <1>11 DEF BookingDeed, ShowBookings, GoStart, Con, End
<1> QED
  BY <1>2, <1>3, <1>4, <1>5, <1>6, <1>7, <1>8, <1>9, <1>10, <1>11 DEF Run, RowDeed

\* The page of the chosen row said so of the key.
LEMMA DeedShown ==
    ASSUME UssdInv, session.verified, NEW v \in Nat, NEW at,
           NEW x \in Menus \cup {"auth.verifyPin"}, at = Goes(x, v, session),
           NEW d, RowDeed(at, v, d)
    PROVE  \E page \in DOMAIN shown : d \in shown[page]
<1> DEFINE o == session.chosen["orders"]
           b == session.chosen["bookings"]
<1>1. /\ at = "orders.accept" =>
           v = 1 /\ "orders" \notin session.error /\ OrderStatus(session) = "ORDER_PLACED"
      /\ at = "orders.reject" =>
           v = 2 /\ "orders" \notin session.error /\ OrderStatus(session) = "ORDER_PLACED"
      /\ at = "orders.confirmPayment" =>
           v = 1 /\ "orders" \notin session.error /\ OrderStatus(session) = "PAYMENT_SECURED"
      /\ at = "pickups.bookings.cancel" =>
           v = 1 /\ "bookings" \notin session.error /\ session.canCancel
      /\ at = "pickups.bookings.confirm" =>
           v = 2 /\ "bookings" \notin session.error /\ session.canConfirm
  BY RowRoutes
<1>2. DOMAIN shown = Pages /\ OrderPage(session, shown) /\ BookingPage(session, shown)
  BY DEF UssdInv, PagesInv
<1>3. CASE o # Undefined /\ at \in {"orders.accept", "orders.reject", "orders.confirmPayment"}
  <2>1. OrderOffers(o) \subseteq shown["orders.view"]
    BY <1>1, <1>2, <1>3 DEF OrderPage
  <2>2. o[2] = OrderStatus(session)
    BY <1>3 DEF OrderStatus
  <2>3. /\ at = "orders.accept" => One("accept", o[1]) \in OrderOffers(o)
        /\ at = "orders.reject" => Two("reject", o[1]) \in OrderOffers(o)
        /\ at = "orders.confirmPayment" => One("confirmPayment", o[1]) \in OrderOffers(o)
    BY <1>1, <2>2 DEF OrderOffers
  <2>4. /\ at = "orders.accept" => d = One("accept", o[1])
        /\ at = "orders.reject" => d = Two("reject", o[1])
        /\ at = "orders.confirmPayment" => d = One("confirmPayment", o[1])
    BY <1>1, <1>3 DEF RowDeed, One, Two
  <2> QED
    BY <1>2, <1>3, <2>1, <2>3, <2>4 DEF Pages
<1>4. CASE b # Undefined /\ at \in {"pickups.bookings.cancel", "pickups.bookings.confirm"}
  <2>1. /\ at = "pickups.bookings.cancel"
              => One("cancelBooking", b[1]) \in shown["pickups.bookings.detail"]
        /\ at = "pickups.bookings.confirm"
              => Two("confirmPickup", b[1]) \in shown["pickups.bookings.detail"]
    BY <1>1, <1>2, <1>4 DEF BookingPage
  <2>2. /\ at = "pickups.bookings.cancel" => d = One("cancelBooking", b[1])
        /\ at = "pickups.bookings.confirm" => d = Two("confirmPickup", b[1])
    BY <1>1, <1>4 DEF RowDeed, One, Two
  <2> QED
    BY <1>2, <1>4, <2>1, <2>2 DEF Pages
<1> QED
  BY <1>3, <1>4 DEF RowDeed

LEMMA UssdNextShown ==
    ASSUME UssdInv, UssdNext, deed' # Undefined, deed'.kind \in RowDeeds
    PROVE  \E page \in DOMAIN shown : deed' \in shown[page]
<1>1. ~(Dial \/ HangUp \/ Restart)
  BY DEF Dial, HangUp, Restart, End
<1>2. PICK v \in Typed : Run(Walk(Append(inputs, v), session), v)
  BY <1>1 DEF UssdNext
<1>3. Len(inputs) < MaxInputs
  BY <1>1 DEF UssdNext
<1>4. v \in Nat
  BY UssdAssumption DEF Typed
<1> DEFINE at == Walk(Append(inputs, v), session)
<1>5. Run(at, v)
  BY <1>2
<1> HIDE DEF at
<1>6. session.verified
  <2> SUFFICES ASSUME ~session.verified
               PROVE  FALSE
    OBVIOUS
  <2>1. at \in PinScreens
    BY <1>4, WhereItLeads DEF PinScreens, at
  <2>2. VerifyPin(at, v) \/ CapturePin(at, v) \/ RefusePin(at, v) \/ SetPin(at, v)
        \/ Unavailable(at)
    BY <1>5, <2>1, PinRuns
  <2>3. deed' = Undefined
    BY <2>2 DEF VerifyPin, VerifiedPin, CapturePin, RefusePin, SetPin, Unavailable, GoStart, Con, End
  <2> QED
    BY <2>3
<1>7. at \in Menus /\ \E x \in Menus \cup {"auth.verifyPin"} : at = Goes(x, v, session)
  BY <1>4, <1>6, WhereItLeads DEF at
<1>8. Caller(v)
  BY <1>3, <1>4, <1>6 DEF Caller
<1>9. RowDeed(at, v, deed')
  BY <1>5, <1>7, <1>8, MenuDeeds
<1> DEFINE d == deed'
<1>10. RowDeed(at, v, d)
  BY <1>9
<1> QED
  BY <1>4, <1>6, <1>7, <1>9, DeedShown

-----------------------------------------------------------------------------
(* Theorems.                                                               *)

LEMMA UssdStutters ==
    ASSUME UssdInv, UNCHANGED ussdVars
    PROVE  UssdInv'
BY DEF ussdVars, UssdInv, WellTyped, CallInv, PagesInv

LEMMA UssdInvariance == UssdSpec => []UssdInv
<1>1. UssdInit => UssdInv
  BY UssdStarts
<1>2. UssdInv /\ [UssdNext]_ussdVars => UssdInv'
  BY UssdNextKeeps, UssdStutters
<1> QED
  BY <1>1, <1>2, PTL DEF UssdSpec

\* The session of a call keeps its types, whatever is typed, in a call of any length: no third
\* wrong PIN is counted (verifyPin ends the call), and no page is longer than a screen.
THEOREM UssdTyped == UssdSpec => []UssdTypeOK
<1>1. UssdInv => UssdTypeOK
  <2> SUFFICES ASSUME UssdInv
               PROVE  UssdTypeOK
    OBVIOUS
  <2>1. DOMAIN session = DOMAIN Fresh
    BY FreshTyped DEF UssdInv, WellTyped, Sessions
  <2> QED
    BY <2>1 DEF UssdInv, WellTyped, CallInv, UssdTypeOK, Sessions, Known, Errors
<1> QED
  BY <1>1, UssdInvariance, PTL

\* A PIN is stored only when the last two keys of the call are that PIN, though the walk reads
\* all the keys again with each request (auth.pinSetup.capture and auth.pinSetup.confirm).
THEOREM UssdPinTwice == UssdSpec => PinTypedTwice
<1>1. UssdInv /\ [UssdNext]_ussdVars
        => [pin' # pin => /\ inputs # <<>> /\ inputs[Len(inputs)] = pin'
                          /\ inputs'[Len(inputs')] = pin']_ussdVars
  BY UssdNextKeeps
<1> QED
  BY <1>1, UssdInvariance, PTL DEF UssdSpec, PinTypedTwice

\* An order is accepted, rejected or its payment confirmed, and a booking cancelled or picked
\* up, only as the page of that row, last seen in the call, said of the key: the routes of
\* orders.view and pickups.bookings.detail look at what the page was made from.
THEOREM UssdDoneAsShown == UssdSpec => DoneAsShown
<1>1. UssdInv /\ [UssdNext]_ussdVars
        => [deed' # Undefined /\ deed'.kind \in RowDeeds
               => \E page \in DOMAIN shown : deed' \in shown[page]]_ussdVars
  BY UssdNextShown
<1> QED
  BY <1>1, UssdInvariance, PTL DEF UssdSpec, DoneAsShown

-----------------------------------------------------------------------------
(***************************************************************************)
(* Several calls.  What a session or a handler knows is good (GoodSession, *)
(* GoodWork) by what has happened - who calls, what was typed, which PINs  *)
(* there were, which calls were crossed - and stays good, because all of   *)
(* that only grows (Grown).  A handler that waits while menu.args names    *)
(* another call has seen that call's request come, so that the session it  *)
(* will write to is that of a crossed call.                                *)
(***************************************************************************)

SessionRows == [setup : BOOLEAN, setupUser : Users \cup {Nobody},
                attempts : 0 .. 2, newPin : Numbers \cup {Nobody},
                pinValid : BOOLEAN, verified : BOOLEAN,
                user : Users \cup {Nobody}]

Occurs(keys, p) == \E i \in 1 .. Len(keys) : keys[i] = p

OccursTwice(keys, p) == \E i, j \in 1 .. Len(keys) : i < j /\ keys[i] = p /\ keys[j] = p

\* Call d has had a PIN of u typed.
HasTyped(u, d, keys, pins) == \E p \in pins[u] : Occurs(keys[d], p)

\* Call c may take its session for that of u.
MayKnow(u, c, by, keys, pins, cross) ==
    \E d \in Calls : HasTyped(u, d, keys, pins) /\ (c \notin cross => d = c /\ u = by[c])

GoodSession(s, c, by, keys, pins, cross) ==
    /\ s.newPin # Nobody => Occurs(keys[c], s.newPin)
    /\ s.setupUser # Nobody /\ c \notin cross => s.setupUser = by[c]
    /\ s.user # Nobody => MayKnow(s.user, c, by, keys, pins, cross)

GoodWork(q, at, by, keys, pins, cross) ==
    q # Free =>
        /\ at # Nobody
        /\ at # q.call => at \in cross
        /\ q.op \in {"start", "find", "compare", "login"} => q.user = by[q.call]
        /\ q.op = "find" => Occurs(keys[q.call], q.pin)
        /\ q.op = "login" => HasTyped(q.user, q.call, keys, pins)
        /\ q.op = "compare" => (q.valid => HasTyped(q.user, q.call, keys, pins))
        /\ q.op = "store" => /\ OccursTwice(keys[q.call], q.pin)
                             /\ q.call \notin cross => q.user = by[q.call]

\* A call that is not dialled yet is known to nothing.
Untouched(c) ==
    /\ caller[c] = Nobody
    /\ sessions[c] = Blank
    /\ args # c
    /\ \A h \in Handlers : running[h] # Free => running[h].call # c

CallsInv ==
    /\ CallsTypeOK
    /\ \A c \in Calls : phase[c] = "new" => Untouched(c)
    /\ \A u \in Users : pinHash[u] # Nobody => pinHash[u] \in held[u]
    /\ \A c \in Calls : GoodSession(sessions[c], c, caller, typed, held, crossed)
    /\ \A h \in Handlers : GoodWork(running[h], args, caller, typed, held, crossed)

Grown ==
    /\ \A c \in Calls : /\ Len(typed[c]) <= Len(typed'[c])
                        /\ \A i \in 1 .. Len(typed[c]) : typed'[c][i] = typed[c][i]
    /\ \A u \in Users : held[u] \subseteq held'[u]
    /\ crossed \subseteq crossed'
    /\ \A c \in Calls : phase[c] # "new" => caller'[c] = caller[c]

\* What was typed stays typed.
LEMMA TypedStays ==
    ASSUME CallsTypeOK, typed' \in [Calls -> Seq(Entries)], Grown, NEW c \in Calls, NEW p
    PROVE  /\ Occurs(typed[c], p) => Occurs(typed'[c], p)
           /\ OccursTwice(typed[c], p) => OccursTwice(typed'[c], p)
           /\ \A u \in Users : HasTyped(u, c, typed, held) => HasTyped(u, c, typed', held')
<1>1. Len(typed[c]) \in Nat /\ Len(typed'[c]) \in Nat /\ Len(typed[c]) <= Len(typed'[c])
  BY DEF CallsTypeOK, Grown
<1>2. \A i \in 1 .. Len(typed[c]) : i \in 1 .. Len(typed'[c]) /\ typed'[c][i] = typed[c][i]
  BY <1>1 DEF Grown
<1>3. \A x : Occurs(typed[c], x) => Occurs(typed'[c], x)
  BY <1>2 DEF Occurs
<1>4. OccursTwice(typed[c], p) => OccursTwice(typed'[c], p)
  BY <1>2 DEF OccursTwice
<1>5. \A u \in Users : HasTyped(u, c, typed, held) => HasTyped(u, c, typed', held')
  BY <1>3 DEF HasTyped, Grown
<1> QED
  BY <1>3, <1>4, <1>5

\* What a session knows stays good.
LEMMA SessionStaysGood ==
    ASSUME CallsTypeOK, typed' \in [Calls -> Seq(Entries)], Grown, NEW c \in Calls, NEW s \in SessionRows,
           phase[c] # "new" \/ s = Blank,
           GoodSession(s, c, caller, typed, held, crossed)
    PROVE  GoodSession(s, c, caller', typed', held', crossed')
<1>1. CASE s = Blank
  BY <1>1 DEF Blank, GoodSession
<1>2. CASE phase[c] # "new"
  <2>1. caller'[c] = caller[c] /\ crossed \subseteq crossed'
    BY <1>2 DEF Grown
  <2>2. s.newPin # Nobody => Occurs(typed'[c], s.newPin)
    BY TypedStays DEF GoodSession
  <2>3. s.setupUser # Nobody /\ c \notin crossed' => s.setupUser = caller'[c]
    BY <2>1 DEF GoodSession
  <2>4. s.user # Nobody => MayKnow(s.user, c, caller', typed', held', crossed')
    <3> SUFFICES ASSUME s.user # Nobody
                 PROVE  MayKnow(s.user, c, caller', typed', held', crossed')
      OBVIOUS
    <3>1. s.user \in Users
      BY DEF SessionRows
    <3>2. PICK d \in Calls : /\ HasTyped(s.user, d, typed, held)
                             /\ c \notin crossed => d = c /\ s.user = caller[c]
      BY DEF GoodSession, MayKnow
    <3>3. HasTyped(s.user, d, typed', held')
      BY <3>1, <3>2, TypedStays
    <3> QED
      BY <2>1, <3>2, <3>3 DEF MayKnow
  <2> QED
    BY <2>2, <2>3, <2>4 DEF GoodSession
<1> QED
  BY <1>1, <1>2

\* What a handler knows stays good, if a new request of another call is a crossing.
LEMMA WorkStaysGood ==
    ASSUME CallsTypeOK, typed' \in [Calls -> Seq(Entries)], Grown, NEW q \in Handler, NEW at, NEW next,
           q # Free => phase[q.call] # "new",
           q # Free => next = at \/ next = q.call \/ next \in crossed',
           next # Nobody \/ q = Free,
           GoodWork(q, at, caller, typed, held, crossed)
    PROVE  GoodWork(q, next, caller', typed', held', crossed')
<1> SUFFICES ASSUME q # Free
             PROVE  GoodWork(q, next, caller', typed', held', crossed')
  BY DEF GoodWork
<1>1. q.call \in Calls
  BY DEF Handler, Free
<1>2. caller'[q.call] = caller[q.call] /\ crossed \subseteq crossed'
  BY <1>1 DEF Grown
<1>3. next # Nobody /\ (next # q.call => next \in crossed')
  BY <1>2 DEF GoodWork
<1>4. q.op \in {"start", "find", "compare", "login"} => q.user = caller'[q.call]
  BY <1>2 DEF GoodWork
<1>5. q.op = "find" => Occurs(typed'[q.call], q.pin)
  BY <1>1, TypedStays DEF GoodWork
<1>6. /\ q.op = "login" => HasTyped(q.user, q.call, typed', held')
      /\ q.op = "compare" => (q.valid => HasTyped(q.user, q.call, typed', held'))
  <2>1. q.op \in {"login", "compare"} => q.user \in Users
    BY DEF Handler
  <2> QED
    BY <1>1, <2>1, TypedStays DEF GoodWork
<1>7. q.op = "store" => /\ OccursTwice(typed'[q.call], q.pin)
                        /\ q.call \notin crossed' => q.user = caller'[q.call]
  BY <1>1, <1>2, TypedStays DEF GoodWork
<1> QED
  BY <1>3, <1>4, <1>5, <1>6, <1>7 DEF GoodWork

\* A handler that goes on writes to the session that menu.args names.
LEMMA HandlerKeeps ==
    ASSUME CallsInv, NEW h \in Handlers, running[h] # Free, Same,
           NEW s \in SessionRows, Writes(s),
           NEW q \in Handler, running' = [running EXCEPT ![h] = q],
           q # Free => q.call = running[h].call,
           phase' \in [Calls -> {"new", "waiting", "asked", "over"}],
           \A c \in Calls : phase'[c] = "new" <=> phase[c] = "new",
           pinHash' \in [Users -> Numbers \cup {Nobody}], held' \in [Users -> SUBSET Numbers],
           \A u \in Users : held[u] \subseteq held'[u],
           \A u \in Users : pinHash'[u] # Nobody => pinHash'[u] \in held'[u],
           GoodSession(s, args, caller, typed, held', crossed),
           GoodWork(q, args, caller, typed, held', crossed)
    PROVE  CallsInv'
<1>1. args \in Calls
  BY DEF CallsInv, CallsTypeOK, GoodWork
<1>2. /\ sessions' = [sessions EXCEPT ![args] = s]
      /\ caller' = caller /\ typed' = typed /\ args' = args /\ crossed' = crossed
      /\ sessions \in [Calls -> SessionRows] /\ running \in [Handlers -> Handler]
  BY DEF Writes, Same, CallsInv, CallsTypeOK, SessionRows
<1>3. CallsTypeOK'
  <2>1. sessions' \in [Calls -> SessionRows] /\ running' \in [Handlers -> Handler]
    BY <1>1, <1>2
  <2>2. \A c \in Calls : phase'[c] # "new" => caller'[c] # Nobody
    BY <1>2 DEF CallsInv, CallsTypeOK
  <2> QED
    BY <1>2, <2>1, <2>2 DEF CallsInv, CallsTypeOK, SessionRows
<1>4. Grown
  BY <1>2, <1>3 DEF Grown, CallsTypeOK
<1>5. \A c \in Calls : phase[c] = "new" => c # args /\ running[h].call # c
  BY DEF CallsInv, Untouched
<1>6. ASSUME NEW c \in Calls, phase'[c] = "new"
      PROVE  Untouched(c)'
  <2>1. phase[c] = "new" /\ Untouched(c)
    BY <1>6 DEF CallsInv
  <2>2. \A k \in Handlers : running'[k] # Free => running'[k].call # c
    BY <1>2, <1>5, <2>1 DEF Untouched
  <2> QED
    BY <1>1, <1>2, <1>5, <2>1, <2>2 DEF Untouched
<1>7. ASSUME NEW c \in Calls
      PROVE  GoodSession(sessions'[c], c, caller', typed', held', crossed')
  <2>1. CASE c = args
    BY <1>1, <1>2, <2>1
  <2>2. CASE c # args
    <3>1. /\ sessions'[c] = sessions[c] /\ sessions[c] \in SessionRows
          /\ phase[c] # "new" \/ sessions[c] = Blank
          /\ GoodSession(sessions[c], c, caller, typed, held, crossed)
      BY <1>2, <2>2 DEF CallsInv, Untouched
    <3> QED
      BY <1>2, <1>4, <3>1, SessionStaysGood DEF CallsInv, CallsTypeOK
  <2> QED
    BY <2>1, <2>2
<1>8. ASSUME NEW k \in Handlers
      PROVE  GoodWork(running'[k], args', caller', typed', held', crossed')
  <2>1. CASE k = h
    BY <1>2, <2>1
  <2>2. CASE k # h
    <3>1. /\ running'[k] = running[k] /\ running[k] \in Handler
          /\ GoodWork(running[k], args, caller, typed, held, crossed)
      BY <1>2, <2>2 DEF CallsInv
    <3>2. running[k] # Free => phase[running[k].call] # "new"
      <4>1. running[k] # Free => running[k].call \in Calls
        BY <3>1 DEF Handler, Free
      <4> QED
        BY <4>1 DEF CallsInv, Untouched
    <3>3. args # Nobody
      BY DEF CallsInv, GoodWork
    <3> QED
      BY <1>2, <1>4, <3>1, <3>2, <3>3, WorkStaysGood DEF CallsInv, CallsTypeOK
  <2> QED
    BY <2>1, <2>2
<1> QED
  BY <1>3, <1>6, <1>7, <1>8 DEF CallsInv

\* A request of call c takes the menu over.
LEMMA OvertakingKeeps ==
    ASSUME CallsAssumption, CallsInv, NEW c \in Calls, Receive(c), UNCHANGED <<pinHash, held>>,
           typed' \in [Calls -> Seq(Entries)],
           \A d \in Calls : /\ Len(typed[d]) <= Len(typed'[d])
                            /\ \A i \in 1 .. Len(typed[d]) : typed'[d][i] = typed[d][i],
           caller' \in [Calls -> Users \cup {Nobody}], caller'[c] # Nobody,
           \A d \in Calls : d # c \/ phase[c] # "new" => caller'[d] = caller[d],
           phase' \in [Calls -> {"new", "waiting", "asked", "over"}], phase'[c] # "new",
           \A d \in Calls : d # c => phase'[d] = phase[d],
           NEW s \in SessionRows, sessions' = [sessions EXCEPT ![c] = s],
           GoodSession(s, c, caller', typed', held', crossed'),
           running' \in [Handlers -> Handler],
           \A k \in Handlers :
              \/ running'[k] = running[k]
              \/ /\ running'[k] # Free /\ running'[k].call = c
                 /\ GoodWork(running'[k], c, caller', typed', held', crossed')
    PROVE  CallsInv'
<1>1. /\ sessions \in [Calls -> SessionRows] /\ running \in [Handlers -> Handler]
      /\ args' = c /\ crossed' \subseteq Calls /\ crossed \subseteq crossed'
      /\ \A k \in Handlers : running[k] # Free /\ running[k].call # c => c \in crossed'
  BY DEF Receive, CallsInv, CallsTypeOK, SessionRows
<1>2. CallsTypeOK'
  <2>1. sessions' \in [Calls -> SessionRows]
    BY <1>1
  <2>2. \A d \in Calls : phase'[d] # "new" => caller'[d] # Nobody
    BY DEF CallsInv, CallsTypeOK
  <2> QED
    BY <1>1, <2>1, <2>2 DEF CallsInv, CallsTypeOK, SessionRows
<1>3. Grown
  <2>1. \A u \in Users : held[u] \subseteq held'[u]
    OBVIOUS
  <2>2. \A d \in Calls : phase[d] # "new" => caller'[d] = caller[d]
    OBVIOUS
  <2> QED
    BY <1>1, <2>1, <2>2 DEF Grown
<1>4. ASSUME NEW d \in Calls, phase'[d] = "new"
      PROVE  Untouched(d)'
  <2>1. d # c /\ Untouched(d)
    BY <1>4 DEF CallsInv
  <2>2. \A k \in Handlers : running'[k] # Free => running'[k].call # d
    BY <2>1 DEF Untouched
  <2>3. caller'[d] = Nobody /\ sessions'[d] = Blank
    BY <1>1, <2>1 DEF Untouched
  <2> QED
    BY <1>1, <2>1, <2>2, <2>3 DEF Untouched
<1>5. ASSUME NEW d \in Calls
      PROVE  GoodSession(sessions'[d], d, caller', typed', held', crossed')
  <2>1. CASE d = c
    BY <1>1, <2>1
  <2>2. CASE d # c
    <3>1. /\ sessions'[d] = sessions[d] /\ sessions[d] \in SessionRows
          /\ phase[d] # "new" \/ sessions[d] = Blank
          /\ GoodSession(sessions[d], d, caller, typed, held, crossed)
      BY <1>1, <2>2 DEF CallsInv, Untouched
    <3> QED
      BY <1>3, <3>1, SessionStaysGood DEF CallsInv
  <2> QED
    BY <2>1, <2>2
<1>6. ASSUME NEW k \in Handlers, running'[k] = running[k]
      PROVE  GoodWork(running'[k], args', caller', typed', held', crossed')
  <2>1. /\ running[k] \in Handler /\ GoodWork(running[k], args, caller, typed, held, crossed)
        /\ c # Nobody
    BY <1>1, CallsAssumption DEF CallsInv
  <2>2. running[k] # Free => phase[running[k].call] # "new"
    <3>1. running[k] # Free => running[k].call \in Calls
      BY <2>1 DEF Handler, Free
    <3> QED
      BY <3>1 DEF CallsInv, Untouched
  <2> QED
    BY <1>1, <1>3, <1>6, <2>1, <2>2, WorkStaysGood DEF CallsInv
<1>7. \A k \in Handlers : GoodWork(running'[k], args', caller', typed', held', crossed')
  BY <1>1, <1>6
<1>8. \A u \in Users : pinHash'[u] # Nobody => pinHash'[u] \in held'[u]
  BY DEF CallsInv
<1> QED
  BY <1>2, <1>4, <1>5, <1>7, <1>8 DEF CallsInv

-----------------------------------------------------------------------------
(* Requests.                                                               *)

\* An entry is typed, and a PIN typed before has then been typed twice.
LEMMA EntryIsTyped ==
    ASSUME CallsInv, NEW c \in Calls, NEW v \in Entries, NEW at, Posts(c, v, at)
    PROVE  /\ phase[c] = "asked" /\ caller[c] \in Users /\ caller' = caller
           /\ typed' \in [Calls -> Seq(Entries)] /\ Grown
           /\ Occurs(typed'[c], v)
           /\ Occurs(typed[c], v) => OccursTwice(typed'[c], v)
<1>1. /\ phase[c] = "asked" /\ caller[c] \in Users /\ caller' = caller /\ held' = held
      /\ typed' = [typed EXCEPT ![c] = Append(@, v)] /\ typed \in [Calls -> Seq(Entries)]
      /\ crossed \subseteq crossed'
  BY DEF Posts, Receive, CallsInv, CallsTypeOK
<1>2. PICK keys \in Seq(Entries) : keys = typed[c]
  BY <1>1
<1>3. /\ typed'[c] = Append(keys, v) /\ Append(keys, v) \in Seq(Entries)
      /\ Len(Append(keys, v)) = Len(keys) + 1 /\ Len(keys) \in Nat
      /\ \A i \in 1 .. Len(keys) : Append(keys, v)[i] = keys[i]
      /\ Append(keys, v)[Len(keys) + 1] = v
  BY <1>1, <1>2
<1>4. typed' \in [Calls -> Seq(Entries)]
  BY <1>1, <1>3
<1>5. Grown
  <2>1. ASSUME NEW d \in Calls
        PROVE  /\ Len(typed[d]) <= Len(typed'[d])
               /\ \A i \in 1 .. Len(typed[d]) : typed'[d][i] = typed[d][i]
    <3>1. CASE d = c
      BY <1>2, <1>3, <3>1
    <3>2. CASE d # c
      BY <1>1, <3>2
    <3> QED
      BY <3>1, <3>2
  <2> QED
    BY <1>1, <2>1 DEF Grown
<1>6. Occurs(typed'[c], v)
  BY <1>3 DEF Occurs
<1>7. Occurs(typed[c], v) => OccursTwice(typed'[c], v)
  <2> SUFFICES ASSUME NEW i \in 1 .. Len(keys), keys[i] = v
               PROVE  OccursTwice(typed'[c], v)
    BY <1>2 DEF Occurs
  <2>1. /\ i \in 1 .. Len(Append(keys, v)) /\ Len(keys) + 1 \in 1 .. Len(Append(keys, v))
        /\ i < Len(keys) + 1
    BY <1>3
  <2> QED
    BY <1>3, <2>1 DEF OccursTwice
<1> QED
  BY <1>1, <1>4, <1>5, <1>6, <1>7

\* A posted entry leaves the session's users alone and starts at most one handler.
LEMMA PostKeeps ==
    ASSUME CallsAssumption, CallsInv, NEW c \in Calls, NEW v \in Entries, NEW at, Posts(c, v, at),
           NEW s \in SessionRows, sessions' = [sessions EXCEPT ![c] = s],
           s.newPin \in {sessions[c].newPin, Nobody, v},
           s.setupUser = sessions[c].setupUser, s.user = sessions[c].user,
           phase' = phase \/ phase' = [phase EXCEPT ![c] = "waiting"],
           running' \in [Handlers -> Handler],
           \A k \in Handlers :
              \/ running'[k] = running[k]
              \/ /\ running'[k] # Free /\ running'[k].call = c
                 /\ GoodWork(running'[k], c, caller', typed', held', crossed')
    PROVE  CallsInv'
<1>1. /\ phase[c] = "asked" /\ caller[c] \in Users /\ caller' = caller
      /\ typed' \in [Calls -> Seq(Entries)] /\ Grown /\ Occurs(typed'[c], v)
  BY EntryIsTyped
<1>2. UNCHANGED <<pinHash, held>> /\ Receive(c)
  BY DEF Posts
<1>3. /\ caller' \in [Calls -> Users \cup {Nobody}] /\ caller'[c] # Nobody
      /\ phase' \in [Calls -> {"new", "waiting", "asked", "over"}] /\ phase'[c] # "new"
      /\ \A d \in Calls : d # c => phase'[d] = phase[d]
  BY <1>1, CallsAssumption DEF CallsInv, CallsTypeOK
<1>4. GoodSession(s, c, caller', typed', held', crossed')
  <2>1. GoodSession(sessions[c], c, caller', typed', held', crossed')
    <3>1. sessions[c] \in SessionRows /\ GoodSession(sessions[c], c, caller, typed, held, crossed)
      BY DEF CallsInv, CallsTypeOK, SessionRows
    <3> QED
      BY <1>1, <3>1, SessionStaysGood DEF CallsInv
  <2> QED
    BY <1>1, <2>1 DEF GoodSession
<1> QED
  BY <1>1, <1>2, <1>3, <1>4, OvertakingKeeps DEF Grown

\* The session is as it was, and handler h starts on q.
LEMMA PostAndStart ==
    ASSUME CallsAssumption, CallsInv, NEW c \in Calls, NEW v \in Entries, NEW at, Posts(c, v, at),
           NEW h \in Handlers, NEW q \in Handler, Start(h, q), Waits(c),
           q # Free, q.call = c, GoodWork(q, c, caller', typed', held', crossed')
    PROVE  CallsInv'
<1>1. sessions \in [Calls -> SessionRows] /\ running \in [Handlers -> Handler]
  BY DEF CallsInv, CallsTypeOK, SessionRows
<1>2. /\ sessions[c] \in SessionRows /\ sessions' = [sessions EXCEPT ![c] = sessions[c]]
      /\ phase' = [phase EXCEPT ![c] = "waiting"]
  BY <1>1 DEF Waits
<1>3. /\ running' \in [Handlers -> Handler]
      /\ \A k \in Handlers : running'[k] = running[k] \/ running'[k] = q
  BY <1>1 DEF Start
<1> QED
  BY <1>2, <1>3, PostKeeps

LEMMA DialKeepsCalls ==
    ASSUME CallsAssumption, CallsInv, NEW h \in Handlers, NEW c \in Calls, NEW u \in Users,
           DialIn(h, c, u)
    PROVE  CallsInv'
<1> DEFINE q == [op |-> "start", call |-> c, user |-> u]
<1>1. /\ phase[c] = "new" /\ sessions[c] = Blank
      /\ caller' = [caller EXCEPT ![c] = u] /\ Receive(c) /\ Start(h, q)
      /\ phase' = [phase EXCEPT ![c] = "waiting"] /\ sessions' = sessions
      /\ UNCHANGED <<pinHash, held, typed>>
  BY DEF DialIn, Waits, CallsInv, Untouched
<1>2. q \in Handler /\ q # Free /\ q.call = c /\ q.op = "start" /\ q.user = u
  BY DEF Handler, Free
<1>3. GoodWork(q, c, caller', typed', held', crossed')
  BY <1>1, <1>2, CallsAssumption DEF GoodWork, CallsInv, CallsTypeOK
<1> HIDE DEF q
<1>4. /\ sessions \in [Calls -> SessionRows] /\ running \in [Handlers -> Handler]
      /\ caller \in [Calls -> Users \cup {Nobody}] /\ u # Nobody
      /\ typed \in [Calls -> Seq(Entries)]
  BY CallsAssumption DEF CallsInv, CallsTypeOK, SessionRows
<1>5. /\ sessions[c] \in SessionRows /\ sessions' = [sessions EXCEPT ![c] = sessions[c]]
      /\ GoodSession(sessions[c], c, caller', typed', held', crossed')
  <2>1. Blank.newPin = Nobody /\ Blank.setupUser = Nobody /\ Blank.user = Nobody
    BY DEF Blank
  <2>2. GoodSession(Blank, c, caller', typed', held', crossed')
    BY <2>1 DEF GoodSession
  <2>3. sessions = [sessions EXCEPT ![c] = sessions[c]]
    BY <1>4
  <2> QED
    BY <1>1, <1>4, <2>2, <2>3
<1>6. /\ running' \in [Handlers -> Handler]
      /\ \A k \in Handlers : running'[k] = running[k] \/ running'[k] = q
  BY <1>1, <1>2, <1>4 DEF Start
<1>7. /\ phase' \in [Calls -> {"new", "waiting", "asked", "over"}] /\ phase'[c] # "new"
      /\ \A d \in Calls : d # c => phase'[d] = phase[d]
  BY <1>1 DEF CallsInv, CallsTypeOK
<1>8. \A d \in Calls : Len(typed[d]) <= Len(typed'[d])
  <2>1. \A d \in Calls : Len(typed[d]) \in Nat
    BY <1>4
  <2> QED
    BY <1>1, <2>1
<1>9. /\ caller' \in [Calls -> Users \cup {Nobody}] /\ caller'[c] # Nobody
      /\ \A d \in Calls : d # c \/ phase[c] # "new" => caller'[d] = caller[d]
  BY <1>1, <1>4
<1>10. \A k \in Handlers :
          \/ running'[k] = running[k]
          \/ /\ running'[k] # Free /\ running'[k].call = c
             /\ GoodWork(running'[k], c, caller', typed', held', crossed')
  BY <1>2, <1>3, <1>6
<1>11. \A d \in Calls : /\ Len(typed[d]) <= Len(typed'[d])
                        /\ \A i \in 1 .. Len(typed[d]) : typed'[d][i] = typed[d][i]
  BY <1>1, <1>8
<1>12. typed' \in [Calls -> Seq(Entries)] /\ UNCHANGED <<pinHash, held>> /\ Receive(c)
  BY <1>1, <1>4
<1>13. running' \in [Handlers -> Handler]
  BY <1>6
<1> QED
  BY <1>5, <1>7, <1>9, <1>10, <1>11, <1>12, <1>13, OvertakingKeeps

LEMMA RequestOfKeeps ==
    ASSUME CallsAssumption, CallsInv, NEW c \in Calls, RequestOf(c)
    PROVE  CallsInv'
<1>0. /\ sessions \in [Calls -> SessionRows] /\ running \in [Handlers -> Handler]
      /\ sessions[c] \in SessionRows /\ c # Nobody
      /\ GoodSession(sessions[c], c, caller, typed, held, crossed)
  BY CallsAssumption DEF CallsInv, CallsTypeOK, SessionRows
<1>1. ASSUME NEW h \in Handlers, NEW u \in Users, DialIn(h, c, u)
      PROVE  CallsInv'
  BY <1>1, DialKeepsCalls
<1>2. ASSUME NEW v \in Entries, NEW at, NEW h \in Handlers, Posts(c, v, at), Waits(c),
             Start(h, [op |-> "start", call |-> c, user |-> caller[c]])
      PROVE  CallsInv'
  <2> DEFINE q == [op |-> "start", call |-> c, user |-> caller[c]]
  <2>1. caller[c] \in Users /\ caller' = caller
    BY <1>2, EntryIsTyped
  <2>2. q \in Handler /\ q # Free /\ q.call = c /\ q.op = "start" /\ q.user = caller[c]
    BY <2>1 DEF Handler, Free
  <2>3. Start(h, q)
    BY <1>2
  <2> HIDE DEF q
  <2>4. GoodWork(q, c, caller', typed', held', crossed')
    BY <1>0, <2>1, <2>2 DEF GoodWork
  <2> QED
    BY <1>2, <2>2, <2>3, <2>4, PostAndStart
<1>3. ASSUME NEW v \in Entries, NEW h \in Handlers, EnterPin(h, c, v)
      PROVE  CallsInv'
  <2> DEFINE q == [op |-> "find", call |-> c, user |-> caller[c], pin |-> v]
  <2>1. Posts(c, v, "verifyPin") /\ Start(h, q) /\ Waits(c)
    BY <1>3 DEF EnterPin
  <2>2. caller[c] \in Users /\ caller' = caller /\ Occurs(typed'[c], v)
    BY <2>1, EntryIsTyped
  <2>3. /\ q \in Handler /\ q # Free /\ q.call = c /\ q.op = "find" /\ q.user = caller[c]
        /\ q.pin = v
    BY <2>2 DEF Handler, Free
  <2> HIDE DEF q
  <2>4. GoodWork(q, c, caller', typed', held', crossed')
    BY <1>0, <2>2, <2>3 DEF GoodWork
  <2> QED
    BY <2>1, <2>3, <2>4, PostAndStart
<1>4. ASSUME NEW v \in Entries, EnterNewPin(c, v)
      PROVE  CallsInv'
  <2>1. /\ Posts(c, v, "capture") /\ phase' = phase /\ running' = running
        /\ sessions' = IF v \in Numbers
                       THEN [sessions EXCEPT ![c].newPin = v, ![c].pinValid = TRUE]
                       ELSE [sessions EXCEPT ![c].pinValid = FALSE]
    BY <1>4 DEF EnterNewPin
  <2> DEFINE r == IF v \in Numbers
                  THEN [sessions[c] EXCEPT !.newPin = v, !.pinValid = TRUE]
                  ELSE [sessions[c] EXCEPT !.pinValid = FALSE]
  <2>2. sessions' = [sessions EXCEPT ![c] = r]
    BY <2>1
  <2>3. /\ r \in SessionRows /\ r.newPin \in {sessions[c].newPin, v}
        /\ r.setupUser = sessions[c].setupUser /\ r.user = sessions[c].user
    <3>1. CASE v \in Numbers
      BY <1>0, <3>1 DEF SessionRows
    <3>2. CASE v \notin Numbers
      BY <1>0, <3>2 DEF SessionRows
    <3> QED
      BY <3>1, <3>2
  <2> HIDE DEF r
  <2>4. /\ running' \in [Handlers -> Handler] /\ \A k \in Handlers : running'[k] = running[k]
        /\ phase' = phase /\ r.newPin \in {sessions[c].newPin, Nobody, v}
    BY <1>0, <2>1, <2>3
  <2> QED
    BY <2>1, <2>2, <2>3, <2>4, PostKeeps
<1>5. ASSUME NEW v \in Entries, NEW h \in Handlers, RefuseNewPin(h, c, v)
      PROVE  CallsInv'
  <2>1. CASE Nobody \in {sessions[c].newPin, sessions[c].setupUser}
    BY <1>2, <1>5, <2>1 DEF RefuseNewPin
  <2>2. CASE Nobody \notin {sessions[c].newPin, sessions[c].setupUser}
    <3>1. /\ Posts(c, v, "confirm") /\ phase' = phase /\ running' = running
          /\ sessions' = [sessions EXCEPT ![c] =
                [@ EXCEPT !.newPin = Nobody, !.pinValid = FALSE, !.verified = FALSE]]
      BY <1>5, <2>2 DEF RefuseNewPin
    <3> DEFINE e == [sessions[c] EXCEPT !.newPin = Nobody, !.pinValid = FALSE]
               r == [e EXCEPT !.verified = FALSE]
    <3>2. e \in SessionRows /\ e.newPin = Nobody
          /\ e.setupUser = sessions[c].setupUser /\ e.user = sessions[c].user
      BY <1>0 DEF SessionRows
    <3>3. [e EXCEPT !.verified = FALSE] =
             [sessions[c] EXCEPT !.newPin = Nobody, !.pinValid = FALSE, !.verified = FALSE]
      BY <1>0 DEF SessionRows
    <3>4. sessions' = [sessions EXCEPT ![c] = r]
      BY <3>1, <3>3
    <3> HIDE DEF e
    <3>5. /\ r \in SessionRows /\ r.newPin = Nobody
          /\ r.setupUser = sessions[c].setupUser /\ r.user = sessions[c].user
      BY <3>2 DEF SessionRows
    <3> HIDE DEF r
    <3>6. /\ running' \in [Handlers -> Handler] /\ \A k \in Handlers : running'[k] = running[k]
          /\ phase' = phase /\ r.newPin \in {sessions[c].newPin, Nobody, v}
      BY <1>0, <3>1, <3>5
    <3> QED
      BY <3>1, <3>4, <3>5, <3>6, PostKeeps
  <2> QED
    BY <2>1, <2>2
<1>6. ASSUME NEW v \in Entries, NEW h \in Handlers, ConfirmPin(h, c, v)
      PROVE  CallsInv'
  <2> DEFINE q == [op |-> "store", call |-> c, user |-> sessions[c].setupUser, pin |-> v]
  <2>1. /\ Posts(c, v, "confirm") /\ Start(h, q) /\ Waits(c)
        /\ sessions[c].newPin = v /\ sessions[c].setupUser # Nobody
    BY <1>6 DEF ConfirmPin
  <2>2. v # Nobody /\ v \in Numbers /\ sessions[c].setupUser \in Users
    BY <1>0, <2>1, CallsAssumption DEF SessionRows
  <2>3. /\ caller' = caller
        /\ Occurs(typed[c], v) => OccursTwice(typed'[c], v)
        /\ crossed \subseteq crossed'
    BY <2>1, EntryIsTyped DEF Grown
  <2>4. /\ Occurs(typed[c], v)
        /\ c \notin crossed => sessions[c].setupUser = caller[c]
    BY <1>0, <2>1, <2>2 DEF GoodSession
  <2>5. /\ q \in Handler /\ q # Free /\ q.call = c /\ q.op = "store"
        /\ q.user = sessions[c].setupUser /\ q.pin = v
    BY <2>2 DEF Handler, Free
  <2> HIDE DEF q
  <2>6. OccursTwice(typed'[c], v) /\ (c \notin crossed' => q.user = caller'[c])
    BY <2>3, <2>4, <2>5
  <2>7. q.op \notin {"start", "find", "compare", "login"}
    BY <2>5
  <2>8. GoodWork(q, c, caller', typed', held', crossed')
    BY <1>0, <2>5, <2>6, <2>7 DEF GoodWork
  <2> QED
    BY <2>1, <2>5, <2>8, PostAndStart
<1>7. ASSUME NEW v \in Entries, NEW h \in Handlers, OpenMenu(h, c, v)
      PROVE  CallsInv'
  <2> DEFINE q == [op |-> "menu", call |-> c]
  <2>1. Posts(c, v, "menu") /\ Waits(c)
    BY <1>7 DEF OpenMenu
  <2>2. CASE Start(h, q)
    <3>1. q \in Handler /\ q # Free /\ q.call = c /\ q.op = "menu"
      BY DEF Handler, Free
    <3>2. Start(h, q)
      BY <2>2
    <3> HIDE DEF q
    <3>3. GoodWork(q, c, caller', typed', held', crossed')
      BY <1>0, <3>1 DEF GoodWork
    <3> QED
      BY <2>1, <3>1, <3>2, <3>3, PostAndStart
  <2>3. CASE Start(h, [op |-> "start", call |-> c, user |-> caller[c]])
    BY <1>2, <2>1, <2>3
  <2> QED
    BY <1>7, <2>2, <2>3 DEF OpenMenu
<1> QED
  BY <1>1, <1>3, <1>4, <1>5, <1>6, <1>7 DEF RequestOf


-----------------------------------------------------------------------------
(* Handlers that go on.                                                    *)

\* The menu belongs to some call while a handler waits, and its session is good.
LEMMA MenuIsTaken ==
    ASSUME CallsInv, NEW h \in Handlers, running[h] # Free
    PROVE  /\ args \in Calls /\ phase[args] # "new"
           /\ sessions[args] \in SessionRows
           /\ GoodSession(sessions[args], args, caller, typed, held, crossed)
           /\ running[h] \in Handler /\ running[h].call \in Calls
           /\ GoodWork(running[h], args, caller, typed, held, crossed)
<1>1. args \in Calls /\ GoodWork(running[h], args, caller, typed, held, crossed)
  BY DEF CallsInv, CallsTypeOK, GoodWork
<1>2. phase[args] # "new"
  BY <1>1 DEF CallsInv, Untouched
<1>3. running[h] \in Handler
  BY DEF CallsInv, CallsTypeOK
<1>4. running[h].call \in Calls
  BY <1>3 DEF Handler, Free
<1>5. sessions[args] \in SessionRows
  BY <1>1 DEF CallsInv, CallsTypeOK, SessionRows
<1> QED
  BY <1>1, <1>2, <1>3, <1>4, <1>5 DEF CallsInv

\* An answer does not undo the dialling.
LEMMA AnswerKeeps ==
    ASSUME CallsInv, NEW next \in {"asked", "over"}, Answer(next), args \in Calls
    PROVE  /\ phase' \in [Calls -> {"new", "waiting", "asked", "over"}]
           /\ \A c \in Calls : phase'[c] = "new" <=> phase[c] = "new"
<1>1. phase \in [Calls -> {"new", "waiting", "asked", "over"}]
  BY DEF CallsInv, CallsTypeOK
<1>2. CASE phase[args] = "waiting"
  <2>1. phase' = [phase EXCEPT ![args] = next]
    BY <1>2 DEF Answer
  <2>2. phase' \in [Calls -> {"new", "waiting", "asked", "over"}]
    BY <1>1, <2>1
  <2>3. \A c \in Calls : phase'[c] = "new" <=> phase[c] = "new"
    BY <1>1, <1>2, <2>1
  <2> QED
    BY <2>2, <2>3
<1>3. CASE phase[args] # "waiting"
  BY <1>1, <1>3 DEF Answer
<1> QED
  BY <1>2, <1>3

\* The handler answers with session s and is done.
LEMMA AnswerEnds ==
    ASSUME CallsInv, NEW h \in Handlers, running[h] # Free, Same,
           NEW s \in SessionRows, Writes(s), NEW next \in {"asked", "over"}, Answer(next), Done(h),
           UNCHANGED <<pinHash, held>>,
           GoodSession(s, args, caller, typed, held, crossed)
    PROVE  CallsInv'
<1>1. args \in Calls
  BY MenuIsTaken
<1>2. /\ phase' \in [Calls -> {"new", "waiting", "asked", "over"}]
      /\ \A c \in Calls : phase'[c] = "new" <=> phase[c] = "new"
  BY <1>1, AnswerKeeps
<1>3. Free \in Handler /\ running' = [running EXCEPT ![h] = Free]
  BY DEF Handler, Free, Done
<1>4. /\ pinHash' \in [Users -> Numbers \cup {Nobody}] /\ held' \in [Users -> SUBSET Numbers]
      /\ \A u \in Users : held[u] \subseteq held'[u]
      /\ \A u \in Users : pinHash'[u] # Nobody => pinHash'[u] \in held'[u]
  BY DEF CallsInv, CallsTypeOK
<1>5. GoodWork(Free, args, caller, typed, held', crossed)
  BY DEF GoodWork
<1>6. GoodSession(s, args, caller, typed, held', crossed)
  OBVIOUS
<1> QED
  BY <1>2, <1>3, <1>4, <1>5, <1>6, HandlerKeeps

LEMMA ClosesKeeps ==
    ASSUME CallsInv, NEW h \in Handlers, running[h] # Free, Same, Closes(h),
           UNCHANGED <<pinHash, held>>
    PROVE  CallsInv'
<1>1. Blank \in SessionRows
  BY DEF SessionRows, Blank
<1>2. GoodSession(Blank, args, caller, typed, held, crossed)
  BY DEF GoodSession, Blank
<1>3. Writes(Blank) /\ Answer("over") /\ Done(h)
  BY DEF Closes
<1> QED
  BY <1>1, <1>2, <1>3, AnswerEnds

LEMMA FindPhoneKeeps ==
    ASSUME CallsInv, NEW h \in Handlers, FindPhone(h)
    PROVE  CallsInv'
<1> DEFINE u == running[h].user
           t == IF pinHash[u] = Nobody
                THEN [sessions[args] EXCEPT !.setup = TRUE, !.setupUser = u, !.attempts = 0]
                ELSE [sessions[args] EXCEPT !.setup = FALSE]
<1>1. running[h] # Free /\ running[h].op = "start"
  BY DEF FindPhone, Resumes, Free
<1>2. Writes(t) /\ Answer("asked") /\ Done(h) /\ Same /\ UNCHANGED <<pinHash, held>>
  BY DEF FindPhone, Shows
<1>3. /\ sessions[args] \in SessionRows
      /\ GoodSession(sessions[args], args, caller, typed, held, crossed)
      /\ u \in Users
      /\ args \notin crossed => u = caller[args]
  <2>1. u \in Users
    BY <1>1, MenuIsTaken DEF Handler
  <2> QED
    BY <1>1, <2>1, MenuIsTaken DEF GoodWork
<1>4. t \in SessionRows /\ t.newPin = sessions[args].newPin /\ t.user = sessions[args].user
      /\ t.setupUser \in {u, sessions[args].setupUser}
  <2>1. CASE pinHash[u] = Nobody
    <3>1. 0 \in 0 .. 2
      OBVIOUS
    <3> QED
      BY <1>3, <2>1, <3>1 DEF SessionRows
  <2>2. CASE pinHash[u] # Nobody
    BY <1>3, <2>2 DEF SessionRows
  <2> QED
    BY <2>1, <2>2
<1> HIDE DEF t
<1>5. GoodSession(t, args, caller, typed, held, crossed)
  BY <1>3, <1>4 DEF GoodSession
<1> QED
  BY <1>1, <1>2, <1>4, <1>5, AnswerEnds

LEMMA FindUserKeeps ==
    ASSUME CallsAssumption, CallsInv, NEW h \in Handlers, FindUser(h)
    PROVE  CallsInv'
<1> DEFINE w == running[h]
           q == [op |-> "compare", call |-> w.call, user |-> w.user,
                 attempts |-> sessions[args].attempts, valid |-> w.pin = pinHash[w.user]]
<1>1. w # Free /\ w.op = "find"
  BY DEF FindUser, Resumes, Free
<1>2. /\ running' = [running EXCEPT ![h] = q] /\ Same /\ UNCHANGED <<pinHash, held, phase, sessions>>
  BY DEF FindUser
<1>3. /\ args \in Calls /\ sessions[args] \in SessionRows
      /\ GoodSession(sessions[args], args, caller, typed, held, crossed)
      /\ w \in Handler /\ w.call \in Calls
      /\ GoodWork(w, args, caller, typed, held, crossed)
  BY <1>1, MenuIsTaken
<1>4. w.user \in Users /\ w.pin \in Entries
  BY <1>1, <1>3 DEF Handler
<1>5. /\ q \in Handler /\ q # Free /\ q.call = w.call /\ q.user = w.user /\ q.op = "compare"
      /\ q.valid <=> w.pin = pinHash[w.user]
  <2>1. sessions[args].attempts \in 0 .. 2 /\ (w.pin = pinHash[w.user]) \in BOOLEAN
    BY <1>3 DEF SessionRows
  <2>2. q \in [op : {"compare"}, call : Calls, user : Users, attempts : 0 .. 2, valid : BOOLEAN]
    BY <1>3, <1>4, <2>1
  <2> QED
    BY <2>2 DEF Handler, Free
<1>6. GoodWork(q, args, caller, typed, held, crossed)
  <2>1. q.valid => HasTyped(w.user, w.call, typed, held)
    <3>1. w.pin = pinHash[w.user] => w.pin \in held[w.user]
      BY <1>4, CallsAssumption DEF CallsInv
    <3>2. Occurs(typed[w.call], w.pin)
      BY <1>1, <1>3 DEF GoodWork
    <3> QED
      BY <1>5, <3>1, <3>2 DEF HasTyped
  <2>2. /\ args # Nobody /\ (args # w.call => args \in crossed)
        /\ w.user = caller[w.call]
    BY <1>1, <1>3 DEF GoodWork
  <2>3. q.op = "compare" /\ q.call = w.call /\ q.user = w.user
    BY <1>5
  <2> HIDE DEF q, w
  <2> QED
    BY <2>1, <2>2, <2>3 DEF GoodWork
<1> HIDE DEF q, w
<1>7. Writes(sessions[args])
  <2>1. sessions \in [Calls -> SessionRows]
    BY DEF CallsInv, CallsTypeOK, SessionRows
  <2> QED
    BY <1>2, <1>3, <2>1 DEF Writes
<1>8. /\ phase' \in [Calls -> {"new", "waiting", "asked", "over"}]
      /\ \A c \in Calls : phase'[c] = "new" <=> phase[c] = "new"
      /\ pinHash' \in [Users -> Numbers \cup {Nobody}] /\ held' \in [Users -> SUBSET Numbers]
      /\ \A u \in Users : held[u] \subseteq held'[u]
      /\ \A u \in Users : pinHash'[u] # Nobody => pinHash'[u] \in held'[u]
  BY <1>2 DEF CallsInv, CallsTypeOK
<1>9. /\ GoodSession(sessions[args], args, caller, typed, held', crossed)
      /\ GoodWork(q, args, caller, typed, held', crossed)
  BY <1>2, <1>3, <1>6
<1>10. running[h] # Free /\ q.call = running[h].call
  BY <1>1, <1>5 DEF w
<1> QED
  BY <1>2, <1>3, <1>5, <1>7, <1>8, <1>9, <1>10, HandlerKeeps

LEMMA ComparedTrueKeeps ==
    ASSUME CallsInv, NEW h \in Handlers, ComparedTrue(h)
    PROVE  CallsInv'
<1> DEFINE w == running[h]
           q == [op |-> "login", call |-> w.call, user |-> w.user]
           t == [sessions[args] EXCEPT !.attempts = 0, !.verified = TRUE]
<1>1. w # Free /\ w.op = "compare" /\ w.valid
  BY DEF ComparedTrue, Resumes, Free
<1>2. /\ running' = [running EXCEPT ![h] = q] /\ Writes(t) /\ Same
      /\ UNCHANGED <<pinHash, held, phase>>
  BY DEF ComparedTrue
<1>3. /\ args \in Calls /\ sessions[args] \in SessionRows
      /\ GoodSession(sessions[args], args, caller, typed, held, crossed)
      /\ w \in Handler /\ w.call \in Calls
      /\ GoodWork(w, args, caller, typed, held, crossed)
  BY <1>1, MenuIsTaken
<1>4. w.user \in Users
  BY <1>1, <1>3 DEF Handler
<1>5. q \in Handler /\ q # Free /\ q.call = w.call /\ q.user = w.user /\ q.op = "login"
  BY <1>3, <1>4 DEF Handler, Free
<1>6. /\ args # Nobody /\ (args # w.call => args \in crossed) /\ w.user = caller[w.call]
      /\ HasTyped(w.user, w.call, typed, held)
  BY <1>1, <1>3 DEF GoodWork
<1>7. /\ t \in SessionRows /\ t.newPin = sessions[args].newPin
      /\ t.user = sessions[args].user /\ t.setupUser = sessions[args].setupUser
  <2>1. 0 \in 0 .. 2
    OBVIOUS
  <2> QED
    BY <1>3, <2>1 DEF SessionRows
<1>8. running[h] # Free /\ q.call = running[h].call
  BY <1>1, <1>5
<1> HIDE DEF q, t, w
<1>9. GoodWork(q, args, caller, typed, held, crossed)
  BY <1>5, <1>6 DEF GoodWork
<1>10. GoodSession(t, args, caller, typed, held, crossed)
  BY <1>3, <1>7 DEF GoodSession
<1>11. /\ phase' \in [Calls -> {"new", "waiting", "asked", "over"}]
       /\ \A c \in Calls : phase'[c] = "new" <=> phase[c] = "new"
       /\ pinHash' \in [Users -> Numbers \cup {Nobody}] /\ held' \in [Users -> SUBSET Numbers]
       /\ \A u \in Users : held[u] \subseteq held'[u]
       /\ \A u \in Users : pinHash'[u] # Nobody => pinHash'[u] \in held'[u]
  BY <1>2 DEF CallsInv, CallsTypeOK
<1>12. /\ GoodSession(t, args, caller, typed, held', crossed)
       /\ GoodWork(q, args, caller, typed, held', crossed)
  BY <1>2, <1>9, <1>10
<1> QED
  BY <1>2, <1>5, <1>7, <1>8, <1>11, <1>12, HandlerKeeps

LEMMA ComparedFalseKeeps ==
    ASSUME CallsInv, NEW h \in Handlers, ComparedFalse(h)
    PROVE  CallsInv'
<1>1. running[h] # Free /\ running[h].op = "compare"
  BY DEF ComparedFalse, Resumes, Free
<1>2. Same /\ UNCHANGED <<pinHash, held>>
  BY DEF ComparedFalse
<1>3. CASE running[h].attempts + 1 >= 3
  BY <1>1, <1>2, <1>3, ClosesKeeps DEF ComparedFalse
<1>4. CASE ~(running[h].attempts + 1 >= 3)
  <2> DEFINE t == [sessions[args] EXCEPT !.attempts = running[h].attempts + 1, !.verified = FALSE]
  <2>1. Writes(t) /\ Answer("asked") /\ Done(h)
    BY <1>4 DEF ComparedFalse, Shows
  <2>2. /\ sessions[args] \in SessionRows
        /\ GoodSession(sessions[args], args, caller, typed, held, crossed)
        /\ running[h] \in Handler
    BY <1>1, MenuIsTaken
  <2>3. running[h].attempts + 1 \in 0 .. 2
    <3>1. running[h].attempts \in 0 .. 2
      BY <1>1, <2>2 DEF Handler
    <3> QED
      BY <1>4, <3>1
  <2>4. /\ t \in SessionRows /\ t.newPin = sessions[args].newPin
        /\ t.user = sessions[args].user /\ t.setupUser = sessions[args].setupUser
    BY <2>2, <2>3 DEF SessionRows
  <2> HIDE DEF t
  <2>5. GoodSession(t, args, caller, typed, held, crossed)
    BY <2>2, <2>4 DEF GoodSession
  <2> QED
    BY <1>1, <1>2, <2>1, <2>4, <2>5, AnswerEnds
<1> QED
  BY <1>3, <1>4

LEMMA LoggedInKeeps ==
    ASSUME CallsInv, NEW h \in Handlers, LoggedIn(h)
    PROVE  CallsInv'
<1> DEFINE w == running[h]
           t == [sessions[args] EXCEPT !.user = w.user]
<1>1. w # Free /\ w.op = "login"
  BY DEF LoggedIn, Resumes, Free
<1>2. Writes(t) /\ Answer("asked") /\ Done(h) /\ Same /\ UNCHANGED <<pinHash, held>>
  BY DEF LoggedIn, Shows
<1>3. /\ args \in Calls /\ sessions[args] \in SessionRows
      /\ GoodSession(sessions[args], args, caller, typed, held, crossed)
      /\ w \in Handler /\ w.call \in Calls
      /\ GoodWork(w, args, caller, typed, held, crossed)
  BY <1>1, MenuIsTaken
<1>4. w.user \in Users
  BY <1>1, <1>3 DEF Handler
<1>5. /\ t \in SessionRows /\ t.newPin = sessions[args].newPin
      /\ t.user = w.user /\ t.setupUser = sessions[args].setupUser
  BY <1>3, <1>4 DEF SessionRows
<1>6. MayKnow(w.user, args, caller, typed, held, crossed)
  <2>1. /\ args # w.call => args \in crossed
        /\ w.user = caller[w.call] /\ HasTyped(w.user, w.call, typed, held)
    BY <1>1, <1>3 DEF GoodWork
  <2> HIDE DEF w
  <2> QED
    BY <1>3, <2>1 DEF MayKnow
<1>7. running[h] # Free
  BY <1>1
<1> HIDE DEF t, w
<1>8. GoodSession(t, args, caller, typed, held, crossed)
  BY <1>3, <1>5, <1>6 DEF GoodSession
<1> QED
  BY <1>2, <1>5, <1>7, <1>8, AnswerEnds

LEMMA StorePinKeeps ==
    ASSUME CallsInv, NEW h \in Handlers, StorePin(h)
    PROVE  CallsInv'
<1> DEFINE w == running[h]
           t == [sessions[args] EXCEPT !.newPin = Nobody, !.pinValid = FALSE,
                                       !.setup = FALSE, !.verified = TRUE, !.user = w.user]
<1>1. w # Free /\ w.op = "store"
  BY DEF StorePin, Resumes, Free
<1>2. /\ pinHash' = [pinHash EXCEPT ![w.user] = w.pin]
      /\ held' = [held EXCEPT ![w.user] = @ \cup {w.pin}]
      /\ Writes(t) /\ Answer("asked") /\ Done(h) /\ Same
  BY DEF StorePin, Shows
<1>3. /\ args \in Calls /\ sessions[args] \in SessionRows
      /\ GoodSession(sessions[args], args, caller, typed, held, crossed)
      /\ w \in Handler /\ w.call \in Calls
      /\ GoodWork(w, args, caller, typed, held, crossed)
  BY <1>1, MenuIsTaken
<1>4. w.user \in Users /\ w.pin \in Numbers
  BY <1>1, <1>3 DEF Handler
<1>5. /\ t \in SessionRows /\ t.newPin = Nobody
      /\ t.user = w.user /\ t.setupUser = sessions[args].setupUser
  BY <1>3, <1>4 DEF SessionRows
<1>6. /\ pinHash' \in [Users -> Numbers \cup {Nobody}] /\ held' \in [Users -> SUBSET Numbers]
      /\ \A u \in Users : held[u] \subseteq held'[u]
      /\ \A u \in Users : pinHash'[u] # Nobody => pinHash'[u] \in held'[u]
      /\ w.pin \in held'[w.user]
  <2> HIDE DEF w
  <2>1. pinHash \in [Users -> Numbers \cup {Nobody}] /\ held \in [Users -> SUBSET Numbers]
    BY DEF CallsInv, CallsTypeOK
  <2>2. \A u \in Users : pinHash[u] # Nobody => pinHash[u] \in held[u]
    BY DEF CallsInv
  <2>3. \A u \in Users :
           /\ held'[u] = IF u = w.user THEN held[u] \cup {w.pin} ELSE held[u]
           /\ pinHash'[u] = IF u = w.user THEN w.pin ELSE pinHash[u]
    BY <1>2, <2>1
  <2>4. pinHash' \in [Users -> Numbers \cup {Nobody}] /\ held' \in [Users -> SUBSET Numbers]
    BY <1>2, <1>4, <2>1
  <2> QED
    BY <1>4, <2>2, <2>3, <2>4
<1>7. MayKnow(w.user, args, caller, typed, held', crossed)
  <2>1. /\ args # w.call => args \in crossed
        /\ OccursTwice(typed[w.call], w.pin)
        /\ w.call \notin crossed => w.user = caller[w.call]
    BY <1>1, <1>3 DEF GoodWork
  <2> HIDE DEF w
  <2>2. HasTyped(w.user, w.call, typed, held')
    BY <1>6, <2>1 DEF HasTyped, Occurs, OccursTwice
  <2> QED
    BY <1>3, <2>1, <2>2 DEF MayKnow
<1>8. running[h] # Free
  BY <1>1
<1> HIDE DEF t, w
<1>9. GoodSession(t, args, caller, typed, held', crossed)
  BY <1>3, <1>5, <1>7 DEF GoodSession
<1>10. /\ phase' \in [Calls -> {"new", "waiting", "asked", "over"}]
       /\ \A c \in Calls : phase'[c] = "new" <=> phase[c] = "new"
  BY <1>2, <1>3, AnswerKeeps
<1>11. Free \in Handler /\ running' = [running EXCEPT ![h] = Free]
  BY <1>2 DEF Handler, Free, Done
<1>12. GoodWork(Free, args, caller, typed, held', crossed)
  BY DEF GoodWork
<1> QED
  BY <1>2, <1>5, <1>6, <1>8, <1>9, <1>10, <1>11, <1>12, HandlerKeeps

LEMMA ShowMenuKeeps ==
    ASSUME CallsInv, NEW h \in Handlers, ShowMenu(h)
    PROVE  CallsInv'
<1>1. running[h] # Free /\ Same /\ UNCHANGED <<pinHash, held>>
  BY DEF ShowMenu, Resumes, Free
<1>2. CASE Closes(h)
  BY <1>1, <1>2, ClosesKeeps
<1>3. CASE Shows(h, sessions[args])
  <2>1. Writes(sessions[args]) /\ Answer("asked") /\ Done(h)
    BY <1>3 DEF Shows
  <2> QED
    BY <1>1, <2>1, MenuIsTaken, AnswerEnds
<1> QED
  BY <1>2, <1>3 DEF ShowMenu

\* The callers' and the server's own ways out.
LEMMA GiveUpAndRestartKeep ==
    ASSUME CallsAssumption, CallsInv, (\E c \in Calls : GiveUp(c)) \/ ProcessRestart
    PROVE  CallsInv'
<1>1. CASE \E c \in Calls : GiveUp(c)
  <2>1. PICK c \in Calls : GiveUp(c)
    BY <1>1
  <2>2. /\ phase' \in [Calls -> {"new", "waiting", "asked", "over"}]
        /\ \A d \in Calls : phase'[d] = "new" <=> phase[d] = "new"
        /\ UNCHANGED <<pinHash, held, caller, typed, sessions, args, running, crossed>>
    BY <2>1 DEF GiveUp, CallsInv, CallsTypeOK
  <2>3. CallsTypeOK'
    BY <2>2 DEF CallsInv, CallsTypeOK
  <2>4. \A d \in Calls : phase'[d] = "new" => Untouched(d)'
    BY <2>2 DEF CallsInv, Untouched
  <2> QED
    BY <2>2, <2>3, <2>4 DEF CallsInv
<1>2. CASE ProcessRestart
  <2>1. /\ UNCHANGED <<pinHash, held, caller, typed, phase, crossed>> /\ args' = Nobody
        /\ sessions' = [c \in Calls |-> Blank] /\ running' = [h \in Handlers |-> Free]
    BY <1>2 DEF ProcessRestart
  <2>2. Blank \in SessionRows /\ Free \in Handler
    BY DEF SessionRows, Blank, Handler, Free
  <2>3. CallsTypeOK'
    <3>1. sessions' \in [Calls -> SessionRows] /\ running' \in [Handlers -> Handler]
      BY <2>1, <2>2
    <3> QED
      BY <2>1, <3>1 DEF CallsInv, CallsTypeOK, SessionRows
  <2>4. ASSUME NEW d \in Calls, phase'[d] = "new"
        PROVE  Untouched(d)'
    <3>1. caller[d] = Nobody /\ d # Nobody
      BY <2>1, <2>4, CallsAssumption DEF CallsInv, Untouched
    <3> QED
      BY <2>1, <3>1 DEF Untouched
  <2>5. \A d \in Calls : GoodSession(sessions'[d], d, caller', typed', held', crossed')
    BY <2>1 DEF GoodSession, Blank
  <2>6. \A h \in Handlers : GoodWork(running'[h], args', caller', typed', held', crossed')
    BY <2>1 DEF GoodWork
  <2>7. \A u \in Users : pinHash'[u] # Nobody => pinHash'[u] \in held'[u]
    BY <2>1 DEF CallsInv
  <2> QED
    BY <2>3, <2>4, <2>5, <2>6, <2>7 DEF CallsInv
<1> QED
  BY <1>1, <1>2

LEMMA CallsStart == CallsAssumption /\ CallsInit => CallsInv
<1> SUFFICES ASSUME CallsAssumption, CallsInit
             PROVE  CallsInv
  OBVIOUS
<1>1. Blank \in SessionRows /\ Free \in Handler
  BY DEF SessionRows, Blank, Handler, Free
<1>2. /\ pinHash \in [Users -> Numbers \cup {Nobody}]
      /\ held = [u \in Users |-> {pinHash[u]} \ {Nobody}]
  BY DEF CallsAssumption, CallsInit
<1>3. CallsTypeOK
  <2>1. sessions \in [Calls -> SessionRows] /\ running \in [Handlers -> Handler]
    BY <1>1 DEF CallsInit
  <2>2. typed \in [Calls -> Seq(Entries)]
    BY DEF CallsInit
  <2>3. held \in [Users -> SUBSET Numbers]
    BY <1>2
  <2> QED
    BY <1>2, <2>1, <2>2, <2>3 DEF CallsInit, CallsTypeOK, SessionRows
<1>4. \A c \in Calls : Untouched(c)
  BY CallsAssumption DEF CallsInit, Untouched
<1>5. \A c \in Calls : GoodSession(sessions[c], c, caller, typed, held, crossed)
  BY DEF CallsInit, GoodSession, Blank
<1>6. \A h \in Handlers : GoodWork(running[h], args, caller, typed, held, crossed)
  BY DEF CallsInit, GoodWork
<1>7. \A u \in Users : pinHash[u] # Nobody => pinHash[u] \in held[u]
  BY <1>2
<1> QED
  BY <1>3, <1>4, <1>5, <1>6, <1>7 DEF CallsInv

LEMMA CallsStep == CallsAssumption /\ CallsInv /\ [CallsNext]_callVars => CallsInv'
<1> SUFFICES ASSUME CallsAssumption, CallsInv, [CallsNext]_callVars
             PROVE  CallsInv'
  OBVIOUS
<1>1. ASSUME NEW c \in Calls, RequestOf(c)
      PROVE  CallsInv'
  BY <1>1, RequestOfKeeps
<1>2. ASSUME NEW h \in Handlers, GoOn(h)
      PROVE  CallsInv'
  BY <1>2, FindPhoneKeeps, FindUserKeeps, ComparedTrueKeeps, ComparedFalseKeeps, LoggedInKeeps,
     StorePinKeeps, ShowMenuKeeps DEF GoOn
<1>3. ASSUME NEW h \in Handlers, Unreachable(h)
      PROVE  CallsInv'
  <2>1. running[h] # Free /\ Same /\ Closes(h) /\ UNCHANGED <<pinHash, held>>
    BY <1>3 DEF Unreachable, Free
  <2> QED
    BY <2>1, ClosesKeeps
<1>4. CASE UNCHANGED callVars
  BY <1>4 DEF callVars, CallsInv, CallsTypeOK, Untouched
<1> QED
  BY <1>1, <1>2, <1>3, <1>4, GiveUpAndRestartKeep DEF CallsNext

LEMMA CallsInductive == CallsSpec => []CallsInv
  BY CallsAssumption, CallsStart, CallsStep, PTL DEF CallsSpec

(***************************************************************************)
(* However many calls overlap, every variable keeps its type, and no       *)
(* session of UssdService counts a third wrong PIN: verifyPin ends it.     *)
(***************************************************************************)
THEOREM CallsTyped == CallsSpec => []CallsTypeOK
<1>1. CallsInv => CallsTypeOK
  BY DEF CallsInv
<1> QED
  BY <1>1, CallsInductive, PTL

(***************************************************************************)
(* Whoever a session takes for a farmer, a PIN of that farmer has been     *)
(* typed in some call.  If no request of this call has come while the      *)
(* handler of another call was waiting, it was typed in this call, by this *)
(* farmer (verifyPin, confirm).                                            *)
(***************************************************************************)
THEOREM KnownUnlessCrossed == CallsSpec => []KnownByTypedPin
<1>1. CallsInv => KnownByTypedPin
  BY DEF CallsInv, GoodSession, MayKnow, HasTyped, Occurs, KnownByTypedPin, TypedIn
<1> QED
  BY <1>1, CallsInductive, PTL

(***************************************************************************)
(* A PIN is stored (auth.pinSetup.confirm) only when one call has had it   *)
(* typed twice, whatever the calls write into each other's sessions.       *)
(***************************************************************************)
THEOREM StoredTypedTwice == CallsSpec => StoredWasTypedTwice
<1> DEFINE Stored == \A u \in Users :
                        pinHash'[u] # pinHash[u] => \E c \in Calls : TypedTwice(c, pinHash'[u])
<1>1. CallsInv /\ [CallsNext]_callVars => [Stored]_callVars
  <2> SUFFICES ASSUME CallsInv, CallsNext
               PROVE  Stored
    BY DEF callVars
  <2>1. CASE UNCHANGED pinHash
    BY <2>1
  <2>2. ASSUME NEW h \in Handlers, StorePin(h)
        PROVE  Stored
    <3>1. running[h] # Free /\ running[h].op = "store"
      BY <2>2 DEF StorePin, Resumes, Free
    <3>2. /\ pinHash' = [pinHash EXCEPT ![running[h].user] = running[h].pin]
          /\ typed' = typed
      BY <2>2 DEF StorePin, Same
    <3>3. running[h].call \in Calls /\ OccursTwice(typed[running[h].call], running[h].pin)
      BY <3>1, MenuIsTaken DEF GoodWork
    <3>4. TypedTwice(running[h].call, running[h].pin)
      BY <3>3 DEF OccursTwice, TypedTwice
    <3>5. pinHash \in [Users -> Numbers \cup {Nobody}]
      BY DEF CallsInv, CallsTypeOK
    <3>6. ASSUME NEW u \in Users, pinHash'[u] # pinHash[u]
          PROVE  pinHash'[u] = running[h].pin
      BY <3>2, <3>5, <3>6
    <3> QED
      BY <3>3, <3>4, <3>6
  <2>3. ASSUME NEW c \in Calls, RequestOf(c) \/ GiveUp(c)
        PROVE  UNCHANGED pinHash
    BY <2>3 DEF RequestOf, DialIn, EnterPin, EnterNewPin, RefuseNewPin, ConfirmPin, OpenMenu, Posts,
                GiveUp
  <2>4. ASSUME NEW h \in Handlers, GoOn(h) \/ Unreachable(h), ~StorePin(h)
        PROVE  UNCHANGED pinHash
    BY <2>4 DEF GoOn, FindPhone, FindUser, ComparedTrue, ComparedFalse, LoggedIn, ShowMenu,
                Unreachable
  <2>5. ProcessRestart => UNCHANGED pinHash
    BY DEF ProcessRestart
  <2> QED
    BY <2>1, <2>2, <2>3, <2>4, <2>5 DEF CallsNext
<1> QED
  BY <1>1, CallsInductive, PTL DEF CallsSpec, StoredWasTypedTwice
=============================================================================
