------------------------------ MODULE Listings ------------------------------
(***************************************************************************)
(* A farmer's listing, its approval by the lead farmers, the negotiation   *)
(* about it and a recurring order (marketplace.service.ts).                *)
(*                                                                         *)
(* A listing that a farmer posts waits for a lead farmer; one that a       *)
(* stock-in makes for the farmer (aggregation.service.ts) is on sale at    *)
(* once, and may be updated and approved like any other.  Approval,        *)
(* rejection and the farmer's own update each read the row, decide, and    *)
(* write it by its id in a second statement; request[r] is what handler r  *)
(* remembers in between.  The handlers of negotiations and of recurring    *)
(* orders take nothing from what they read but the parties, who never      *)
(* change: each is one action.                                             *)
(*                                                                         *)
(* The quantities that stock-ins add to a listing and orders take from it  *)
(* are in StockInventory.                                                  *)
(***************************************************************************)
EXTENDS Integers

CONSTANTS
    Leads,      \* lead farmers
    Terms,      \* prices and quantities that a negotiation may name
    Requests,   \* handlers in flight at the same time
    MaxOrders,  \* bound: orders made from the negotiation
    None        \* a column without a value

ASSUME ListingsAssumption ==
    /\ Terms \subseteq Nat
    /\ MaxOrders \in Nat
    /\ None \notin Leads \cup Int

VARIABLES
    listing,        \* the produce_listings row: status, approvedBy, rejectionReason, and
                    \* whether a stock-in made it
    negotiation,    \* the negotiations row
    recurring,      \* the recurring_orders row
    orders,         \* how many orders were made from the negotiation
    request         \* handlers between their read and their write

vars == <<listing, negotiation, recurring, orders, request>>

ListingStatuses ==
    {"PENDING_LEAD_APPROVAL", "REVISION_REQUESTED", "ACTIVE", "SOLD", "INACTIVE", "EXPIRED"}

NegotiationStatuses ==
    {"PENDING", "COUNTER_OFFER", "ACCEPTED", "REJECTED", "EXPIRED", "CONVERTED"}

\* The statuses that an update may ask for, "none" if it asks for none.
Asked == ListingStatuses \cup {"pending", "none"}

\* normalizeListingStatus: the frontend's pending is stored as EXPIRED.
NormalizeStatus(asked) == IF asked = "pending" THEN "EXPIRED" ELSE asked

\* A row as it is inserted: neither approved nor rejected.
Row(status, fromStock) ==
    [status |-> status, approvedBy |-> None, reason |-> FALSE, fromStock |-> fromStock]

Idle == [op |-> "idle"]

Request ==
    [op : {"idle"}]
    \cup [op : {"update"}, to : ListingStatuses \cup {"none"}, resubmit : BOOLEAN]
    \cup [op : {"approve"}, lead : Leads]
    \cup [op : {"reject"}, reason : BOOLEAN]
    \cup [op : {"convert"}, order : 1 .. MaxOrders]

Init ==
    /\ listing = Row("absent", FALSE)
    /\ negotiation = [status |-> "absent", price |-> None, quantity |-> None,
                      total |-> None, order |-> None]
    /\ recurring = [status |-> "absent", isActive |-> FALSE]
    /\ orders = 0
    /\ request = [r \in Requests |-> Idle]

Listed == listing.status \notin {"absent", "deleted"}

Begin(r, record) ==
    /\ request[r] = Idle
    /\ request' = [request EXCEPT ![r] = record]

\* Handler r's last statement; a write by id fails when the row is gone.
Finish(r, op) ==
    /\ request[r].op = op
    /\ request' = [request EXCEPT ![r] = Idle]

(***************************************************************************)
(* The listing.                                                            *)
(***************************************************************************)

\* The farmer's own post.
CreateListing ==
    /\ listing.status = "absent"
    /\ listing' = Row("PENDING_LEAD_APPROVAL", FALSE)
    /\ UNCHANGED <<negotiation, recurring, orders, request>>

\* createStockIn makes the listing of a new batch, for whichever farmer brought it; a stock-in
\* of a batch that has its listing adds to the quantities only.
ListStockIn ==
    /\ listing.status = "absent"
    /\ listing' = Row("ACTIVE", TRUE)
    /\ UNCHANGED <<negotiation, recurring, orders, request>>

\* Whether this is a resubmission is decided on the status that was read.
UpdateRead(r, asked) ==
    /\ Listed
    /\ LET to == NormalizeStatus(asked)
       IN  Begin(r, [op |-> "update", to |-> to,
                     resubmit |-> /\ listing.status = "REVISION_REQUESTED"
                                  /\ to = "PENDING_LEAD_APPROVAL"])
    /\ UNCHANGED <<listing, negotiation, recurring, orders>>

\* What an update makes of a row: any status but ACTIVE may be written over any other.
Updated(row, update) ==
    IF update.resubmit THEN [row EXCEPT !.status = "PENDING_LEAD_APPROVAL", !.reason = FALSE]
    ELSE IF update.to \in {"none", "ACTIVE"} THEN row
    ELSE [row EXCEPT !.status = update.to]

UpdateWrite(r) ==
    /\ Listed
    /\ Finish(r, "update")
    /\ listing' = Updated(listing, request[r])
    /\ UNCHANGED <<negotiation, recurring, orders>>

\* The database refuses while a negotiation refers to the listing.
DeleteListing ==
    /\ Listed
    /\ negotiation.status = "absent"
    /\ listing' = [listing EXCEPT !.status = "deleted"]
    /\ UNCHANGED <<negotiation, recurring, orders, request>>

ApproveRead(r, lead) ==
    /\ listing.status = "PENDING_LEAD_APPROVAL"
    /\ Begin(r, [op |-> "approve", lead |-> lead])
    /\ UNCHANGED <<listing, negotiation, recurring, orders>>

ApproveWrite(r) ==
    /\ Listed
    /\ Finish(r, "approve")
    /\ listing' = [listing EXCEPT !.status = "ACTIVE", !.approvedBy = request[r].lead,
                                  !.reason = FALSE]
    /\ UNCHANGED <<negotiation, recurring, orders>>

RejectRead(r, reason) ==
    /\ listing.status = "PENDING_LEAD_APPROVAL"
    /\ Begin(r, [op |-> "reject", reason |-> reason])
    /\ UNCHANGED <<listing, negotiation, recurring, orders>>

\* Seeded fault: what a reject leaves out is left as it was.
RejectWriteLeavesStatus(r) ==
    /\ Listed
    /\ Finish(r, "reject")
    /\ listing' = [listing EXCEPT !.approvedBy = None, !.reason = request[r].reason]
    /\ UNCHANGED <<negotiation, recurring, orders>>

RejectWrite(r) ==
    /\ Listed
    /\ Finish(r, "reject")
    /\ listing' = [listing EXCEPT !.status = "REVISION_REQUESTED", !.approvedBy = None,
                                  !.reason = request[r].reason]
    /\ UNCHANGED <<negotiation, recurring, orders>>

(***************************************************************************)
(* The negotiation.                                                        *)
(***************************************************************************)

Negotiated == negotiation.status # "absent"

\* The total of the first terms is kept in the message only.
InitiateNegotiation(price, quantity) ==
    /\ Listed
    /\ ~Negotiated
    /\ negotiation' = [negotiation EXCEPT !.status = "PENDING", !.price = price,
                                          !.quantity = quantity]
    /\ UNCHANGED <<listing, recurring, orders, request>>

\* An update with an undefined field leaves the column as it is.
Or(new, old) == IF new = None THEN old ELSE new

\* The code takes 0 for a value that is not given.
Positive(x) == x \notin {None, 0}

\* Seeded fault: a total that is not known is left as it was.
SendMessageKeepsTotal(price, quantity) ==
    /\ Negotiated
    /\ Positive(price) \/ Positive(quantity)
    /\ negotiation' = [negotiation EXCEPT
          !.status   = "COUNTER_OFFER",
          !.price    = Or(price, @),
          !.quantity = Or(quantity, @),
          !.total    = IF Positive(price) /\ Positive(quantity) THEN price * quantity ELSE @]
    /\ UNCHANGED <<listing, recurring, orders, request>>

\* A message that names a price or a quantity is a counter offer, whatever the status; the
\* total is stored when it names both, and emptied otherwise.
SendNegotiationMessage(price, quantity) ==
    /\ Negotiated
    /\ Positive(price) \/ Positive(quantity)
    /\ negotiation' = [negotiation EXCEPT
          !.status   = "COUNTER_OFFER",
          !.price    = Or(price, @),
          !.quantity = Or(quantity, @),
          !.total    = IF Positive(price) /\ Positive(quantity) THEN price * quantity ELSE None]
    /\ UNCHANGED <<listing, recurring, orders, request>>

\* Either party, from any status, also of the other party's or of its own last offer.
AcceptNegotiation ==
    /\ Negotiated
    /\ negotiation' = [negotiation EXCEPT !.status = "ACCEPTED"]
    /\ UNCHANGED <<listing, recurring, orders, request>>

RejectNegotiation ==
    /\ Negotiated
    /\ negotiation' = [negotiation EXCEPT !.status = "REJECTED"]
    /\ UNCHANGED <<listing, recurring, orders, request>>

\* createOrder inserts the order with terms of its own, from whatever status ...
PlaceOrder(r) ==
    /\ Negotiated
    /\ orders < MaxOrders
    /\ orders' = orders + 1
    /\ Begin(r, [op |-> "convert", order |-> orders'])
    /\ UNCHANGED <<listing, negotiation, recurring>>

\* ... and then links it.
ConvertNegotiation(r) ==
    /\ Finish(r, "convert")
    /\ negotiation' = [negotiation EXCEPT !.status = "CONVERTED", !.order = request[r].order]
    /\ UNCHANGED <<listing, recurring, orders>>

(***************************************************************************)
(* The recurring order.                                                    *)
(***************************************************************************)

CreateRecurringOrder ==
    /\ recurring.status = "absent"
    /\ recurring' = [status |-> "active", isActive |-> TRUE]
    /\ UNCHANGED <<listing, negotiation, orders, request>>

\* Seeded fault: the flag is left as it was.
UpdateRecurringKeepsFlag(status) ==
    /\ recurring.status # "absent"
    /\ recurring' = [recurring EXCEPT !.status = status]
    /\ UNCHANGED <<listing, negotiation, orders, request>>

UpdateRecurringOrder(status) ==
    /\ recurring.status # "absent"
    /\ recurring' = [status |-> status, isActive |-> status = "active"]
    /\ UNCHANGED <<listing, negotiation, orders, request>>

DeleteRecurringOrder ==
    /\ recurring.status # "absent"
    /\ recurring' = [status |-> "absent", isActive |-> FALSE]
    /\ UNCHANGED <<listing, negotiation, orders, request>>

-----------------------------------------------------------------------------

ListingNext(r) ==
    \/ \E asked \in Asked : UpdateRead(r, asked)
    \/ UpdateWrite(r)
    \/ \E lead \in Leads : ApproveRead(r, lead)
    \/ ApproveWrite(r)
    \/ \E reason \in BOOLEAN : RejectRead(r, reason)
    \/ RejectWrite(r)

NegotiationNext ==
    \/ \E price, quantity \in Terms : InitiateNegotiation(price, quantity)
    \/ \E price, quantity \in Terms \cup {None} : SendNegotiationMessage(price, quantity)
    \/ AcceptNegotiation
    \/ RejectNegotiation

RecurringNext ==
    \/ CreateRecurringOrder
    \/ \E status \in {"active", "paused", "cancelled"} : UpdateRecurringOrder(status)
    \/ DeleteRecurringOrder

Next ==
    \/ CreateListing
    \/ ListStockIn
    \/ DeleteListing
    \/ \E r \in Requests : ListingNext(r) \/ PlaceOrder(r) \/ ConvertNegotiation(r)
    \/ NegotiationNext
    \/ RecurringNext

Spec == Init /\ [][Next]_vars

-----------------------------------------------------------------------------

\* Every variable has its type, and the two columns that say whether a recurring order is
\* active agree (updateRecurringOrder writes both).
TypeOK ==
    /\ listing \in [status : ListingStatuses \cup {"absent", "deleted"},
                    approvedBy : Leads \cup {None}, reason : BOOLEAN, fromStock : BOOLEAN]
    /\ negotiation \in [status : NegotiationStatuses \cup {"absent"},
                        price : Terms \cup {None}, quantity : Terms \cup {None},
                        total : {p * q : p, q \in Terms} \cup {None},
                        order : 1 .. orders \cup {None}]
    /\ recurring \in [status : {"absent", "active", "paused", "cancelled"}, isActive : BOOLEAN]
    /\ recurring.isActive <=> recurring.status = "active"
    /\ orders \in 0 .. MaxOrders
    /\ request \in [Requests -> Request]

\* However approvals, rejections and the farmer's updates overlap, a listing that buyers see
\* carries no reason for a rejection, and was approved by a lead farmer unless a stock-in made
\* it (createListing, approveListing and updateListing: no self-approval).
PostedIsApproved ==
    listing.status = "ACTIVE" =>
        /\ ~listing.reason
        /\ listing.approvedBy \in Leads \/ listing.fromStock

\* A negotiation that has a total has the terms it was computed from, although a counter
\* offer may name only one of them and an offer may follow an acceptance or a conversion
\* (sendNegotiationMessage).
TotalMatchesTerms ==
    negotiation.total # None => negotiation.total = negotiation.price * negotiation.quantity

(***************************************************************************)
(* What a comment says and the code does not do.                           *)
(***************************************************************************)

\* getListings: buyers are shown approved (ACTIVE) listings.  Those of stock-ins are not.
ShownIsApproved == listing.status = "ACTIVE" => listing.approvedBy \in Leads
=============================================================================
