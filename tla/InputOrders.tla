----------------------------- MODULE InputOrders -----------------------------
(***************************************************************************)
(* An agro-dealer's input, its stock and the farmers' orders for it        *)
(* (input.service.ts).                                                     *)
(*                                                                         *)
(* The stock is compared when an order is made and taken when its status   *)
(* becomes ACCEPTED: two statements, the second of which writes the status *)
(* whatever it was.  No table of transitions and no CHECK on the stock     *)
(* stands in the way.  request[r] is what handler r remembers.             *)
(*                                                                         *)
(* taken[o] counts how often order o took its quantity from the stock; the *)
(* program keeps no such record.  Names, prices, the columns status and    *)
(* paymentStatus, which nothing here reads, and notifications are left     *)
(* out.                                                                    *)
(***************************************************************************)
EXTENDS Quantities

CONSTANTS
    Orders,     \* ids of input orders
    Size,       \* Size[o]: the quantity that order o asks for
    Counts,     \* stocks that the provider enters
    Wanted,     \* the statuses that callers ask for
    Requests,   \* handlers in flight at the same time
    MaxTaken    \* bound: how often one order takes its quantity

InputOrderStatuses ==
    {"PENDING", "ACCEPTED", "PROCESSING", "READY_FOR_PICKUP", "IN_TRANSIT", "DELIVERED",
     "COMPLETED", "CANCELLED", "REJECTED"}

\* An order is for at least 1, a count is at least 0 (the DTOs); MaxQty is enough to weigh
\* all that one order takes.
ASSUME InputOrdersAssumption ==
    /\ IsFiniteSet(Orders)
    /\ Size \in [Orders -> Nat \ {0}]
    /\ Counts \subseteq Nat
    /\ Wanted \subseteq InputOrderStatuses
    /\ MaxTaken \in Nat \ {0}
    /\ \A o \in Orders : MaxTaken * Size[o] \in Quantity

VARIABLES
    input,      \* the inputs row: whether it exists, and its stock
    order,      \* order[o]: the status in the input_orders row
    taken,      \* history: how often order o was taken from the stock
    request     \* handlers between two statements

vars == <<input, order, taken, request>>

Idle == [op |-> "idle"]

Request ==
    [op : {"idle", "editInput"}]
    \cup [op : {"insert"}, order : Orders]
    \cup [op : {"take", "write"}, order : Orders, to : InputOrderStatuses]

Init ==
    /\ input = [exists |-> FALSE, stock |-> 0]
    /\ order = [o \in Orders |-> "absent"]
    /\ taken = [o \in Orders |-> 0]
    /\ request = [r \in Requests |-> Idle]

Made == {o \in Orders : order[o] # "absent"}

Goto(r, record) == request' = [request EXCEPT ![r] = record]

Begin(r, record) == request[r] = Idle /\ Goto(r, record)

(***************************************************************************)
(* The input.                                                              *)
(***************************************************************************)

CreateInput(stock) ==
    /\ ~input.exists
    /\ input' = [exists |-> TRUE, stock |-> stock]
    /\ UNCHANGED <<order, taken, request>>

\* The provider is checked on the row that was read ...
UpdateInputRead(r) ==
    /\ input.exists
    /\ Begin(r, [op |-> "editInput"])
    /\ UNCHANGED <<input, order, taken>>

\* ... and the stock overwritten with what was counted, orders taken meanwhile or not.
UpdateInputWrite(r, stock) ==
    /\ request[r].op = "editInput"
    /\ input.exists
    /\ input' = [input EXCEPT !.stock = stock]
    /\ Goto(r, Idle)
    /\ UNCHANGED <<order, taken>>

\* Orders refer to the input, and the database keeps it for them.
DeleteInput ==
    /\ input.exists
    /\ Made = {}
    /\ input' = [exists |-> FALSE, stock |-> 0]
    /\ UNCHANGED <<order, taken, request>>

(***************************************************************************)
(* Its orders.                                                             *)
(***************************************************************************)

CreateOrderRead(r, o) ==
    /\ input.exists
    /\ order[o] = "absent"
    /\ input.stock >= Size[o]
    /\ Begin(r, [op |-> "insert", order |-> o])
    /\ UNCHANGED <<input, order, taken>>

\* Seeded fault: the trigger does not look at the status.
CreateOrderInsertTakes(r) ==
    /\ request[r].op = "insert"
    /\ order[request[r].order] = "absent"
    /\ input.exists
    /\ order' = [order EXCEPT ![request[r].order] = "PENDING"]
    /\ input' = [input EXCEPT !.stock = @ - Size[request[r].order]]
    /\ Goto(r, Idle)
    /\ UNCHANGED taken

\* The trigger would take the stock of an order inserted as ACCEPTED: none is.  The insert
\* fails when the input is gone.
CreateOrderInsert(r) ==
    /\ request[r].op = "insert"
    /\ order[request[r].order] = "absent"
    /\ input.exists
    /\ order' = [order EXCEPT ![request[r].order] = "PENDING"]
    /\ Goto(r, Idle)
    /\ UNCHANGED <<input, taken>>

\* Seeded fault: an order is taken for when it was still PENDING.
UpdateReadPending(r, o, to) ==
    /\ o \in Made
    /\ Begin(r, [op |-> IF to = "ACCEPTED" /\ order[o] = "PENDING" THEN "take" ELSE "write",
                 order |-> o, to |-> to])
    /\ UNCHANGED <<input, order, taken>>

\* Only the status that was read says whether the quantity is to be taken.
UpdateRead(r, o, to) ==
    /\ o \in Made
    /\ Begin(r, [op |-> IF to = "ACCEPTED" /\ order[o] # "ACCEPTED" THEN "take" ELSE "write",
                 order |-> o, to |-> to])
    /\ UNCHANGED <<input, order, taken>>

TakeStock(r) ==
    /\ request[r].op = "take"
    /\ LET o == request[r].order IN
       /\ taken[o] < MaxTaken
       /\ input' = [input EXCEPT !.stock = @ - Size[o]]
       /\ taken' = [taken EXCEPT ![o] = @ + 1]
    /\ Goto(r, [request[r] EXCEPT !.op = "write"])
    /\ UNCHANGED order

UpdateWrite(r) ==
    /\ request[r].op = "write"
    /\ order' = [order EXCEPT ![request[r].order] = request[r].to]
    /\ Goto(r, Idle)
    /\ UNCHANGED <<input, taken>>

\* A handler fails or its process stops between two statements.
Interrupt(r) ==
    /\ request[r] # Idle
    /\ Goto(r, Idle)
    /\ UNCHANGED <<input, order, taken>>

-----------------------------------------------------------------------------

Next ==
    \/ \E stock \in Counts : CreateInput(stock)
    \/ DeleteInput
    \/ \E r \in Requests :
          \/ UpdateInputRead(r)
          \/ \E stock \in Counts : UpdateInputWrite(r, stock)
          \/ \E o \in Orders : CreateOrderRead(r, o)
          \/ CreateOrderInsert(r)
          \/ \E o \in Orders, to \in Wanted : UpdateRead(r, o, to)
          \/ TakeStock(r)
          \/ UpdateWrite(r)
          \/ Interrupt(r)

Spec == Init /\ [][Next]_vars

-----------------------------------------------------------------------------

\* Every variable has its type.
TypeOK ==
    /\ input \in [exists : BOOLEAN, stock : Int]
    /\ order \in [Orders -> InputOrderStatuses \cup {"absent"}]
    /\ taken \in [Orders -> 0 .. MaxTaken]
    /\ request \in [Requests -> Request]

\* An order that is ACCEPTED was taken from the stock, although updateInputOrderStatus
\* decides on a status that another handler may since have changed, and writes the new one
\* in a later statement that a failure can keep it from.
AcceptedWasTaken ==
    \A o \in Orders : order[o] = "ACCEPTED" => taken[o] > 0

\* The stock is short by no more than what acceptances took: neither an order that is only
\* made (createInputOrder and the trigger on its insert) nor a provider's count takes from it.
ShortByTakenOnly ==
    0 - input.stock <= Load(Orders, [o \in Orders |-> taken[o] * Size[o]])
=============================================================================
