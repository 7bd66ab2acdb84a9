-------------------------- MODULE PickupScheduling --------------------------
(***************************************************************************)
(* Farm pickup schedules, slot bookings and pickup confirmation            *)
(* (src/modules/transport/transport.service.ts), at the granularity of the *)
(* database.  A handler reads and checks rows first; its writes are one    *)
(* $transaction later, and other requests run in between.  request[r] is   *)
(* what handler r still remembers from its reads.  A statement refused by  *)
(* a CHECK or UNIQUE constraint rolls the whole $transaction back: the     *)
(* write action is then disabled and only Fail(r) is left.                 *)
(*                                                                         *)
(* bookPickupSlot creates one pickup_slots row per booking, of exactly the *)
(* booking's capacity, so that row is named by its booking.  Callers are   *)
(* the owners of the rows they name: the ownership checks refuse everybody *)
(* else before any write.  The scheduled time arrives at an arbitrary      *)
(* moment, so its check in confirmPickup is left open.                     *)
(***************************************************************************)
EXTENDS Quantities

CONSTANTS
    Schedules,  \* ids of farm_pickup_schedules rows
    Bookings,   \* ids of pickup_slot_bookings rows
    Batches,    \* batch ids, given by a farmer or generated
    Requests,   \* handlers in flight at the same time
    MaxCapacity,
    None

ASSUME PickupAssumption ==
    /\ IsFiniteSet(Bookings)
    /\ MaxCapacity \in Nat \ {0}
    /\ None \notin Schedules
    /\ None \notin Batches

VARIABLES
    schedule,   \* farm_pickup_schedules: status, totalCapacity, usedCapacity
    booking,    \* pickup_slot_bookings
    slotUsed,   \* usedCapacity of the pickup_slots row of each booking
    receipts,   \* pickup_receipts
    stockIn,    \* STOCK_IN rows confirmPickup wrote in stock_transactions, per batch
    request     \* handlers between their reads and their writes

vars == <<schedule, booking, slotUsed, receipts, stockIn, request>>

Capacities == 1 .. MaxCapacity

Idle == [op |-> "idle"]

\* availableCapacity is recomputed by a trigger on every write as total - used.
ScheduleRow == [status : {"absent", "DRAFT", "PUBLISHED", "ACTIVE", "COMPLETED", "CANCELLED"},
                total : 0 .. MaxCapacity, used : Nat]

\* released stands for cancelledAt # NULL, confirmed for pickupConfirmed.
BookingRow == [status : {"absent", "confirmed", "cancelled", "picked_up"},
               sched : Schedules \cup {None}, qty : Quantity,
               released : BOOLEAN, confirmed : BOOLEAN, batch : Batches \cup {None}]

Request ==
    [op : {"idle"}]
    \cup [op : {"update"}, sched : Schedules, total : Capacities]
    \cup [op : {"publish", "listBookings"}, sched : Schedules]
    \cup [op : {"book"}, sched : Schedules, qty : Quantity]
    \cup [op : {"cancelBooking", "confirm"}, booking : Bookings]
    \cup [op : {"cancelSchedule"}, sched : Schedules, seen : SUBSET Bookings]

TypeOK ==
    /\ schedule \in [Schedules -> ScheduleRow]
    /\ booking \in [Bookings -> BookingRow]
    /\ slotUsed \in [Bookings -> Quantity]
    /\ receipts \subseteq [booking : Bookings, batch : Batches]
    /\ stockIn \in [Batches -> Nat]
    /\ request \in [Requests -> Request]

Init ==
    /\ schedule = [s \in Schedules |-> [status |-> "absent", total |-> 0, used |-> 0]]
    /\ booking  = [b \in Bookings |-> [status |-> "absent", sched |-> None, qty |-> 0,
                                       released |-> FALSE, confirmed |-> FALSE, batch |-> None]]
    /\ slotUsed = [b \in Bookings |-> 0]
    /\ receipts = {}
    /\ stockIn  = [t \in Batches |-> 0]
    /\ request  = [r \in Requests |-> Idle]

(***************************************************************************)
(* The constraints of the schema.                                          *)
(***************************************************************************)

\* Seeded fault: no upper bound.
ScheduleCheckUnbounded(total, used) == total > 0 /\ used >= 0

\* pickup_schedules_capacity_check
ScheduleCheck(total, used) == total > 0 /\ used >= 0 /\ used <= total

\* Seeded fault: a slot may be released below zero.
SlotCheckNoFloor(capacity, used) == capacity > 0 /\ used <= capacity

\* pickup_slots_capacity_check
SlotCheck(capacity, used) == capacity > 0 /\ used >= 0 /\ used <= capacity

\* Seeded fault: bookingId is not unique.
ReceiptBatchIsUnique(b, t) ==
    /\ \A c \in receipts : c.batch # t
    /\ \A o \in Bookings \ {b} : booking[o].batch # t

\* Seeded fault: batchId is not unique.
ReceiptBookingIsUnique(b, t) == \A c \in receipts : c.booking # b

\* pickup_receipts.bookingId and .batchId are unique, and so is the batchId of a booking.
ReceiptIsUnique(b, t) ==
    /\ \A c \in receipts : c.booking # b /\ c.batch # t
    /\ \A o \in Bookings \ {b} : booking[o].batch # t

(***************************************************************************)
(* Handlers.                                                               *)
(***************************************************************************)

Begin(r, req) == request[r] = Idle /\ request' = [request EXCEPT ![r] = req]

Finish(r) == request' = [request EXCEPT ![r] = Idle]

rows == <<schedule, booking, slotUsed, receipts, stockIn>>

\* createPickupSchedule: one INSERT, status DRAFT by default.
CreatePickupSchedule(s, n) ==
    /\ schedule[s].status = "absent"
    /\ schedule' = [schedule EXCEPT ![s] = [status |-> "DRAFT", total |-> n, used |-> 0]]
    /\ UNCHANGED <<booking, slotUsed, receipts, stockIn, request>>

UpdateRead(r, s, n) ==
    /\ schedule[s].status = "DRAFT"
    /\ Begin(r, [op |-> "update", sched |-> s, total |-> n])
    /\ UNCHANGED rows

UpdateWrite(r) ==
    /\ request[r].op = "update"
    /\ LET s == request[r].sched
           n == request[r].total
       IN  /\ ScheduleCheck(n, schedule[s].used)
           /\ schedule' = [schedule EXCEPT ![s].total = n]
    /\ Finish(r)
    /\ UNCHANGED <<booking, slotUsed, receipts, stockIn>>

PublishRead(r, s) ==
    /\ schedule[s].status = "DRAFT"
    /\ Begin(r, [op |-> "publish", sched |-> s])
    /\ UNCHANGED rows

PublishWrite(r) ==
    /\ request[r].op = "publish"
    /\ schedule' = [schedule EXCEPT ![request[r].sched].status = "PUBLISHED"]
    /\ Finish(r)
    /\ UNCHANGED <<booking, slotUsed, receipts, stockIn>>

BookRead(r, s, q) ==
    /\ schedule[s].status \in {"PUBLISHED", "ACTIVE"}
    /\ schedule[s].used + q <= schedule[s].total
    /\ Begin(r, [op |-> "book", sched |-> s, qty |-> q])
    /\ UNCHANGED rows

\* The $transaction of bookPickupSlot: slot, booking and the schedule's counter.
BookTx(r, b) ==
    /\ request[r].op = "book"
    /\ booking[b].status = "absent"
    /\ LET s == request[r].sched
           q == request[r].qty
       IN  /\ SlotCheck(q, q)
           /\ ScheduleCheck(schedule[s].total, schedule[s].used + q)
           /\ slotUsed' = [slotUsed EXCEPT ![b] = q]
           /\ booking'  = [booking EXCEPT ![b] =
                              [status |-> "confirmed", sched |-> s, qty |-> q,
                               released |-> FALSE, confirmed |-> FALSE, batch |-> None]]
           /\ schedule' = [schedule EXCEPT ![s].used = @ + q]
    /\ Finish(r)
    /\ UNCHANGED <<receipts, stockIn>>

\* Only picked_up (and completed, which no code writes) is refused here: a
\* booking that is already cancelled passes.
CancelBookingRead(r, b) ==
    /\ booking[b].status \notin {"absent", "picked_up"}
    /\ Begin(r, [op |-> "cancelBooking", booking |-> b])
    /\ UNCHANGED rows

CancelBookingTx(r) ==
    /\ request[r].op = "cancelBooking"
    /\ LET b == request[r].booking
           s == booking[b].sched
           q == booking[b].qty
       IN  /\ SlotCheck(q, slotUsed[b] - q)
           /\ ScheduleCheck(schedule[s].total, schedule[s].used - q)
           /\ booking'  = [booking EXCEPT ![b].status = "cancelled", ![b].released = TRUE]
           /\ slotUsed' = [slotUsed EXCEPT ![b] = @ - q]
           /\ schedule' = [schedule EXCEPT ![s].used = @ - q]
    /\ Finish(r)
    /\ UNCHANGED <<receipts, stockIn>>

CancelScheduleRead(r, s) ==
    /\ schedule[s].status \notin {"absent", "COMPLETED", "CANCELLED"}
    /\ Begin(r, [op |-> "listBookings", sched |-> s])
    /\ UNCHANGED rows

BookingsOf(s) == {b \in Bookings : booking[b].sched = s}

\* findMany returns every booking of the schedule, the cancelled ones too.
CancelScheduleList(r) ==
    /\ request[r].op = "listBookings"
    /\ LET s == request[r].sched
       IN  request' = [request EXCEPT ![r] =
                          [op |-> "cancelSchedule", sched |-> s, seen |-> BookingsOf(s)]]
    /\ UNCHANGED rows

Qty == [b \in Bookings |-> booking[b].qty]

\* The updates of the $transaction: no CHECK refuses them.
CancelScheduleFits(s, seen) ==
    /\ \A b \in seen : SlotCheck(booking[b].qty, slotUsed[b] - booking[b].qty)
    /\ ScheduleCheck(schedule[s].total, schedule[s].used - Load(seen, Qty))

CancelScheduleTx(r) ==
    /\ request[r].op = "cancelSchedule"
    /\ LET s == request[r].sched
           seen == request[r].seen
       IN  /\ CancelScheduleFits(s, seen)
           /\ booking'  = [b \in Bookings |->
                              IF b \in seen
                              THEN [booking[b] EXCEPT !.status = "cancelled", !.released = TRUE]
                              ELSE booking[b]]
           /\ slotUsed' = [b \in Bookings |->
                              IF b \in seen THEN slotUsed[b] - booking[b].qty ELSE slotUsed[b]]
           /\ schedule' = [schedule EXCEPT ![s].status = "CANCELLED",
                                           ![s].used = @ - Load(seen, Qty)]
    /\ Finish(r)
    /\ UNCHANGED <<receipts, stockIn>>

ConfirmRead(r, b) ==
    /\ booking[b].status \notin {"absent", "cancelled"}
    /\ ~booking[b].confirmed
    /\ Begin(r, [op |-> "confirm", booking |-> b])
    /\ UNCHANGED rows

\* Receipt, stock transaction awaiting the centre's confirmation, booking.
ConfirmTx(r, t) ==
    /\ request[r].op = "confirm"
    /\ LET b == request[r].booking
       IN  /\ ReceiptIsUnique(b, t)
           /\ receipts' = receipts \cup {[booking |-> b, batch |-> t]}
           /\ stockIn'  = [stockIn EXCEPT ![t] = @ + 1]
           /\ booking'  = [booking EXCEPT ![b].status = "picked_up", ![b].confirmed = TRUE,
                                          ![b].batch = t]
    /\ Finish(r)
    /\ UNCHANGED <<schedule, slotUsed>>

\* The handler ends without its writes: a constraint refused them, the
\* connection dropped, or the server restarted.
Fail(r) ==
    /\ request[r] # Idle
    /\ Finish(r)
    /\ UNCHANGED rows

Next ==
    \/ \E s \in Schedules, n \in Capacities : CreatePickupSchedule(s, n)
    \/ \E r \in Requests :
        \/ \E s \in Schedules, n \in Capacities : UpdateRead(r, s, n)
        \/ \E s \in Schedules, q \in Quantity : BookRead(r, s, q)
        \/ \E s \in Schedules : PublishRead(r, s) \/ CancelScheduleRead(r, s)
        \/ \E b \in Bookings : CancelBookingRead(r, b) \/ ConfirmRead(r, b) \/ BookTx(r, b)
        \/ \E t \in Batches : ConfirmTx(r, t)
        \/ UpdateWrite(r) \/ PublishWrite(r)
        \/ CancelBookingTx(r)
        \/ CancelScheduleList(r) \/ CancelScheduleTx(r)
        \/ Fail(r)

Spec == Init /\ [][Next]_vars

-----------------------------------------------------------------------------
(***************************************************************************)
(* Properties.                                                             *)
(***************************************************************************)

\* The bookings of s whose capacity was never given back.
Held(s) == {b \in BookingsOf(s) : ~booking[b].released}

\* usedCapacity, a counter moved by increments and decrements of concurrent
\* requests, is at every moment the sum over the bookings that were not
\* cancelled: no booking is released twice (two cancellations of it, or of it
\* and of its schedule), none is lost.
CapacityConserved ==
    \A s \in Schedules : schedule[s].used = Load(Held(s), Qty)

\* Each slot row agrees with its own booking; this is what refuses the second
\* release.
SlotsConserved ==
    \A b \in Bookings : slotUsed[b] = IF booking[b].released THEN 0 ELSE booking[b].qty

\* What a handler remembers refers to rows that exist.
RequestRefers(r) ==
    /\ request[r].op \in {"update", "publish", "book", "listBookings", "cancelSchedule"} =>
          schedule[request[r].sched].status # "absent"
    /\ request[r].op \in {"cancelBooking", "confirm"} =>
          booking[request[r].booking].status # "absent"
    /\ request[r].op = "cancelSchedule" =>
          request[r].seen \subseteq BookingsOf(request[r].sched)

\* References between rows, which the foreign keys of the schema keep.
RefersToRows ==
    /\ \A b \in Bookings :
          /\ booking[b].status = "absent" <=> booking[b].sched = None
          /\ booking[b].sched # None => schedule[booking[b].sched].status # "absent"
    /\ \A r \in Requests : RequestRefers(r)

\* The inductive invariant behind the capacity guarantees.
CapacityInv ==
    /\ TypeOK
    /\ RefersToRows
    /\ SlotsConserved
    /\ CapacityConserved
    /\ \A s \in Schedules : schedule[s].used <= schedule[s].total

\* A schedule is never overbooked, although bookPickupSlot compares with a
\* usedCapacity read before its transaction: the kilograms of the bookings that
\* occupy it fit its totalCapacity, whatever updates and bookings interleave.
NoOverbooking ==
    \A s \in Schedules : Load(Held(s), Qty) <= schedule[s].total

Confirmed == {b \in Bookings : booking[b].confirmed}

\* Two confirmations of one pickup, or a batch id given twice, never make a
\* second receipt or a second stock-in row: confirmed bookings, receipts and
\* batches that entered stock correspond one to one.
OneReceiptPerPickup ==
    /\ receipts = {[booking |-> b, batch |-> booking[b].batch] : b \in Confirmed}
    /\ \A b, o \in Confirmed : booking[b].batch = booking[o].batch => b = o
    /\ \A t \in Batches :
          stockIn[t] = IF \E b \in Confirmed : booking[b].batch = t THEN 1 ELSE 0

\* The inductive invariant behind it.
ReceiptInv ==
    /\ OneReceiptPerPickup
    /\ \A b \in Confirmed : booking[b].status # "absent" /\ booking[b].batch \in Batches

\* A confirmed pickup is never undone in the books: its batch, receipt and
\* stock-in row stay whatever request commits later.
PickupIsFinal ==
    [][\A b \in Confirmed :
          /\ b \in Confirmed'
          /\ booking'[b].batch = booking[b].batch
          /\ stockIn'[booking[b].batch] = stockIn[booking[b].batch]]_vars

\* The abstract promise: bookings are claims on the capacity of their schedule.
Ledger == INSTANCE CapacityLedger WITH
    Accounts <- Schedules, Claims <- Bookings, Limits <- Capacities,
    limit    <- [s \in Schedules |-> schedule[s].total],
    held     <- [s \in Schedules |-> Held(s)],
    weight   <- Qty,
    admitted <- {b \in Bookings : booking[b].status # "absent"}

\* Every step of the booking code is a step of the ledger: admission on the
\* exact set of claims, each claim released once and never re-admitted.
ImplementsLedger == Ledger!LedgerSpec

(***************************************************************************)
(* What comments of the code say and the code does not do.                 *)
(***************************************************************************)

\* "Cancel schedule and all bookings in a transaction (per lifecycle: all
\* bookings cancelled)", transport.service.ts:1031: a cancelled schedule keeps
\* no booking that still expects its pickup.
CancelledScheduleHasNoBooking ==
    \A s \in Schedules : schedule[s].status = "CANCELLED" =>
        \A b \in BookingsOf(s) : booking[b].status # "confirmed"

\* "Cannot cancel if already completed or cancelled", transport.service.ts:1018,
\* is the only refusal: with no other handler running, the transaction that
\* cancels an open schedule is accepted by the database.
OpenScheduleCanBeCancelled ==
    (\A r \in Requests : request[r] = Idle) =>
        \A s \in Schedules : schedule[s].status \in {"DRAFT", "PUBLISHED", "ACTIVE"} =>
            CancelScheduleFits(s, BookingsOf(s))
=============================================================================
