----------------------- MODULE PickupScheduling_proofs -----------------------
(***************************************************************************)
(* Theorems about PickupScheduling, for any sets of schedules, bookings,   *)
(* batches and concurrent handlers.                                        *)
(***************************************************************************)
EXTENDS PickupScheduling, QuantitiesTheorems

\* The handlers stay well-typed when one of them starts or ends.
LEMMA RequestType ==
    ASSUME request \in [Requests -> Request], NEW r \in Requests
    PROVE  /\ Finish(r) => request' \in [Requests -> Request]
           /\ \A req \in Request : Begin(r, req) => request' \in [Requests -> Request]
  BY DEF Finish, Begin, Idle, Request

LEMMA InitTypeOK == Init => TypeOK
  BY PickupAssumption, MaxQtyAssumption
  DEF Init, TypeOK, ScheduleRow, BookingRow, Request, Idle, Quantity

LEMMA NextTypeOK ==
    ASSUME TypeOK, Next
    PROVE  TypeOK'
<1> USE PickupAssumption, MaxQtyAssumption DEF Quantity, Capacities
<1>1. ASSUME NEW s \in Schedules, NEW n \in Capacities, CreatePickupSchedule(s, n)
      PROVE  TypeOK'
  BY <1>1 DEF CreatePickupSchedule, TypeOK, ScheduleRow
<1>2. ASSUME NEW r \in Requests, NEW s \in Schedules, NEW n \in Capacities, UpdateRead(r, s, n)
      PROVE  TypeOK'
  <2>1. [op |-> "update", sched |-> s, total |-> n] \in Request
    BY DEF Request
  <2> QED
    BY <1>2, <2>1, RequestType DEF UpdateRead, TypeOK, rows
<1>3. ASSUME NEW r \in Requests, UpdateWrite(r)
      PROVE  TypeOK'
  <2>1. request[r].sched \in Schedules /\ request[r].total \in Capacities
    BY <1>3 DEF UpdateWrite, TypeOK, Request
  <2>2. schedule' \in [Schedules -> ScheduleRow]
    BY <1>3, <2>1 DEF UpdateWrite, TypeOK, ScheduleRow
  <2> QED
    BY <1>3, <2>2, RequestType DEF UpdateWrite, TypeOK
<1>4. ASSUME NEW r \in Requests, NEW s \in Schedules, PublishRead(r, s)
      PROVE  TypeOK'
  <2>1. [op |-> "publish", sched |-> s] \in Request
    BY DEF Request
  <2> QED
    BY <1>4, <2>1, RequestType DEF PublishRead, TypeOK, rows
<1>5. ASSUME NEW r \in Requests, PublishWrite(r)
      PROVE  TypeOK'
  <2>1. request[r].sched \in Schedules
    BY <1>5 DEF PublishWrite, TypeOK, Request
  <2>2. schedule' \in [Schedules -> ScheduleRow]
    BY <1>5, <2>1 DEF PublishWrite, TypeOK, ScheduleRow
  <2> QED
    BY <1>5, <2>2, RequestType DEF PublishWrite, TypeOK
<1>6. ASSUME NEW r \in Requests, NEW s \in Schedules, NEW q \in Quantity, BookRead(r, s, q)
      PROVE  TypeOK'
  <2>1. [op |-> "book", sched |-> s, qty |-> q] \in Request
    BY DEF Request
  <2> QED
    BY <1>6, <2>1, RequestType DEF BookRead, TypeOK, rows
<1>7. ASSUME NEW r \in Requests, NEW b \in Bookings, BookTx(r, b)
      PROVE  TypeOK'
  <2>1. request[r].sched \in Schedules /\ request[r].qty \in Quantity
    BY <1>7 DEF BookTx, TypeOK, Request
  <2>2. schedule' \in [Schedules -> ScheduleRow]
    BY <1>7, <2>1 DEF BookTx, TypeOK, ScheduleRow
  <2>3. booking' \in [Bookings -> BookingRow] /\ slotUsed' \in [Bookings -> Quantity]
    BY <1>7, <2>1 DEF BookTx, TypeOK, BookingRow
  <2> QED
    BY <1>7, <2>2, <2>3, RequestType DEF BookTx, TypeOK
<1>8. ASSUME NEW r \in Requests, NEW b \in Bookings, CancelBookingRead(r, b)
      PROVE  TypeOK'
  <2>1. [op |-> "cancelBooking", booking |-> b] \in Request
    BY DEF Request
  <2> QED
    BY <1>8, <2>1, RequestType DEF CancelBookingRead, TypeOK, rows
<1>9. ASSUME NEW r \in Requests, CancelBookingTx(r)
      PROVE  TypeOK'
  <2> DEFINE b == request[r].booking
  <2>1. b \in Bookings
    BY <1>9 DEF CancelBookingTx, TypeOK, Request
  <2>2. booking[b].qty \in Quantity /\ slotUsed[b] \in Quantity
    BY <2>1 DEF TypeOK, BookingRow
  <2> DEFINE s == booking[b].sched
             q == booking[b].qty
  <2>3. schedule' \in [Schedules -> ScheduleRow]
    <3>1. schedule' = [schedule EXCEPT ![s].used = @ - q] /\ schedule[s].used - q >= 0
      BY <1>9 DEF CancelBookingTx, ScheduleCheck
    <3>2. s \in Schedules => schedule[s].used - q \in Nat
      BY <2>2, <3>1 DEF TypeOK, ScheduleRow
    <3> QED
      BY <3>1, <3>2 DEF TypeOK, ScheduleRow
  <2>4. booking' \in [Bookings -> BookingRow]
    <3>1. booking' = [booking EXCEPT ![b].status = "cancelled", ![b].released = TRUE]
      BY <1>9 DEF CancelBookingTx
    <3>2. \A o \in Bookings : [booking[o] EXCEPT !.status = "cancelled", !.released = TRUE]
                               \in BookingRow
      BY DEF TypeOK, BookingRow
    <3> QED
      BY <2>1, <3>1, <3>2 DEF TypeOK
  <2>5. slotUsed' \in [Bookings -> Quantity]
    <3>1. slotUsed' = [slotUsed EXCEPT ![b] = @ - q] /\ slotUsed[b] - q >= 0
      BY <1>9 DEF CancelBookingTx, SlotCheck
    <3>2. slotUsed[b] - q \in Quantity
      BY <2>2, <3>1
    <3> QED
      BY <2>1, <3>1, <3>2 DEF TypeOK
  <2> QED
    BY <1>9, <2>3, <2>4, <2>5, RequestType DEF CancelBookingTx, TypeOK
<1>10. ASSUME NEW r \in Requests, NEW s \in Schedules, CancelScheduleRead(r, s)
       PROVE  TypeOK'
  <2>1. [op |-> "listBookings", sched |-> s] \in Request
    BY DEF Request
  <2> QED
    BY <1>10, <2>1, RequestType DEF CancelScheduleRead, TypeOK, rows
<1>11. ASSUME NEW r \in Requests, CancelScheduleList(r)
       PROVE  TypeOK'
  <2>1. request[r].sched \in Schedules
    BY <1>11 DEF CancelScheduleList, TypeOK, Request
  <2>2. [op |-> "cancelSchedule", sched |-> request[r].sched,
         seen |-> BookingsOf(request[r].sched)] \in Request
    BY <2>1 DEF Request, BookingsOf
  <2> QED
    BY <1>11, <2>2 DEF CancelScheduleList, TypeOK, rows
<1>12. ASSUME NEW r \in Requests, CancelScheduleTx(r)
       PROVE  TypeOK'
  <2> DEFINE seen == request[r].seen
             s == request[r].sched
  <2>1. seen \in SUBSET Bookings /\ s \in Schedules
    BY <1>12 DEF CancelScheduleTx, TypeOK, Request
  <2>2. Load(seen, Qty) \in Nat
    BY <2>1, FS_Subset, LoadType
  <2>3. schedule' \in [Schedules -> ScheduleRow]
    <3>1. /\ schedule' = [schedule EXCEPT ![s].status = "CANCELLED", ![s].used = @ - Load(seen, Qty)]
          /\ schedule[s].used - Load(seen, Qty) >= 0
      BY <1>12 DEF CancelScheduleTx, CancelScheduleFits, ScheduleCheck
    <3>2. schedule[s].used - Load(seen, Qty) \in Nat
      BY <2>1, <2>2, <3>1 DEF TypeOK, ScheduleRow
    <3> QED
      BY <2>1, <3>1, <3>2 DEF TypeOK, ScheduleRow
  <2>4. booking' \in [Bookings -> BookingRow]
    <3>1. \A b \in Bookings : [booking[b] EXCEPT !.status = "cancelled", !.released = TRUE]
                               \in BookingRow
      BY DEF TypeOK, BookingRow
    <3> QED
      BY <1>12, <3>1 DEF CancelScheduleTx, TypeOK
  <2>5. slotUsed' \in [Bookings -> Quantity]
    <3>1. ASSUME NEW b \in Bookings
          PROVE  slotUsed'[b] \in Quantity
      <4>1. booking[b].qty \in Quantity /\ slotUsed[b] \in Quantity
        BY DEF TypeOK, BookingRow
      <4>2. b \in seen => slotUsed[b] - booking[b].qty >= 0
        BY <1>12 DEF CancelScheduleTx, CancelScheduleFits, SlotCheck
      <4>3. slotUsed'[b] = IF b \in seen THEN slotUsed[b] - booking[b].qty ELSE slotUsed[b]
        BY <1>12 DEF CancelScheduleTx
      <4> QED
        BY <4>1, <4>2, <4>3
    <3>2. slotUsed' = [b \in Bookings |-> slotUsed'[b]]
      BY <1>12 DEF CancelScheduleTx
    <3> QED
      BY <3>1, <3>2
  <2> QED
    BY <1>12, <2>3, <2>4, <2>5, RequestType DEF CancelScheduleTx, TypeOK
<1>13. ASSUME NEW r \in Requests, NEW b \in Bookings, ConfirmRead(r, b)
       PROVE  TypeOK'
  <2>1. [op |-> "confirm", booking |-> b] \in Request
    BY DEF Request
  <2> QED
    BY <1>13, <2>1, RequestType DEF ConfirmRead, TypeOK, rows
<1>14. ASSUME NEW r \in Requests, NEW t \in Batches, ConfirmTx(r, t)
       PROVE  TypeOK'
  <2>1. request[r].booking \in Bookings
    BY <1>14 DEF ConfirmTx, TypeOK, Request
  <2>2. booking' \in [Bookings -> BookingRow]
    BY <1>14, <2>1 DEF ConfirmTx, TypeOK, BookingRow
  <2>3. receipts' \subseteq [booking : Bookings, batch : Batches]
    BY <1>14, <2>1 DEF ConfirmTx, TypeOK
  <2> QED
    BY <1>14, <2>2, <2>3, RequestType DEF ConfirmTx, TypeOK
<1>15. ASSUME NEW r \in Requests, Fail(r)
       PROVE  TypeOK'
  BY <1>15, RequestType DEF Fail, TypeOK, rows
<1> QED
  BY <1>1, <1>2, <1>3, <1>4, <1>5, <1>6, <1>7, <1>8, <1>9, <1>10, <1>11, <1>12,
     <1>13, <1>14, <1>15 DEF Next

\* Every row and every remembered request stays in its type: in particular no
\* usedCapacity ever becomes negative.
THEOREM TypeCorrect == Spec => []TypeOK
<1>1. TypeOK /\ UNCHANGED vars => TypeOK'
  BY DEF TypeOK, vars
<1>2. TypeOK /\ [Next]_vars => TypeOK'
  BY <1>1, NextTypeOK
<1> QED
  BY InitTypeOK, <1>2, PTL DEF Spec

-----------------------------------------------------------------------------
(***************************************************************************)
(* References between rows.                                                *)
(***************************************************************************)

\* Rows are never deleted, and a booking never changes schedule or quantity.
LEMMA RowsPersist ==
    ASSUME TypeOK, RefersToRows, Next
    PROVE  /\ \A s \in Schedules : schedule[s].status # "absent" => schedule'[s].status # "absent"
           /\ \A b \in Bookings : booking[b].status # "absent" =>
                 /\ booking'[b].status # "absent"
                 /\ booking'[b].sched = booking[b].sched
                 /\ booking'[b].qty = booking[b].qty
<1> DEFINE Persist ==
        /\ \A s \in Schedules : schedule[s].status # "absent" => schedule'[s].status # "absent"
        /\ \A b \in Bookings : booking[b].status # "absent" =>
              /\ booking'[b].status # "absent"
              /\ booking'[b].sched = booking[b].sched
              /\ booking'[b].qty = booking[b].qty
<1>1. ASSUME NEW s \in Schedules, NEW n \in Capacities, CreatePickupSchedule(s, n)
      PROVE  Persist
  BY <1>1 DEF CreatePickupSchedule, TypeOK
<1>2. ASSUME NEW r \in Requests, UpdateWrite(r)
      PROVE  Persist
  BY <1>2 DEF UpdateWrite, TypeOK
<1>3. ASSUME NEW r \in Requests, PublishWrite(r)
      PROVE  Persist
  BY <1>3 DEF PublishWrite, TypeOK
<1>4. ASSUME NEW r \in Requests, NEW b \in Bookings, BookTx(r, b)
      PROVE  Persist
  <2>1. booking[b].status = "absent"
    BY <1>4 DEF BookTx
  <2>2. \A o \in Bookings \ {b} : booking'[o] = booking[o]
    BY <1>4 DEF BookTx, TypeOK
  <2>3. \A s \in Schedules : schedule'[s].status = schedule[s].status
    BY <1>4 DEF BookTx, TypeOK
  <2> QED
    BY <2>1, <2>2, <2>3
<1>5. ASSUME NEW r \in Requests, CancelBookingTx(r)
      PROVE  Persist
  <2>1. request[r].booking \in Bookings
    BY <1>5 DEF CancelBookingTx, TypeOK, Request
  <2>2. \A o \in Bookings : /\ booking'[o].sched = booking[o].sched
                           /\ booking'[o].qty = booking[o].qty
                           /\ booking'[o].status \in {booking[o].status, "cancelled"}
    BY <1>5, <2>1 DEF CancelBookingTx, TypeOK, BookingRow
  <2>3. \A s \in Schedules : schedule'[s].status = schedule[s].status
    BY <1>5 DEF CancelBookingTx, TypeOK, ScheduleRow
  <2> QED
    BY <2>2, <2>3
<1>6. ASSUME NEW r \in Requests, CancelScheduleTx(r)
      PROVE  Persist
  <2>1. \A o \in Bookings : /\ booking'[o].sched = booking[o].sched
                           /\ booking'[o].qty = booking[o].qty
                           /\ booking'[o].status \in {booking[o].status, "cancelled"}
    BY <1>6 DEF CancelScheduleTx, TypeOK, BookingRow
  <2>2. \A s \in Schedules : schedule'[s].status \in {schedule[s].status, "CANCELLED"}
    BY <1>6 DEF CancelScheduleTx, TypeOK, ScheduleRow
  <2> QED
    BY <2>1, <2>2
<1>7. ASSUME NEW r \in Requests, NEW t \in Batches, ConfirmTx(r, t)
      PROVE  Persist
  <2>1. \A o \in Bookings : /\ booking'[o].sched = booking[o].sched
                           /\ booking'[o].qty = booking[o].qty
                           /\ booking'[o].status \in {booking[o].status, "picked_up"}
    BY <1>7 DEF ConfirmTx, TypeOK, BookingRow
  <2> QED
    BY <1>7, <2>1 DEF ConfirmTx
<1>8. ASSUME UNCHANGED rows
      PROVE  Persist
  BY <1>8 DEF rows
<1> QED
  BY <1>1, <1>2, <1>3, <1>4, <1>5, <1>6, <1>7, <1>8
  DEF Next, UpdateRead, PublishRead, BookRead, CancelBookingRead, CancelScheduleRead,
      CancelScheduleList, ConfirmRead, Fail

\* Only bookPickupSlot writes a booking that does not exist yet.
LEMMA OnlyBookTxCreates ==
    ASSUME TypeOK, RefersToRows, Next, NEW b \in Bookings,
           booking[b].status = "absent", booking'[b] # booking[b]
    PROVE  \E r \in Requests : BookTx(r, b)
<1>1. ASSUME NEW r \in Requests, NEW o \in Bookings, BookTx(r, o), o # b
      PROVE  booking'[b] = booking[b]
  BY <1>1 DEF BookTx, TypeOK
<1>2. ASSUME NEW r \in Requests, CancelBookingTx(r)
      PROVE  booking'[b] = booking[b]
  <2>1. request[r].booking # b
    BY <1>2 DEF CancelBookingTx, RefersToRows, RequestRefers
  <2> QED
    BY <1>2, <2>1 DEF CancelBookingTx, TypeOK
<1>3. ASSUME NEW r \in Requests, CancelScheduleTx(r)
      PROVE  booking'[b] = booking[b]
  <2>1. request[r].sched \in Schedules /\ request[r].seen \subseteq BookingsOf(request[r].sched)
    BY <1>3 DEF CancelScheduleTx, RefersToRows, RequestRefers, TypeOK, Request
  <2>2. b \notin request[r].seen
    BY <2>1, PickupAssumption DEF RefersToRows, BookingsOf
  <2> QED
    BY <1>3, <2>2 DEF CancelScheduleTx
<1>4. ASSUME NEW r \in Requests, NEW t \in Batches, ConfirmTx(r, t)
      PROVE  booking'[b] = booking[b]
  <2>1. request[r].booking # b
    BY <1>4 DEF ConfirmTx, RefersToRows, RequestRefers
  <2> QED
    BY <1>4, <2>1 DEF ConfirmTx, TypeOK
<1> QED
  BY <1>1, <1>2, <1>3, <1>4
  DEF Next, rows, CreatePickupSchedule, UpdateWrite, PublishWrite, UpdateRead, PublishRead,
      BookRead, CancelBookingRead, CancelScheduleRead, CancelScheduleList, ConfirmRead, Fail

LEMMA NextRefersToRows ==
    ASSUME TypeOK, RefersToRows, Next
    PROVE  RefersToRows'
<1>1. ASSUME NEW b \in Bookings
      PROVE  /\ booking'[b].status = "absent" <=> booking'[b].sched = None
             /\ booking'[b].sched # None => schedule'[booking'[b].sched].status # "absent"
  <2>1. CASE booking[b].status # "absent"
    <3>1. booking[b].sched \in Schedules /\ schedule[booking[b].sched].status # "absent"
      BY <2>1 DEF RefersToRows, TypeOK, BookingRow
    <3>2. booking'[b].status # "absent" /\ booking'[b].sched = booking[b].sched
      BY <2>1, RowsPersist
    <3> QED
      BY <3>1, <3>2, RowsPersist, PickupAssumption
  <2>2. CASE booking[b].status = "absent"
    <3>1. CASE booking'[b] = booking[b]
      BY <2>2, <3>1, PickupAssumption DEF RefersToRows, TypeOK, BookingRow
    <3>2. ASSUME booking'[b] # booking[b]
          PROVE  \E r \in Requests : BookTx(r, b)
      BY <2>2, <3>2, OnlyBookTxCreates
    <3>3. ASSUME NEW r \in Requests, BookTx(r, b)
          PROVE  /\ booking'[b].status = "confirmed"
                 /\ booking'[b].sched \in Schedules
                 /\ schedule[booking'[b].sched].status # "absent"
      BY <3>3 DEF BookTx, TypeOK, Request, RefersToRows, RequestRefers
    <3> QED
      BY <3>1, <3>2, <3>3, RowsPersist, PickupAssumption
  <2> QED
    BY <2>1, <2>2
<1>2. ASSUME NEW r \in Requests, request'[r] = request[r]
      PROVE  RequestRefers(r)'
  <2>1. RequestRefers(r) /\ request[r] \in Request
    BY DEF RefersToRows, RequestRefers, TypeOK
  <2>2. \A s \in Schedules : BookingsOf(s) \subseteq BookingsOf(s)'
    BY RowsPersist, PickupAssumption DEF BookingsOf, RefersToRows
  <2> QED
    BY <1>2, <2>1, <2>2, RowsPersist DEF RequestRefers, Request
<1>3. ASSUME NEW r \in Requests, request'[r] = Idle
      PROVE  RequestRefers(r)'
  BY <1>3 DEF RequestRefers, Idle
<1>4. ASSUME NEW r \in Requests, request'[r] # request[r], request'[r] # Idle
      PROVE  RequestRefers(r)'
  <2>1. \/ \E s \in Schedules, n \in Capacities : UpdateRead(r, s, n)
        \/ \E s \in Schedules, q \in Quantity : BookRead(r, s, q)
        \/ \E s \in Schedules : PublishRead(r, s) \/ CancelScheduleRead(r, s)
        \/ \E b \in Bookings : CancelBookingRead(r, b) \/ ConfirmRead(r, b)
        \/ CancelScheduleList(r)
    <3>1. \A o \in Requests : ~Finish(o)
      BY <1>4 DEF Finish, TypeOK
    <3>2. \A o \in Requests : \A req : Begin(o, req) => o = r
      BY <1>4 DEF Begin, TypeOK
    <3>3. \A o \in Requests : CancelScheduleList(o) => o = r
      BY <1>4 DEF CancelScheduleList, TypeOK
    <3>4. request' # request
      BY <1>4
    <3> QED
      BY <3>1, <3>2, <3>3, <3>4
      DEF Next, CreatePickupSchedule, UpdateWrite, PublishWrite, BookTx,
          CancelBookingTx, CancelScheduleTx, ConfirmTx, UpdateRead, PublishRead, BookRead,
          CancelBookingRead, CancelScheduleRead, ConfirmRead, Fail
  <2>2. ASSUME NEW s \in Schedules,
               \/ \E n \in Capacities : UpdateRead(r, s, n)
               \/ \E q \in Quantity : BookRead(r, s, q)
               \/ PublishRead(r, s)
               \/ CancelScheduleRead(r, s)
        PROVE  RequestRefers(r)'
    BY <2>2 DEF UpdateRead, BookRead, PublishRead, CancelScheduleRead, Begin, rows, TypeOK,
                RequestRefers
  <2>3. ASSUME NEW b \in Bookings, CancelBookingRead(r, b) \/ ConfirmRead(r, b)
        PROVE  RequestRefers(r)'
    BY <2>3 DEF CancelBookingRead, ConfirmRead, Begin, rows, TypeOK, RequestRefers
  <2>4. ASSUME CancelScheduleList(r)
        PROVE  RequestRefers(r)'
    BY <2>4 DEF CancelScheduleList, rows, TypeOK, RequestRefers, RefersToRows, BookingsOf
  <2> QED
    BY <2>1, <2>2, <2>3, <2>4
<1> QED
  BY <1>1, <1>2, <1>3, <1>4 DEF RefersToRows

-----------------------------------------------------------------------------
(***************************************************************************)
(* The capacity counters.                                                  *)
(***************************************************************************)

\* The capacity part of the inductive invariant.
CapacityCount ==
    /\ SlotsConserved
    /\ CapacityConserved
    /\ \A s \in Schedules : schedule[s].used <= schedule[s].total

\* The sets the sums range over are finite, and their weights are numbers.
LEMMA HeldType ==
    ASSUME TypeOK, NEW s \in Schedules
    PROVE  /\ IsFiniteSet(Held(s))
           /\ Held(s) \subseteq Bookings
           /\ Load(Held(s), Qty) \in Nat
           /\ \A b \in Bookings : Qty[b] = booking[b].qty /\ Qty[b] \in Quantity
<1>1. Held(s) \in SUBSET Bookings
  BY DEF Held, BookingsOf
<1>2. IsFiniteSet(Held(s))
  BY <1>1, FS_Subset, PickupAssumption
<1> QED
  BY <1>1, <1>2, LoadType DEF Qty, TypeOK, BookingRow

\* A step that leaves schedule, quantity and release of every booking alone
\* leaves the sums alone.
LEMMA SameHeld ==
    ASSUME \A b \in Bookings : /\ booking'[b].sched = booking[b].sched
                               /\ booking'[b].qty = booking[b].qty
                               /\ booking'[b].released = booking[b].released
    PROVE  /\ \A s \in Schedules : Held(s)' = Held(s) /\ Load(Held(s), Qty)' = Load(Held(s), Qty)
           /\ Qty' = Qty
<1>1. Qty' = Qty
  BY DEF Qty
<1>2. \A s \in Schedules : Held(s)' = Held(s)
  BY DEF Held, BookingsOf
<1> QED
  BY <1>1, <1>2

LEMMA BookTxCapacity ==
    ASSUME CapacityInv, NEW r \in Requests, NEW b \in Bookings, BookTx(r, b),
           NEW s \in Schedules, s = request[r].sched,
           NEW q \in Quantity, q = request[r].qty
    PROVE  /\ CapacityCount'
           /\ b \notin Held(s) /\ Held(s)' = Held(s) \cup {b}
           /\ \A o \in Schedules \ {s} : Held(o)' = Held(o)
           /\ Qty' = [Qty EXCEPT ![b] = q]
<1>2. booking[b].sched = None
  BY DEF CapacityInv, RefersToRows, BookTx
<1>3. booking' = [booking EXCEPT ![b] = [status |-> "confirmed", sched |-> s, qty |-> q,
                                        released |-> FALSE, confirmed |-> FALSE, batch |-> None]]
  BY DEF BookTx
<1>a. TypeOK /\ booking \in [Bookings -> BookingRow]
  BY DEF CapacityInv, TypeOK
<1>b. /\ booking'[b].sched = s /\ booking'[b].qty = q /\ booking'[b].released = FALSE
      /\ \A o \in Bookings \ {b} : booking'[o] = booking[o]
  BY <1>3, <1>a
<1>4. Held(s)' = Held(s) \cup {b} /\ b \notin Held(s)
  BY <1>2, <1>b, PickupAssumption DEF Held, BookingsOf
<1>5. \A o \in Schedules \ {s} : Held(o)' = Held(o) /\ b \notin Held(o)
  BY <1>2, <1>b, PickupAssumption DEF Held, BookingsOf
<1>6. Qty'[b] = q /\ \A o \in Bookings \ {b} : Qty'[o] = Qty[o]
  BY <1>b DEF Qty
<1>7. Load(Held(s), Qty)' = Load(Held(s), Qty) + q
  <2>1. Load(Held(s) \cup {b}, Qty') = Load(Held(s), Qty') + q
    <3>1. IsFiniteSet(Held(s)) /\ b \notin Held(s) /\ Qty'[b] \in Quantity
      BY <1>4, <1>6, <1>a, HeldType
    <3> QED
      BY <3>1, <1>6, LoadAdd
  <2>2. Load(Held(s), Qty') = Load(Held(s), Qty)
    BY <1>4, <1>6, HeldType, LoadSame DEF CapacityInv
  <2> QED
    BY <1>4, <2>1, <2>2
<1>8. \A o \in Schedules \ {s} : Load(Held(o), Qty)' = Load(Held(o), Qty)
  BY <1>5, <1>6, HeldType, LoadSame DEF CapacityInv
<1>9. schedule' = [schedule EXCEPT ![s].used = @ + q] /\ schedule[s].used + q <= schedule[s].total
  BY DEF BookTx, ScheduleCheck
<1>10. CapacityConserved'
  <2>1. schedule'[s].used = schedule[s].used + q
    BY <1>9, <1>a DEF TypeOK, ScheduleRow
  <2>2. \A o \in Schedules \ {s} : schedule'[o].used = schedule[o].used
    BY <1>9, <1>a DEF TypeOK, ScheduleRow
  <2>3. CapacityConserved
    BY DEF CapacityInv
  <2> QED
    BY <1>7, <1>8, <2>1, <2>2, <2>3 DEF CapacityConserved
<1>11. SlotsConserved'
  <2>1. slotUsed' = [slotUsed EXCEPT ![b] = q] /\ slotUsed \in [Bookings -> Quantity]
    BY <1>a DEF BookTx, TypeOK
  <2>2. SlotsConserved
    BY DEF CapacityInv
  <2> QED
    BY <1>b, <2>1, <2>2 DEF SlotsConserved
<1>12. \A o \in Schedules : schedule'[o].used <= schedule'[o].total
  BY <1>9 DEF CapacityInv, TypeOK, ScheduleRow
<1>13. Qty' = [Qty EXCEPT ![b] = q]
  BY <1>6 DEF Qty
<1> QED
  BY <1>4, <1>5, <1>10, <1>11, <1>12, <1>13 DEF CapacityCount

LEMMA CancelBookingTxCapacity ==
    ASSUME CapacityInv, NEW r \in Requests, CancelBookingTx(r),
           NEW b \in Bookings, b = request[r].booking,
           NEW s \in Schedules, s = booking[b].sched,
           NEW q \in Quantity, q = booking[b].qty
    PROVE  /\ CapacityCount'
           /\ b \in Held(s) /\ Held(s)' = Held(s) \ {b}
           /\ \A o \in Schedules \ {s} : Held(o)' = Held(o)
           /\ Qty' = Qty
<1>1. slotUsed[b] \in Quantity
  BY DEF CapacityInv, TypeOK
\* The slot row refuses a second release.
<1>3. ~booking[b].released
  <2>1. q > 0 /\ slotUsed[b] - q >= 0
    BY DEF CancelBookingTx, SlotCheck
  <2>2. booking[b].released => slotUsed[b] = 0
    BY <1>1 DEF CapacityInv, SlotsConserved
  <2> QED
    BY <1>1, <2>1, <2>2 DEF Quantity
<1>4. booking' = [booking EXCEPT ![b].status = "cancelled", ![b].released = TRUE]
  BY DEF CancelBookingTx
<1>5. Qty' = Qty
  BY <1>4 DEF Qty, CapacityInv, TypeOK, BookingRow
<1>6. Held(s)' = Held(s) \ {b} /\ b \in Held(s)
  BY <1>1, <1>3, <1>4 DEF Held, BookingsOf, CapacityInv, TypeOK, BookingRow
<1>7. \A o \in Schedules \ {s} : Held(o)' = Held(o)
  BY <1>1, <1>4 DEF Held, BookingsOf, CapacityInv, TypeOK, BookingRow
<1>8. Load(Held(s), Qty)' = Load(Held(s), Qty) - q
  <2>1. Load(Held(s) \ {b}, Qty) = Load(Held(s), Qty) - Load({b}, Qty)
    BY <1>6, HeldType, LoadDifference DEF CapacityInv
  <2>2. Load({b}, Qty) = q
    BY <1>1, HeldType, LoadSingle DEF CapacityInv
  <2> QED
    BY <1>5, <1>6, <2>1, <2>2
<1>9. schedule' = [schedule EXCEPT ![s].used = @ - q]
  BY DEF CancelBookingTx
<1>10. CapacityConserved'
  <2>1. /\ schedule'[s].used = schedule[s].used - q
        /\ \A o \in Schedules \ {s} : schedule'[o].used = schedule[o].used
    BY <1>9 DEF CapacityInv, TypeOK, ScheduleRow
  <2>2. CapacityConserved
    BY DEF CapacityInv
  <2> QED
    BY <1>5, <1>7, <1>8, <2>1, <2>2 DEF CapacityConserved
<1>11. SlotsConserved'
  <2>1. slotUsed' = [slotUsed EXCEPT ![b] = @ - q] /\ slotUsed \in [Bookings -> Quantity]
    BY DEF CancelBookingTx, CapacityInv, TypeOK
  <2>2. SlotsConserved /\ booking \in [Bookings -> BookingRow]
    BY DEF CapacityInv, TypeOK
  <2>3. slotUsed[b] - q = 0
    BY <1>1, <1>3, <2>2 DEF SlotsConserved, Quantity
  <2>4. /\ booking'[b].released /\ booking'[b].qty = q
        /\ \A o \in Bookings \ {b} : booking'[o] = booking[o]
    BY <1>1, <1>4, <2>2 DEF BookingRow
  <2> QED
    BY <1>1, <2>1, <2>2, <2>3, <2>4 DEF SlotsConserved
<1>12. \A o \in Schedules : schedule'[o].used <= schedule'[o].total
  BY <1>1, <1>9 DEF CapacityInv, TypeOK, ScheduleRow, Quantity
<1> QED
  BY <1>5, <1>6, <1>7, <1>10, <1>11, <1>12 DEF CapacityCount

LEMMA CancelScheduleTxCapacity ==
    ASSUME CapacityInv, NEW r \in Requests, CancelScheduleTx(r),
           NEW s \in Schedules, s = request[r].sched,
           NEW seen \in SUBSET Bookings, seen = request[r].seen
    PROVE  /\ CapacityCount'
           /\ seen \subseteq Held(s) /\ Held(s)' = Held(s) \ seen /\ Qty' = Qty
           /\ \A o \in Schedules \ {s} : Held(o)' = Held(o)
<1>1. /\ TypeOK /\ SlotsConserved /\ CapacityConserved
      /\ \A b \in Bookings : booking[b].qty \in Quantity /\ slotUsed[b] \in Quantity
  BY DEF CapacityInv, TypeOK, BookingRow
<1>2. seen \subseteq BookingsOf(s)
  BY DEF CapacityInv, RefersToRows, RequestRefers, CancelScheduleTx
<1>3. /\ \A b \in seen : booking[b].qty > 0 /\ slotUsed[b] - booking[b].qty >= 0
      /\ schedule[s].used - Load(seen, Qty) <= schedule[s].total
  BY DEF CancelScheduleTx, CancelScheduleFits, SlotCheck, ScheduleCheck
\* A booking that was already released would drive its slot below zero.
<1>4. \A b \in seen : ~booking[b].released
  BY <1>1, <1>3 DEF SlotsConserved, Quantity
<1>5. \A b \in Bookings : /\ booking'[b].sched = booking[b].sched
                          /\ booking'[b].qty = booking[b].qty
                          /\ booking'[b].released = (booking[b].released \/ b \in seen)
  <2>1. booking \in [Bookings -> BookingRow]
    BY <1>1 DEF TypeOK
  <2>2. \A b \in Bookings :
           booking'[b] = IF b \in seen
                         THEN [booking[b] EXCEPT !.status = "cancelled", !.released = TRUE]
                         ELSE booking[b]
    BY DEF CancelScheduleTx
  <2> QED
    BY <2>1, <2>2 DEF BookingRow
<1>6. seen \subseteq Held(s)
  BY <1>2, <1>4 DEF Held
<1>7. Held(s)' = Held(s) \ seen
  BY <1>5 DEF Held, BookingsOf
<1>8. \A o \in Schedules \ {s} : Held(o)' = Held(o)
  BY <1>2, <1>5 DEF Held, BookingsOf
<1>9. Qty' = Qty
  BY <1>5 DEF Qty
<1>10. Load(Held(s), Qty)' = Load(Held(s), Qty) - Load(seen, Qty)
  BY <1>1, <1>6, <1>7, <1>9, HeldType, LoadDifference
<1>11. /\ schedule'[s].used = schedule[s].used - Load(seen, Qty)
       /\ schedule'[s].total = schedule[s].total
       /\ \A o \in Schedules \ {s} : schedule'[o] = schedule[o]
  BY <1>1 DEF CancelScheduleTx, TypeOK, ScheduleRow
<1>12. CapacityConserved'
  BY <1>1, <1>8, <1>9, <1>10, <1>11 DEF CapacityConserved
<1>13. SlotsConserved'
  <2>1. \A b \in Bookings :
           slotUsed'[b] = IF b \in seen THEN slotUsed[b] - booking[b].qty ELSE slotUsed[b]
    BY DEF CancelScheduleTx
  <2>2. \A b \in seen : slotUsed[b] - booking[b].qty = 0
    BY <1>1, <1>4 DEF SlotsConserved, Quantity
  <2> QED
    BY <1>1, <1>5, <2>1, <2>2 DEF SlotsConserved
<1>14. \A o \in Schedules : schedule'[o].used <= schedule'[o].total
  BY <1>3, <1>11 DEF CapacityInv
<1> QED
  BY <1>6, <1>7, <1>8, <1>9, <1>12, <1>13, <1>14 DEF CapacityCount

\* A step that leaves the occupation of every booking and the counters alone.
LEMMA SameCapacity ==
    ASSUME CapacityInv, UNCHANGED slotUsed,
           \A b \in Bookings : /\ booking'[b].sched = booking[b].sched
                               /\ booking'[b].qty = booking[b].qty
                               /\ booking'[b].released = booking[b].released,
           \A s \in Schedules : /\ schedule'[s].used = schedule[s].used
                                /\ schedule'[s].used <= schedule'[s].total
    PROVE  CapacityCount'
<1>1. CapacityConserved'
  BY SameHeld DEF CapacityInv, CapacityConserved
<1>2. SlotsConserved'
  BY DEF CapacityInv, SlotsConserved
<1> QED
  BY <1>1, <1>2 DEF CapacityCount

LEMMA NextCapacity ==
    ASSUME CapacityInv, Next
    PROVE  CapacityCount'
<1> USE DEF CapacityInv
<1>1. ASSUME NEW s \in Schedules, NEW n \in Capacities, CreatePickupSchedule(s, n)
      PROVE  CapacityCount'
  <2>1. Held(s) = {}
    BY <1>1, PickupAssumption DEF CreatePickupSchedule, RefersToRows, Held, BookingsOf, TypeOK
  <2>2. schedule[s].used = 0
    BY <2>1, LoadEmpty DEF CapacityConserved
  <2> QED
    BY <1>1, <2>2, SameCapacity DEF CreatePickupSchedule, TypeOK, Capacities
<1>2. ASSUME NEW r \in Requests, UpdateWrite(r)
      PROVE  CapacityCount'
  <2>1. \A s \in Schedules : /\ schedule'[s].used = schedule[s].used
                             /\ schedule'[s].used <= schedule'[s].total
    BY <1>2 DEF UpdateWrite, ScheduleCheck, TypeOK, ScheduleRow
  <2> QED
    BY <1>2, <2>1, SameCapacity DEF UpdateWrite
<1>3. ASSUME NEW r \in Requests, PublishWrite(r)
      PROVE  CapacityCount'
  <2>1. \A s \in Schedules : /\ schedule'[s].used = schedule[s].used
                             /\ schedule'[s].total = schedule[s].total
    BY <1>3 DEF PublishWrite, TypeOK, ScheduleRow
  <2> QED
    BY <1>3, <2>1, SameCapacity DEF PublishWrite
<1>4. ASSUME NEW r \in Requests, NEW b \in Bookings, BookTx(r, b)
      PROVE  CapacityCount'
  <2>1. request[r].sched \in Schedules /\ request[r].qty \in Quantity
    BY <1>4 DEF BookTx, TypeOK, Request
  <2> QED
    BY <1>4, <2>1, BookTxCapacity
<1>5. ASSUME NEW r \in Requests, CancelBookingTx(r)
      PROVE  CapacityCount'
  <2>1. request[r].booking \in Bookings
    BY <1>5 DEF CancelBookingTx, TypeOK, Request
  <2>2. /\ booking[request[r].booking].sched \in Schedules
        /\ booking[request[r].booking].qty \in Quantity
    BY <1>5, <2>1 DEF CancelBookingTx, RefersToRows, RequestRefers, TypeOK, BookingRow
  <2> QED
    BY <1>5, <2>1, <2>2, CancelBookingTxCapacity
<1>6. ASSUME NEW r \in Requests, CancelScheduleTx(r)
      PROVE  CapacityCount'
  <2>1. request[r].sched \in Schedules /\ request[r].seen \in SUBSET Bookings
    BY <1>6 DEF CancelScheduleTx, TypeOK, Request
  <2> QED
    BY <1>6, <2>1, CancelScheduleTxCapacity
<1>7. ASSUME NEW r \in Requests, NEW t \in Batches, ConfirmTx(r, t)
      PROVE  CapacityCount'
  <2>1. \A b \in Bookings : /\ booking'[b].sched = booking[b].sched
                            /\ booking'[b].qty = booking[b].qty
                            /\ booking'[b].released = booking[b].released
    BY <1>7 DEF ConfirmTx, TypeOK, BookingRow
  <2> QED
    BY <1>7, <2>1, SameCapacity DEF ConfirmTx
<1>8. ASSUME UNCHANGED rows
      PROVE  CapacityCount'
  BY <1>8, SameCapacity DEF rows
<1> QED
  BY <1>1, <1>2, <1>3, <1>4, <1>5, <1>6, <1>7, <1>8
  DEF Next, UpdateRead, PublishRead, BookRead, CancelBookingRead, CancelScheduleRead,
      CancelScheduleList, ConfirmRead, Fail

\* The counters of schedules and slots always agree with the bookings: the
\* inductive invariant of the component.
THEOREM CapacityIsInvariant == Spec => []CapacityInv
<1>1. Init => CapacityInv
  <2>1. ASSUME Init
        PROVE  /\ RefersToRows /\ SlotsConserved
               /\ \A s \in Schedules : schedule[s].used <= schedule[s].total
    BY <2>1, PickupAssumption
    DEF Init, Idle, RefersToRows, RequestRefers, SlotsConserved, BookingsOf
  <2>2. ASSUME Init, NEW s \in Schedules
        PROVE  schedule[s].used = Load(Held(s), Qty)
    <3>1. Held(s) = {}
      BY <2>2, PickupAssumption DEF Init, Held, BookingsOf
    <3> QED
      BY <2>2, <3>1, LoadEmpty DEF Init
  <2> QED
    BY <2>1, <2>2, InitTypeOK DEF CapacityInv, CapacityConserved
<1>2. CapacityInv /\ [Next]_vars => CapacityInv'
  <2>1. ASSUME CapacityInv, Next
        PROVE  CapacityInv'
    BY <2>1, NextTypeOK, NextRefersToRows, NextCapacity DEF CapacityInv, CapacityCount
  <2>2. ASSUME CapacityInv, UNCHANGED vars
        PROVE  CapacityInv'
    <3>1. CapacityCount'
      BY <2>2, SameCapacity DEF vars, CapacityInv
    <3>2. TypeOK' /\ RefersToRows'
      BY <2>2 DEF CapacityInv, vars, TypeOK, RefersToRows, RequestRefers, BookingsOf
    <3> QED
      BY <3>1, <3>2 DEF CapacityInv, CapacityCount
  <2> QED
    BY <2>1, <2>2
<1> QED
  BY <1>1, <1>2, PTL DEF Spec

\* No interleaving of bookings, cancellations and capacity updates overbooks a
\* schedule.
THEOREM NeverOverbooked == Spec => []NoOverbooking
<1>1. CapacityInv => NoOverbooking
  BY DEF CapacityInv, CapacityConserved, NoOverbooking
<1> QED
  BY <1>1, CapacityIsInvariant, PTL

-----------------------------------------------------------------------------
(***************************************************************************)
(* Receipts.                                                               *)
(***************************************************************************)

\* What confirmPickup wrote is only ever touched by confirmPickup.
LEMMA ConfirmedKept ==
    ASSUME TypeOK, RefersToRows, ReceiptInv, Next, NEW b \in Bookings,
           ~ \E r \in Requests, t \in Batches : ConfirmTx(r, t)
    PROVE  /\ booking'[b].confirmed = booking[b].confirmed
           /\ b \in Confirmed => booking'[b].batch = booking[b].batch
<1>1. ASSUME NEW r \in Requests, NEW o \in Bookings, BookTx(r, o)
      PROVE  /\ booking'[b].confirmed = booking[b].confirmed
             /\ b \in Confirmed => booking'[b].batch = booking[b].batch
  <2>1. CASE o # b
    BY <1>1, <2>1 DEF BookTx, TypeOK
  <2>2. CASE o = b
    <3>1. ~booking[b].confirmed
      BY <1>1, <2>2 DEF BookTx, ReceiptInv, Confirmed
    <3> QED
      BY <1>1, <2>2, <3>1 DEF BookTx, TypeOK, Confirmed, BookingRow
  <2> QED
    BY <2>1, <2>2
<1>2. ASSUME NEW r \in Requests, CancelBookingTx(r)
      PROVE  /\ booking'[b].confirmed = booking[b].confirmed
             /\ booking'[b].batch = booking[b].batch
  <2>1. request[r].booking \in Bookings
    BY <1>2 DEF CancelBookingTx, TypeOK, Request
  <2> QED
    BY <1>2, <2>1 DEF CancelBookingTx, TypeOK, BookingRow
<1>3. ASSUME NEW r \in Requests, CancelScheduleTx(r)
      PROVE  /\ booking'[b].confirmed = booking[b].confirmed
             /\ booking'[b].batch = booking[b].batch
  BY <1>3 DEF CancelScheduleTx, TypeOK, BookingRow
<1> QED
  BY <1>1, <1>2, <1>3
  DEF Next, rows, CreatePickupSchedule, UpdateWrite, PublishWrite, UpdateRead, PublishRead,
      BookRead, CancelBookingRead, CancelScheduleRead, CancelScheduleList, ConfirmRead, Fail

LEMMA NextReceiptInv ==
    ASSUME TypeOK, RefersToRows, ReceiptInv, Next
    PROVE  /\ ReceiptInv'
           /\ \A b \in Confirmed :
                 /\ b \in Confirmed'
                 /\ booking'[b].batch = booking[b].batch
                 /\ stockIn'[booking[b].batch] = stockIn[booking[b].batch]
<1>1. CASE ~ \E r \in Requests, t \in Batches : ConfirmTx(r, t)
  <2>1. UNCHANGED <<receipts, stockIn>>
    BY <1>1
    DEF Next, rows, CreatePickupSchedule, UpdateWrite, PublishWrite, BookTx, CancelBookingTx,
        CancelScheduleTx, UpdateRead, PublishRead, BookRead, CancelBookingRead,
        CancelScheduleRead, CancelScheduleList, ConfirmRead, Fail
  <2>2. Confirmed' = Confirmed /\ \A b \in Confirmed : booking'[b].batch = booking[b].batch
    BY <1>1, ConfirmedKept DEF Confirmed
  <2>3. \A b \in Confirmed : booking'[b].status # "absent"
    BY RowsPersist DEF ReceiptInv, Confirmed
  <2> QED
    BY <2>1, <2>2, <2>3 DEF ReceiptInv, OneReceiptPerPickup
<1>2. ASSUME NEW r \in Requests, NEW t \in Batches, ConfirmTx(r, t),
             NEW b \in Bookings, b = request[r].booking
      PROVE  /\ ReceiptInv'
             /\ \A o \in Confirmed :
                   /\ o \in Confirmed'
                   /\ booking'[o].batch = booking[o].batch
                   /\ stockIn'[booking[o].batch] = stockIn[booking[o].batch]
  <2>1. /\ booking'[b].confirmed /\ booking'[b].batch = t /\ booking'[b].status = "picked_up"
        /\ \A o \in Bookings \ {b} : booking'[o] = booking[o]
    BY <1>2 DEF ConfirmTx, TypeOK, BookingRow
  <2>2. receipts' = receipts \cup {[booking |-> b, batch |-> t]}
    BY <1>2 DEF ConfirmTx
  <2>3. /\ stockIn'[t] = stockIn[t] + 1
        /\ \A u \in Batches \ {t} : stockIn'[u] = stockIn[u]
    BY <1>2 DEF ConfirmTx, TypeOK
  \* The unique columns refuse a pickup or a batch that has a receipt.
  <2>4. b \notin Confirmed /\ \A o \in Confirmed : booking[o].batch # t
    <3>1. \A c \in receipts : c.booking # b /\ c.batch # t
      BY <1>2 DEF ConfirmTx, ReceiptIsUnique
    <3>2. \A o \in Confirmed : [booking |-> o, batch |-> booking[o].batch] \in receipts
      BY DEF ReceiptInv, OneReceiptPerPickup
    <3>3. ASSUME NEW o \in Confirmed
          PROVE  o # b /\ booking[o].batch # t
      <4>1. PICK c \in receipts : c = [booking |-> o, batch |-> booking[o].batch]
        BY <3>2, <3>3
      <4>2. c.booking = o /\ c.batch = booking[o].batch
        BY <4>1
      <4> QED
        BY <3>1, <4>2
    <3> QED
      BY <3>3
  <2>5. Confirmed' = Confirmed \cup {b}
    BY <2>1 DEF Confirmed
  <2>6. \A o \in Confirmed : booking'[o] = booking[o]
    BY <2>1, <2>4 DEF Confirmed
  <2>7. receipts' = {[booking |-> o, batch |-> booking'[o].batch] : o \in Confirmed'}
    BY <2>1, <2>2, <2>5, <2>6 DEF ReceiptInv, OneReceiptPerPickup
  <2>8. \A c, o \in Confirmed' : booking'[c].batch = booking'[o].batch => c = o
    BY <2>1, <2>4, <2>5, <2>6 DEF ReceiptInv, OneReceiptPerPickup
  <2>9. stockIn[t] = 0
    BY <2>4 DEF ReceiptInv, OneReceiptPerPickup
  <2>10. \A u \in Batches :
            stockIn'[u] = IF \E o \in Confirmed' : booking'[o].batch = u THEN 1 ELSE 0
    BY <2>1, <2>3, <2>5, <2>6, <2>9 DEF ReceiptInv, OneReceiptPerPickup
  <2>11. \A o \in Confirmed' : booking'[o].status # "absent" /\ booking'[o].batch \in Batches
    BY <1>2, <2>1, <2>5, <2>6 DEF ReceiptInv
  <2> QED
    BY <2>3, <2>4, <2>5, <2>6, <2>7, <2>8, <2>10, <2>11 DEF ReceiptInv, OneReceiptPerPickup
<1>3. \A r \in Requests, t \in Batches : ConfirmTx(r, t) => request[r].booking \in Bookings
  BY DEF ConfirmTx, TypeOK, Request
<1> QED
  BY <1>1, <1>2, <1>3

\* Receipts, confirmed bookings and stock-in rows correspond one to one.
THEOREM OneReceipt == Spec => []OneReceiptPerPickup
<1>1. Init => ReceiptInv
  BY DEF Init, ReceiptInv, OneReceiptPerPickup, Confirmed
<1>2. CapacityInv /\ ReceiptInv /\ [Next]_vars => ReceiptInv'
  <2>1. ReceiptInv /\ UNCHANGED vars => ReceiptInv'
    BY DEF vars, ReceiptInv, OneReceiptPerPickup, Confirmed
  <2> QED
    BY <2>1, NextReceiptInv DEF CapacityInv
<1>3. ReceiptInv => OneReceiptPerPickup
  BY DEF ReceiptInv
<1> QED
  BY <1>1, <1>2, <1>3, CapacityIsInvariant, PTL DEF Spec

\* No later request undoes a confirmed pickup.
THEOREM PickupStays == Spec => PickupIsFinal
<1>1. Init => ReceiptInv
  BY DEF Init, ReceiptInv, OneReceiptPerPickup, Confirmed
<1>2. CapacityInv /\ ReceiptInv /\ [Next]_vars => ReceiptInv'
  <2>1. ReceiptInv /\ UNCHANGED vars => ReceiptInv'
    BY DEF vars, ReceiptInv, OneReceiptPerPickup, Confirmed
  <2> QED
    BY <2>1, NextReceiptInv DEF CapacityInv
<1>3. CapacityInv /\ ReceiptInv /\ [Next]_vars =>
        [\A b \in Confirmed :
            /\ b \in Confirmed'
            /\ booking'[b].batch = booking[b].batch
            /\ stockIn'[booking[b].batch] = stockIn[booking[b].batch]]_vars
  BY NextReceiptInv DEF CapacityInv
<1> QED
  BY <1>1, <1>2, <1>3, CapacityIsInvariant, PTL DEF Spec, PickupIsFinal

-----------------------------------------------------------------------------
(***************************************************************************)
(* The booking code implements the capacity ledger.                        *)
(***************************************************************************)

LEMMA SameLoad == \A S, q : Ledger!Load(S, q) = Load(S, q)
  BY DEF Ledger!Load, Ledger!Kilos, Load, Kilos, Ledger!Cardinality, Cardinality

\* A step that leaves the bookings' occupation alone and resizes at most s.
LEMMA Resizes ==
    ASSUME CapacityInv, CapacityInv', NEW s \in Schedules, NEW n \in Capacities,
           schedule'[s].total = n,
           \A o \in Schedules \ {s} : schedule'[o].total = schedule[o].total,
           UNCHANGED booking
    PROVE  Ledger!SetLimit(s, n)
<1>1. /\ Qty' = Qty
      /\ \A o \in Schedules : Held(o)' = Held(o) /\ Load(Held(o), Qty)' = Load(Held(o), Qty)
  BY SameHeld
<1>2. Load(Held(s), Qty) <= n
  BY <1>1 DEF CapacityInv, CapacityConserved
<1>3. Ledger!Load(Held(s), Qty) <= n
  BY <1>2, SameLoad
<1>4. [o \in Schedules |-> schedule'[o].total]
        = [[o \in Schedules |-> schedule[o].total] EXCEPT ![s] = n]
  OBVIOUS
<1>5. [o \in Schedules |-> Held(o)]' = [o \in Schedules |-> Held(o)]
  BY <1>1
<1>6. {b \in Bookings : booking[b].status # "absent"}' = {b \in Bookings : booking[b].status # "absent"}
  OBVIOUS
<1> QED
  BY <1>1, <1>3, <1>4, <1>5, <1>6 DEF Ledger!SetLimit

LEMMA BookTxAdmits ==
    ASSUME CapacityInv, NEW r \in Requests, NEW b \in Bookings, BookTx(r, b),
           NEW s \in Schedules, s = request[r].sched,
           NEW q \in Quantity, q = request[r].qty
    PROVE  Ledger!Admit(s, b, q)
<1>1. /\ booking[b].status = "absent"
      /\ schedule[s].used + q <= schedule[s].total
      /\ schedule' = [schedule EXCEPT ![s].used = @ + q]
      /\ booking'[b].status = "confirmed"
      /\ \A o \in Bookings \ {b} : booking'[o] = booking[o]
  BY DEF BookTx, ScheduleCheck, CapacityInv, TypeOK
<1>2. Ledger!Load(Held(s), Qty) + q <= schedule[s].total
  BY <1>1, SameLoad DEF CapacityInv, CapacityConserved
<1>3. [o \in Schedules |-> Held(o)]'
        = [[o \in Schedules |-> Held(o)] EXCEPT ![s] = @ \cup {b}]
  BY BookTxCapacity
<1>4. Qty' = [Qty EXCEPT ![b] = q]
  BY BookTxCapacity
<1>5. {o \in Bookings : booking[o].status # "absent"}'
        = {o \in Bookings : booking[o].status # "absent"} \cup {b}
  BY <1>1
<1>6. [o \in Schedules |-> schedule[o].total]' = [o \in Schedules |-> schedule[o].total]
  BY <1>1 DEF CapacityInv, TypeOK, ScheduleRow
<1> QED
  BY <1>1, <1>2, <1>3, <1>4, <1>5, <1>6 DEF Ledger!Admit

\* A step that gives the capacity of the set S of bookings of s back.
LEMMA Releases ==
    ASSUME NEW s \in Schedules, NEW S \in SUBSET Held(s),
           Held(s)' = Held(s) \ S,
           \A o \in Schedules \ {s} : Held(o)' = Held(o),
           Qty' = Qty,
           \A o \in Schedules : schedule'[o].total = schedule[o].total,
           \A b \in Bookings : booking'[b].status = "absent" <=> booking[b].status = "absent"
    PROVE  Ledger!Release(s, S)
<1>1. [o \in Schedules |-> Held(o)]' = [[o \in Schedules |-> Held(o)] EXCEPT ![s] = @ \ S]
  OBVIOUS
<1>2. [o \in Schedules |-> schedule[o].total]' = [o \in Schedules |-> schedule[o].total]
  OBVIOUS
<1>3. {b \in Bookings : booking[b].status # "absent"}' = {b \in Bookings : booking[b].status # "absent"}
  OBVIOUS
<1> QED
  BY <1>1, <1>2, <1>3 DEF Ledger!Release

\* A step that changes neither totals nor the occupation of a booking.
LEMMA Stutters ==
    ASSUME \A s \in Schedules : schedule'[s].total = schedule[s].total,
           \A b \in Bookings : /\ booking'[b].sched = booking[b].sched
                               /\ booking'[b].qty = booking[b].qty
                               /\ booking'[b].released = booking[b].released
                               /\ booking'[b].status = "absent" <=> booking[b].status = "absent"
    PROVE  UNCHANGED Ledger!ledgerVars
<1>1. Qty' = Qty /\ \A s \in Schedules : Held(s)' = Held(s)
  BY SameHeld
<1>2. [o \in Schedules |-> Held(o)]' = [o \in Schedules |-> Held(o)]
  BY <1>1
<1>3. [o \in Schedules |-> schedule[o].total]' = [o \in Schedules |-> schedule[o].total]
  OBVIOUS
<1>4. {b \in Bookings : booking[b].status # "absent"}' = {b \in Bookings : booking[b].status # "absent"}
  OBVIOUS
<1> QED
  BY <1>1, <1>2, <1>3, <1>4 DEF Ledger!ledgerVars

LEMMA NextImplements ==
    ASSUME CapacityInv, CapacityInv', Next
    PROVE  [Ledger!LedgerNext]_(Ledger!ledgerVars)
<1>0. /\ TypeOK /\ RefersToRows
      /\ schedule \in [Schedules -> ScheduleRow] /\ booking \in [Bookings -> BookingRow]
  BY DEF CapacityInv, TypeOK
<1>1. ASSUME NEW s \in Schedules, NEW n \in Capacities, CreatePickupSchedule(s, n)
      PROVE  Ledger!LedgerNext
  <2>1. /\ schedule'[s].total = n
        /\ \A o \in Schedules \ {s} : schedule'[o].total = schedule[o].total
        /\ UNCHANGED booking
    BY <1>0, <1>1 DEF CreatePickupSchedule
  <2>2. Ledger!SetLimit(s, n)
    BY <2>1, Resizes
  <2> QED
    BY <2>2 DEF Ledger!LedgerNext
<1>2. ASSUME NEW r \in Requests, UpdateWrite(r)
      PROVE  Ledger!LedgerNext
  <2>1. PICK s \in Schedules, n \in Capacities : s = request[r].sched /\ n = request[r].total
    BY <1>0, <1>2 DEF UpdateWrite, TypeOK, Request
  <2>2. /\ schedule'[s].total = n
        /\ \A o \in Schedules \ {s} : schedule'[o].total = schedule[o].total
        /\ UNCHANGED booking
    BY <1>0, <1>2, <2>1 DEF UpdateWrite, ScheduleRow
  <2>3. Ledger!SetLimit(s, n)
    BY <2>2, Resizes
  <2> QED
    BY <2>3 DEF Ledger!LedgerNext
<1>3. ASSUME NEW r \in Requests, PublishWrite(r)
      PROVE  UNCHANGED Ledger!ledgerVars
  <2>1. \A s \in Schedules : schedule'[s].total = schedule[s].total
    BY <1>0, <1>3 DEF PublishWrite, ScheduleRow
  <2> QED
    BY <1>3, <2>1, Stutters DEF PublishWrite
<1>4. ASSUME NEW r \in Requests, NEW b \in Bookings, BookTx(r, b)
      PROVE  Ledger!LedgerNext
  <2>1. PICK s \in Schedules, q \in Quantity : s = request[r].sched /\ q = request[r].qty
    BY <1>0, <1>4 DEF BookTx, TypeOK, Request
  <2>2. Ledger!Admit(s, b, q)
    BY <1>4, <2>1, BookTxAdmits
  <2>3. q \in Ledger!Quantity
    BY DEF Ledger!Quantity, Quantity
  <2> QED
    BY <2>2, <2>3 DEF Ledger!LedgerNext
<1>5. ASSUME NEW r \in Requests, CancelBookingTx(r)
      PROVE  Ledger!LedgerNext
  <2>1. PICK b \in Bookings : b = request[r].booking
    BY <1>0, <1>5 DEF CancelBookingTx, TypeOK, Request
  <2>2. PICK s \in Schedules, q \in Quantity : s = booking[b].sched /\ q = booking[b].qty
    BY <1>0, <1>5, <2>1 DEF CancelBookingTx, RefersToRows, RequestRefers, BookingRow
  <2>3. /\ {b} \in SUBSET Held(s) /\ Held(s)' = Held(s) \ {b}
        /\ \A o \in Schedules \ {s} : Held(o)' = Held(o)
        /\ Qty' = Qty
    BY <1>5, <2>1, <2>2, CancelBookingTxCapacity
  <2>4. \A o \in Schedules : schedule'[o].total = schedule[o].total
    BY <1>0, <1>5, <2>1, <2>2 DEF CancelBookingTx, ScheduleRow
  <2>5. \A o \in Bookings : booking'[o].status = "absent" <=> booking[o].status = "absent"
    <3>1. booking' = [booking EXCEPT ![b].status = "cancelled", ![b].released = TRUE]
      BY <1>5, <2>1 DEF CancelBookingTx
    <3>2. booking[b].status # "absent"
      BY <1>0, <1>5, <2>1 DEF CancelBookingTx, RefersToRows, RequestRefers
    <3> QED
      BY <1>0, <3>1, <3>2 DEF BookingRow
  <2>6. Ledger!Release(s, {b})
    BY <2>3, <2>4, <2>5, Releases
  <2> QED
    BY <2>6 DEF Ledger!LedgerNext
<1>6. ASSUME NEW r \in Requests, CancelScheduleTx(r)
      PROVE  Ledger!LedgerNext
  <2>1. PICK s \in Schedules, seen \in SUBSET Bookings :
            s = request[r].sched /\ seen = request[r].seen
    BY <1>0, <1>6 DEF CancelScheduleTx, TypeOK, Request
  <2>2. /\ seen \in SUBSET Held(s) /\ Held(s)' = Held(s) \ seen
        /\ \A o \in Schedules \ {s} : Held(o)' = Held(o)
        /\ Qty' = Qty
    BY <1>6, <2>1, CancelScheduleTxCapacity
  <2>3. \A o \in Schedules : schedule'[o].total = schedule[o].total
    BY <1>0, <1>6, <2>1 DEF CancelScheduleTx, ScheduleRow
  <2>4. \A o \in Bookings : booking'[o].status = "absent" <=> booking[o].status = "absent"
    <3>1. \A o \in seen : booking[o].status # "absent"
      BY <1>0, <2>1, <1>6, PickupAssumption
      DEF CancelScheduleTx, RefersToRows, RequestRefers, BookingsOf
    <3>2. \A o \in Bookings : booking'[o] =
             IF o \in seen THEN [booking[o] EXCEPT !.status = "cancelled", !.released = TRUE]
             ELSE booking[o]
      BY <1>6, <2>1 DEF CancelScheduleTx
    <3> QED
      BY <1>0, <3>1, <3>2 DEF BookingRow
  <2>5. Ledger!Release(s, seen)
    BY <2>2, <2>3, <2>4, Releases
  <2> QED
    BY <2>5 DEF Ledger!LedgerNext
<1>7. ASSUME NEW r \in Requests, NEW t \in Batches, ConfirmTx(r, t)
      PROVE  UNCHANGED Ledger!ledgerVars
  <2>1. request[r].booking \in Bookings /\ booking[request[r].booking].status # "absent"
    BY <1>0, <1>7 DEF ConfirmTx, TypeOK, Request, RefersToRows, RequestRefers
  <2>2. \A b \in Bookings : /\ booking'[b].sched = booking[b].sched
                            /\ booking'[b].qty = booking[b].qty
                            /\ booking'[b].released = booking[b].released
                            /\ booking'[b].status = "absent" <=> booking[b].status = "absent"
    BY <1>0, <1>7, <2>1 DEF ConfirmTx, BookingRow
  <2> QED
    BY <1>7, <2>2, Stutters DEF ConfirmTx
<1>8. ASSUME UNCHANGED rows
      PROVE  UNCHANGED Ledger!ledgerVars
  BY <1>8, Stutters DEF rows
<1> QED
  BY <1>1, <1>2, <1>3, <1>4, <1>5, <1>6, <1>7, <1>8
  DEF Next, UpdateRead, PublishRead, BookRead, CancelBookingRead, CancelScheduleRead,
      CancelScheduleList, ConfirmRead, Fail

\* The handlers of schedules and bookings implement the capacity ledger: a
\* counter kept by uncoordinated increments behaves as the exact set of claims.
THEOREM Implements == Spec => ImplementsLedger
<1>1. Init => Ledger!LedgerInit
  <2> SUFFICES ASSUME Init PROVE Ledger!LedgerInit
    OBVIOUS
  <2>1. \A s \in Schedules : Held(s) = {}
    BY PickupAssumption DEF Init, Held, BookingsOf
  <2> QED
    BY <2>1 DEF Init, Qty, Ledger!LedgerInit
<1>2. CapacityInv /\ CapacityInv' /\ [Next]_vars => [Ledger!LedgerNext]_(Ledger!ledgerVars)
  <2>1. UNCHANGED vars => UNCHANGED Ledger!ledgerVars
    BY Stutters DEF vars
  <2> QED
    BY <2>1, NextImplements
<1> QED
  BY <1>1, <1>2, CapacityIsInvariant, PTL DEF Spec, ImplementsLedger, Ledger!LedgerSpec
=============================================================================
