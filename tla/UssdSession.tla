---------------------------- MODULE UssdSession ----------------------------
(***************************************************************************)
(* The USSD menu of one farmer's phone (ussd.service.ts).                  *)
(*                                                                         *)
(* The provider posts, with every key typed, the keys of the whole call.   *)
(* ussd-builder keeps no position: it walks from the start state along     *)
(* all keys, asking each state's next with what the session holds NOW,     *)
(* and runs only the state it ends in.  What a state shows can therefore   *)
(* be another state's screen (go, goStart, or a walk that has changed      *)
(* since), and the walk, not the screen, decides what a key means.         *)
(*                                                                         *)
(* The session is an in-memory record; menu.end drops it.  An action is    *)
(* one request: the run of the state that the walk ends in.  deed is what  *)
(* the request asked of the other services, which make their own checks    *)
(* and whose refusal is one more closing screen.  The caller is a          *)
(* registered farmer.                                                      *)
(*                                                                         *)
(* This is the menu on an assumption that the code does not enforce: no    *)
(* request of any call arrives before the last one is answered.  All calls *)
(* share one UssdMenu, and a request that arrives while another waits for  *)
(* the database redirects what that other writes and answers.  UssdCalls   *)
(* has several calls without the assumption, statement by statement, for   *)
(* the part of the menu that signs a caller in.                            *)
(***************************************************************************)
EXTENDS Naturals, Sequences

CONSTANTS
    Pins,           \* the four-digit numbers
    PinKeys,        \* what a caller types when a PIN is asked for
    MenuKeys,       \* what a caller types at the main menu
    Keys,           \* what a caller types at any other screen
    PageSize,       \* lines of a list on one screen
    OrderList,      \* the farmer's orders: <<id, status>>
    CentreList,     \* centres
    SchedulesOf,    \* SchedulesOf[c]: published schedules of centre c, <<id, free capacity>>
    BookingList,    \* the farmer's bookings: <<id, status, pickup confirmed>>
    RequestList,    \* open sourcing requests
    BatchList,      \* the farmer's batches in inventories: <<id, quantity>>
    AdvisoryList,   \* advisories
    MaxInputs,      \* bound on the keys of one call
    MaxRestarts,    \* bound on restarts of the server
    Undefined       \* what a field of the session is before it is set

ASSUME UssdAssumption ==
    /\ Pins \subseteq Nat /\ PinKeys \subseteq Nat
    /\ MenuKeys \subseteq Nat /\ Keys \subseteq Nat
    /\ PageSize \in 1 .. 5
    /\ MaxInputs \in Nat
    /\ Undefined \notin Nat
    /\ \A l \in {OrderList, CentreList, BookingList, RequestList, BatchList, AdvisoryList} :
          Len(l) \in Nat
    /\ \A i \in 1 .. Len(CentreList) :
          CentreList[i] \in DOMAIN SchedulesOf /\ Len(SchedulesOf[CentreList[i]]) \in Nat

VARIABLES
    pin,        \* users.ussdPinHash, or Undefined
    inputs,     \* the keys of the call so far
    session,    \* what the server remembers of the call
    screen,     \* what the caller sees: the state shown, and what its keys are said to do
    shown,      \* history: what the page of an order and that of a booking last said its keys do
    deed,       \* what the last request asked another service to do
    restarts    \* restarts of the server in this call

ussdVars == <<pin, inputs, session, screen, shown, deed, restarts>>

\* The lists of the session; each has a page and a selection.
Areas == {"orders", "centers", "schedules", "bookings", "rfq", "batches", "advisories", "inventory"}

\* A session without any key: what is undefined is false, zero or Undefined here.
Fresh ==
    [setup |-> FALSE, setupUser |-> FALSE, attempts |-> 0, pinValid |-> FALSE, newPin |-> Undefined,
     verified |-> FALSE, user |-> FALSE,
     list |-> [a \in Areas |-> <<>>], loaded |-> {}, offset |-> [a \in Areas |-> 0],
     size |-> [a \in Areas |-> PageSize], error |-> {}, chosen |-> [a \in Areas |-> Undefined],
     quantity |-> 0, bookState |-> Undefined, price |-> 0, offer |-> 0, confirmState |-> Undefined,
     canCancel |-> FALSE, canConfirm |-> FALSE]

Kinds == {"accept", "reject", "confirmPayment", "cancelBooking", "confirmPickup", "book", "offer",
          "setPrice"}

Back == [kind |-> "back", item |-> Undefined, key |-> 98]

\* One, Two: the deed that key 1 or key 2 is said to do.
One(kind, item) == [kind |-> kind, item |-> item, key |-> 1]
Two(kind, item) == [kind |-> kind, item |-> item, key |-> 2]

Over == [at |-> "over", offers |-> {}]

NothingShown == [at \in {"orders.view", "pickups.bookings.detail"} |-> {}]

\* The history after the caller saw state at.
Seen(at, offers) ==
    shown' = IF at \in DOMAIN shown THEN [shown EXCEPT ![at] = offers] ELSE shown

PinScreens == {"start", "auth.verifyPin", "auth.pinSetup.capture", "auth.pinSetup.confirm"}

\* The session stays within its types: no more than two wrong PINs are counted, a caller who
\* is known has verified a PIN or lost the session since, and no page is longer than PageSize.
UssdTypeOK ==
    /\ pin \in Pins \cup {Undefined}
    /\ Len(inputs) <= MaxInputs
    /\ session.attempts \in 0 .. 2
    /\ session.newPin \in Pins \cup {Undefined}
    /\ session.user => session.verified
    /\ session.verified => pin # Undefined
    /\ DOMAIN session = DOMAIN Fresh
    /\ session.loaded \subseteq Areas
    /\ session.error \subseteq Areas \cup {"price", "quantity"}
    /\ \A a \in Areas : session.size[a] \in 0 .. PageSize /\ session.offset[a] \in Nat
    /\ \A d \in screen.offers : d.kind \in Kinds \cup {"back"}
    /\ deed # Undefined => deed.kind \in Kinds
    /\ screen = Over => session = Fresh /\ inputs = <<>>

UssdInit ==
    /\ pin = Undefined
    /\ inputs = <<>>
    /\ session = Fresh
    /\ screen = Over
    /\ shown = NothingShown
    /\ deed = Undefined
    /\ restarts = 0

(***************************************************************************)
(* Routing: next of every state.                                           *)
(***************************************************************************)

MainRoute(v) ==
    CASE v = 1 -> "orders.menu"     [] v = 2 -> "pickups.menu"   [] v = 3 -> "market.menu"
      [] v = 4 -> "rfq.menu"        [] v = 5 -> "advisories.menu"
      [] v = 6 -> "inventory.menu"  [] v = 0 -> "session.exit"   [] OTHER -> "menu.main"

\* A list: 1 to 5 select, 6 shows more where there is more, anything else shows it again.
ListRoute(v, self, view, more, back) ==
    CASE v \in 1 .. 5 -> view
      [] v = 6  -> more
      [] v = 98 -> back
      [] v = 99 -> "menu.main"
      [] OTHER  -> self

\* withStandardNav
Nav(v, back, other) ==
    CASE v = 98 -> back [] v = 99 -> "menu.main" [] OTHER -> other

AuthRoute(at, v, s) ==
    CASE at = "start" -> IF s.setup THEN "auth.pinSetup.capture" ELSE "auth.verifyPin"
      [] at = "auth.pinSetup.capture" ->
             IF s.pinValid THEN "auth.pinSetup.confirm" ELSE "auth.pinSetup.capture"
      [] at = "auth.verifyPin" -> IF s.verified THEN MainRoute(v) ELSE "auth.verifyPin"
      [] at = "auth.pinSetup.confirm" ->
             IF s.verified THEN MainRoute(v) ELSE "auth.pinSetup.capture"

OrderStatus(s) == IF s.chosen["orders"] = Undefined THEN Undefined ELSE s.chosen["orders"][2]

\* Seeded fault: the flag of an invalid selection is not looked at.
ViewRouteBlind(v, s) ==
    CASE v = 1 /\ OrderStatus(s) = "ORDER_PLACED"    -> "orders.accept"
      [] v = 1 /\ OrderStatus(s) = "PAYMENT_SECURED" -> "orders.confirmPayment"
      [] v = 2 /\ OrderStatus(s) = "ORDER_PLACED"    -> "orders.reject"
      [] v = 99 -> "menu.main"
      [] OTHER -> "orders.menu"

ViewRoute(v, s) ==
    IF v \in {1, 2} /\ "orders" \in s.error
    THEN "orders.menu"
    ELSE CASE v = 1 /\ OrderStatus(s) = "ORDER_ACCEPTED"  -> "orders.pickupDetails"
           [] v = 1 /\ OrderStatus(s) = "ORDER_PLACED"    -> "orders.accept"
           [] v = 1 /\ OrderStatus(s) = "PAYMENT_SECURED" -> "orders.confirmPayment"
           [] v = 2 /\ OrderStatus(s) = "ORDER_PLACED"    -> "orders.reject"
           [] v = 2 /\ OrderStatus(s) # "ORDER_PLACED"    -> "orders.view"
           [] v = 99 -> "menu.main"
           [] OTHER -> "orders.menu"

OrdersRoute(at, v, s) ==
    CASE at \in {"orders.menu", "orders.more"} ->
             ListRoute(v, "orders.menu", "orders.view", "orders.more", "menu.main")
      [] at = "orders.view" -> ViewRoute(v, s)
      [] at = "orders.pickupDetails" -> Nav(v, "orders.menu", "orders.menu")

BookingRoute(v, s) ==
    IF "bookings" \in s.error
    THEN "pickups.bookings.list"
    ELSE CASE v = 1 /\ s.canCancel  -> "pickups.bookings.cancel"
           [] v = 2 /\ s.canConfirm -> "pickups.bookings.confirm"
           [] OTHER                 -> "pickups.bookings.detail"

ConfirmRoute(v, s) ==
    IF s.bookState \in {"invalid", "exceeds"}
    THEN "pickups.book.quantity"
    ELSE CASE v = 1 -> "pickups.book.submit"
           [] v = 2 -> "pickups.menu"
           [] OTHER -> "pickups.book.confirm"

PickupsRoute(at, v, s) ==
    CASE at = "pickups.menu" ->
             IF v = 1 THEN "pickups.centers"
             ELSE IF v = 2 THEN "pickups.bookings.list" ELSE Nav(v, "menu.main", "pickups.menu")
      [] at \in {"pickups.centers", "pickups.centers.more"} ->
             ListRoute(v, "pickups.centers", "pickups.schedules", "pickups.centers.more", "pickups.menu")
      [] at \in {"pickups.schedules", "pickups.schedules.more"} ->
             ListRoute(v, "pickups.schedules", "pickups.schedule.detail", "pickups.schedules.more",
                       "pickups.centers")
      [] at = "pickups.schedule.detail" ->
             Nav(v, "pickups.schedules",
                 IF "schedules" \in s.error THEN "pickups.schedules"
                 ELSE IF v = 1 THEN "pickups.book.quantity" ELSE "pickups.schedule.detail")
      [] at = "pickups.book.quantity" -> "pickups.book.confirm"
      [] at = "pickups.book.confirm" -> Nav(v, "pickups.schedule.detail", ConfirmRoute(v, s))
      [] at \in {"pickups.bookings.list", "pickups.bookings.more"} ->
             ListRoute(v, "pickups.bookings.list", "pickups.bookings.detail", "pickups.bookings.more",
                       "pickups.menu")
      [] at = "pickups.bookings.detail" -> Nav(v, "pickups.bookings.list", BookingRoute(v, s))

OfferRoute(v, s) ==
    IF s.confirmState = "exceeds"
    THEN "rfq.quantity"
    ELSE CASE v = 1 -> "rfq.submit"
           [] v = 2 -> "rfq.menu"
           [] OTHER -> "rfq.confirm"

RfqRoute(at, v, s) ==
    CASE at = "rfq.menu" -> ListRoute(v, "rfq.menu", "rfq.detail", "rfq.menu", "menu.main")
      [] at = "rfq.detail" ->
             Nav(v, "rfq.menu", IF "rfq" \in s.error THEN "rfq.menu"
                                ELSE IF v = 1 THEN "rfq.batches" ELSE "rfq.detail")
      [] at = "rfq.batches" -> ListRoute(v, "rfq.batches", "rfq.price", "rfq.batches", "rfq.detail")
      [] at = "rfq.price" ->
             Nav(v, "rfq.batches", IF "batches" \in s.error THEN "rfq.batches" ELSE "rfq.quantity")
      [] at = "rfq.quantity" ->
             Nav(v, "rfq.batches", IF "quantity" \in s.error THEN "rfq.price" ELSE "rfq.confirm")
      [] at = "rfq.confirm" -> Nav(v, "rfq.menu", OfferRoute(v, s))

InventoryRoute(at, v, s) ==
    CASE at = "inventory.menu" ->
             ListRoute(v, "inventory.menu", "inventory.detail", "inventory.menu", "menu.main")
      [] at = "inventory.detail" ->
             Nav(v, "inventory.menu", IF "inventory" \in s.error THEN "inventory.menu"
                                      ELSE IF v = 1 THEN "inventory.price" ELSE "inventory.detail")
      [] at = "inventory.price" -> "inventory.price.confirm"
      [] at = "inventory.price.confirm" ->
             Nav(v, "inventory.menu", IF "price" \in s.error THEN "inventory.price" ELSE "inventory.menu")

\* States without next: a further key has nowhere to go.
Last == {"session.exit", "orders.confirmPayment", "orders.accept", "orders.reject",
         "pickups.book.submit", "pickups.bookings.cancel", "pickups.bookings.confirm", "rfq.submit",
         "nowhere"}

Goes(at, v, s) ==
    CASE at \in PinScreens -> AuthRoute(at, v, s)
      [] at = "menu.main" -> MainRoute(v)
      [] at \in {"orders.menu", "orders.more", "orders.view", "orders.pickupDetails"} ->
             OrdersRoute(at, v, s)
      [] at \in {"rfq.menu", "rfq.detail", "rfq.batches", "rfq.price", "rfq.quantity", "rfq.confirm"} ->
             RfqRoute(at, v, s)
      [] at \in {"inventory.menu", "inventory.detail", "inventory.price", "inventory.price.confirm"} ->
             InventoryRoute(at, v, s)
      [] at = "market.menu" -> "menu.main"
      [] at = "advisories.menu" ->
             ListRoute(v, "advisories.menu", "advisories.detail", "advisories.menu", "menu.main")
      [] at = "advisories.detail" -> Nav(v, "advisories.menu", "advisories.menu")
      [] at \in Last -> "nowhere"
      [] OTHER -> PickupsRoute(at, v, s)

\* The library's walk along the keys of the call.
Walk(keys, s) ==
    LET at[i \in 0 .. Len(keys)] == IF i = 0 THEN "start" ELSE Goes(at[i - 1], keys[i], s)
    IN  at[Len(keys)]

(***************************************************************************)
(* Screens and their effects.                                              *)
(***************************************************************************)

\* menu.con: the session goes on as s, and the caller sees state at.
Con(v, s, at, offers) ==
    /\ inputs' = Append(inputs, v)
    /\ session' = s
    /\ screen' = [at |-> at, offers |-> offers]
    /\ Seen(at, offers)
    /\ deed' = Undefined
    /\ UNCHANGED <<pin, restarts>>

\* menu.end: the session is dropped.
End(d) ==
    /\ inputs' = <<>>
    /\ session' = Fresh
    /\ screen' = Over
    /\ shown' = NothingShown
    /\ deed' = d
    /\ restarts' = 0
    /\ UNCHANGED pin

\* The start state notes whether the farmer has still to choose a PIN.
Started(s) ==
    IF pin = Undefined THEN [s EXCEPT !.setup = TRUE, !.setupUser = TRUE, !.attempts = 0]
                  ELSE [s EXCEPT !.setup = FALSE]

GoStart(v) == Con(v, Started(session), "start", {})

Page(list, offset) ==
    LET from == IF offset >= Len(list) THEN 0 ELSE offset
    IN  IF Len(list) - from < PageSize THEN Len(list) - from ELSE PageSize

\* The session after the list of area a was fetched, or shown again from its offset.
Fetched(s, a, list) ==
    [s EXCEPT !.list[a] = list, !.loaded = @ \cup {a}, !.offset[a] = 0, !.size[a] = Page(list, 0)]

Shown(s, a) == [s EXCEPT !.size[a] = Page(s.list[a], s.offset[a])]

Cached(s, a, list) == Shown(IF a \in s.loaded THEN s ELSE Fetched(s, a, list), a)

\* The list after "6. More".
Further(s, a) ==
    LET next == s.offset[a] + PageSize
    IN  [s EXCEPT !.offset[a] = IF next >= Len(s.list[a]) THEN 0 ELSE next]

\* v selects a line of the page of list a.
Selects(v, s, a) ==
    /\ a \in s.loaded
    /\ v \in 1 .. s.size[a]
    /\ s.offset[a] + v <= Len(s.list[a])

Selected(v, s, a) == s.list[a][s.offset[a] + v]

Chosen(v, s, a) ==
    [s EXCEPT !.error = @ \ {a}, !.chosen[a] = Selected(v, s, a)]

Invalid(v, a, at) ==
    /\ ~Selects(v, session, a)
    /\ Con(v, [session EXCEPT !.error = @ \cup {a}], at, {Back})

(***************************************************************************)
(* The call and its PIN.                                                   *)
(***************************************************************************)

\* The start state runs for an empty text.
Dial ==
    /\ screen = Over
    /\ session' = Started(Fresh)
    /\ screen' = [at |-> "start", offers |-> {}]
    /\ deed' = Undefined
    /\ UNCHANGED <<pin, inputs, shown, restarts>>

VerifiedPin(v) ==
    /\ v = pin
    /\ Con(v, [session EXCEPT !.attempts = 0, !.verified = TRUE, !.user = TRUE], "menu.main", {})

\* Seeded fault: one attempt more.
VerifyPinLate(at, v) ==
    /\ at = "auth.verifyPin"
    /\ \/ VerifiedPin(v)
       \/ v # pin /\ session.attempts + 1 > 3 /\ End(Undefined)
       \/ /\ v # pin /\ session.attempts + 1 <= 3
          /\ Con(v, [session EXCEPT !.attempts = @ + 1, !.verified = FALSE], at, {})

VerifyPin(at, v) ==
    /\ at = "auth.verifyPin"
    /\ \/ VerifiedPin(v)
       \/ v # pin /\ session.attempts + 1 >= 3 /\ End(Undefined)
       \/ /\ v # pin /\ session.attempts + 1 < 3
          /\ Con(v, [session EXCEPT !.attempts = @ + 1, !.verified = FALSE], at, {})

CapturePin(at, v) ==
    /\ at = "auth.pinSetup.capture"
    /\ IF v \in Pins
       THEN Con(v, [session EXCEPT !.newPin = v, !.pinValid = TRUE], "auth.pinSetup.confirm", {})
       ELSE Con(v, [session EXCEPT !.pinValid = FALSE], "auth.pinSetup.capture", {})

RefusePin(at, v) ==
    /\ at = "auth.pinSetup.confirm"
    /\ \/ session.newPin = Undefined \/ ~session.setupUser
       \/ session.newPin # v
    /\ IF session.newPin = Undefined \/ ~session.setupUser
       THEN GoStart(v)
       ELSE Con(v, [session EXCEPT !.newPin = Undefined, !.pinValid = FALSE, !.verified = FALSE],
                "auth.pinSetup.capture", {})

\* Seeded fault: the two entries are not compared.
SetPinUnmatched(at, v) ==
    /\ at = "auth.pinSetup.confirm" /\ session.setupUser /\ session.newPin # Undefined
    /\ pin' = session.newPin
    /\ inputs' = Append(inputs, v)
    /\ session' = [session EXCEPT !.newPin = Undefined, !.pinValid = FALSE, !.setup = FALSE,
                                  !.verified = TRUE, !.user = TRUE]
    /\ screen' = [at |-> "menu.main", offers |-> {}]
    /\ deed' = Undefined
    /\ UNCHANGED <<shown, restarts>>

SetPin(at, v) ==
    /\ at = "auth.pinSetup.confirm" /\ session.setupUser /\ session.newPin = v
    /\ pin' = v
    /\ inputs' = Append(inputs, v)
    /\ session' = [session EXCEPT !.newPin = Undefined, !.pinValid = FALSE, !.setup = FALSE,
                                  !.verified = TRUE, !.user = TRUE]
    /\ screen' = [at |-> "menu.main", offers |-> {}]
    /\ deed' = Undefined
    /\ UNCHANGED <<shown, restarts>>

\* Screens that only show something.
Plain(at, v) ==
    \/ at = "menu.main" /\ Con(v, session, at, {})
    \/ at \in {"pickups.menu", "market.menu"} /\ Con(v, session, at, {Back})

\* session.exit, and a key for which the library finds no state.
Exit(at) == at \in {"session.exit", "nowhere"} /\ End(Undefined)

(***************************************************************************)
(* My orders.                                                              *)
(***************************************************************************)

ShowOrders(v, s) ==
    IF s.user
    THEN Con(v, Cached(s, "orders", OrderList), "orders.menu", {Back})
    ELSE GoStart(v)

\* "6. More" moves the offset of a list that is there, and shows the list.
OrdersMenu(at, v) ==
    \/ /\ at = "orders.menu" \/ (at = "orders.more" /\ session.list["orders"] = <<>>)
       /\ ShowOrders(v, session)
    \/ /\ at = "orders.more" /\ session.list["orders"] # <<>>
       /\ ShowOrders(v, Further(session, "orders"))

OrderOffers(o) ==
    CASE o[2] = "ORDER_PLACED"    -> {One("accept", o[1]), Two("reject", o[1])}
      [] o[2] = "PAYMENT_SECURED" -> {One("confirmPayment", o[1])}
      [] OTHER                    -> {}

OrderView(at, v) ==
    /\ at = "orders.view"
    /\ \/ Invalid(v, "orders", at)
       \/ /\ Selects(v, session, "orders")
          /\ Con(v, Chosen(v, session, "orders"), at,
                 {Back} \cup OrderOffers(Selected(v, session, "orders")))

\* orders.confirmPayment, orders.accept and orders.reject end the session whether or not
\* updateOrderStatus accepts the change.
OrderDeed(at, v, state, kind) ==
    /\ at = state
    /\ IF session.chosen["orders"] # Undefined /\ session.user
       THEN End([kind |-> kind, item |-> session.chosen["orders"][1], key |-> v])
       ELSE GoStart(v)

PickupDetails(at, v) ==
    /\ at = "orders.pickupDetails"
    /\ IF session.chosen["orders"] = Undefined
       THEN ShowOrders(v, session)
       ELSE Con(v, session, at, {Back})

(***************************************************************************)
(* Pickups.                                                                *)
(***************************************************************************)

Centers(at, v) ==
    /\ at \in {"pickups.centers", "pickups.centers.more"}
    /\ LET more == at = "pickups.centers.more" /\ session.list["centers"] # <<>>
           s    == IF more THEN Further(session, "centers") ELSE session
       IN  Con(v, Cached(s, "centers", CentreList), "pickups.centers", {Back})

\* The key selects a centre only as long as the session has none.
Schedules(at, v) ==
    \/ /\ at = "pickups.schedules" /\ session.chosen["centers"] = Undefined
       /\ \/ Invalid(v, "centers", at)
          \/ /\ Selects(v, session, "centers")
             /\ Con(v, Fetched(Chosen(v, session, "centers"), "schedules",
                               SchedulesOf[Selected(v, session, "centers")]), at, {Back})
    \/ /\ at \in {"pickups.schedules", "pickups.schedules.more"} /\ session.chosen["centers"] # Undefined
       /\ LET more == at = "pickups.schedules.more" /\ session.list["schedules"] # <<>>
              s    == IF more THEN Further(session, "schedules") ELSE session
          IN  Con(v, [Shown(s, "schedules") EXCEPT !.error = @ \ {"centers"}], "pickups.schedules",
                  {Back})

ScheduleDetail(at, v) ==
    /\ at = "pickups.schedule.detail"
    /\ \/ Invalid(v, "schedules", at)
       \/ Selects(v, session, "schedules") /\ Con(v, Chosen(v, session, "schedules"), at, {Back})

\* The prompt for the quantity, and the screen that asks to confirm it.
BookConfirm(at, v) ==
    LET schedule == session.chosen["schedules"]
        valid    == schedule # Undefined /\ session.user /\ v > 0
    IN  \/ /\ at = "pickups.book.quantity"
           /\ IF schedule = Undefined
              THEN Con(v, session, "pickups.menu", {Back})
              ELSE Con(v, session, at, {})
        \/ /\ at = "pickups.book.confirm" /\ ~valid
           /\ Con(v, [session EXCEPT !.bookState = "invalid"], at, {Back})
        \/ /\ at = "pickups.book.confirm" /\ valid
           /\ IF v > schedule[2]
              THEN Con(v, [session EXCEPT !.bookState = "exceeds"], at, {Back})
              ELSE Con(v, [session EXCEPT !.bookState = "ready", !.quantity = v], at,
                       {One("book", <<schedule[1], v>>)})

BookSubmit(at, v) ==
    /\ at = "pickups.book.submit"
    /\ IF session.chosen["schedules"] # Undefined /\ session.user /\ session.quantity # 0
       THEN End([kind |-> "book", item |-> <<session.chosen["schedules"][1], session.quantity>>,
                 key |-> v])
       ELSE Con(v, session, "pickups.menu", {Back})

ShowBookings(v) ==
    IF session.user
    THEN Con(v, Fetched(session, "bookings", BookingList), "pickups.bookings.list", {Back})
    ELSE GoStart(v)

\* The list of bookings is read again each time it is shown, but not by "6. More".
BookingsList(at, v) ==
    \/ /\ \/ at = "pickups.bookings.list"
          \/ at = "pickups.bookings.more" /\ session.list["bookings"] = <<>>
       /\ ShowBookings(v)
    \/ /\ at = "pickups.bookings.more" /\ session.list["bookings"] # <<>>
       /\ Con(v, Shown(Further(session, "bookings"), "bookings"), "pickups.bookings.list", {Back})

CanCancel(b)  == b[2] \notin {"cancelled", "completed"}
CanConfirm(b) == ~b[3] /\ b[2] # "cancelled"

BookingOffers(b) ==
    (IF CanCancel(b) THEN {One("cancelBooking", b[1])} ELSE {})
    \cup (IF CanConfirm(b) THEN {Two("confirmPickup", b[1])} ELSE {})

BookingDetail(at, v) ==
    /\ at = "pickups.bookings.detail"
    /\ \/ Invalid(v, "bookings", at)
       \/ /\ Selects(v, session, "bookings")
          /\ LET b == Selected(v, session, "bookings")
             IN  Con(v, [Chosen(v, session, "bookings") EXCEPT !.canCancel = CanCancel(b),
                                                               !.canConfirm = CanConfirm(b)],
                     at, {Back} \cup BookingOffers(b))

BookingDeed(at, v, state, kind) ==
    /\ at = state
    /\ IF session.chosen["bookings"] # Undefined /\ session.user
       THEN End([kind |-> kind, item |-> session.chosen["bookings"][1], key |-> v])
       ELSE ShowBookings(v)

(***************************************************************************)
(* Market information, advisories and buyer requests.                      *)
(***************************************************************************)

Advisories(at, v) ==
    \/ at = "advisories.menu" /\ Con(v, Fetched(session, "advisories", AdvisoryList), at, {Back})
    \/ at = "advisories.detail" /\ Invalid(v, "advisories", at)
    \/ /\ at = "advisories.detail" /\ Selects(v, session, "advisories")
       /\ Con(v, [session EXCEPT !.error = @ \ {"advisories"}], at, {Back})

ShowRequests(v) ==
    IF session.user
    THEN Con(v, Fetched(session, "rfq", RequestList), "rfq.menu", {Back})
    ELSE GoStart(v)

RfqMenu(at, v) ==
    \/ at = "rfq.menu" /\ ShowRequests(v)
    \/ at = "rfq.detail" /\ Invalid(v, "rfq", at)
    \/ /\ at = "rfq.detail" /\ Selects(v, session, "rfq")
       /\ Con(v, Chosen(v, session, "rfq"), at, {Back})

\* Choice of a batch, which asks for the price.
RfqBatches(at, v) ==
    \/ /\ at = "rfq.batches"
       /\ IF session.user
          THEN Con(v, Fetched(session, "batches", BatchList), at, {Back})
          ELSE GoStart(v)
    \/ at = "rfq.price" /\ Invalid(v, "batches", at)
    \/ /\ at = "rfq.price" /\ Selects(v, session, "batches")
       /\ Con(v, Chosen(v, session, "batches"), at, {})

\* The price is kept, the quantity asked for and then shown for confirmation.
RfqConfirm(at, v) ==
    LET batch == session.chosen["batches"]
        valid == session.chosen["rfq"] # Undefined /\ batch # Undefined /\ session.user /\ v > 0
    IN  \/ /\ at = "rfq.quantity"
           /\ IF v = 0
              THEN Con(v, [session EXCEPT !.error = @ \cup {"quantity"}], at, {Back})
              ELSE Con(v, [session EXCEPT !.error = @ \ {"quantity"}, !.price = v], at, {})
        \/ at = "rfq.confirm" /\ ~valid /\ ShowRequests(v)
        \/ /\ at = "rfq.confirm" /\ valid
           /\ IF v > batch[2]
              THEN Con(v, [session EXCEPT !.confirmState = "exceeds"], at, {Back})
              ELSE Con(v, [session EXCEPT !.confirmState = "ready", !.offer = v], at,
                       {One("offer", <<session.chosen["rfq"], batch[1], session.price, v>>)})

RfqSubmit(at, v) ==
    /\ at = "rfq.submit"
    /\ IF /\ session.chosen["rfq"] # Undefined /\ session.chosen["batches"] # Undefined
          /\ session.user /\ session.price # 0
       THEN End([kind |-> "offer",
                 item |-> <<session.chosen["rfq"], session.chosen["batches"][1], session.price,
                            session.offer>>,
                 key |-> v])
       ELSE ShowRequests(v)

(***************************************************************************)
(* My stock.                                                               *)
(***************************************************************************)

ShowInventory(v) ==
    IF session.user
    THEN Con(v, Fetched(session, "inventory", BatchList), "inventory.menu", {Back})
    ELSE GoStart(v)

InventoryMenu(at, v) ==
    \/ at = "inventory.menu" /\ ShowInventory(v)
    \/ at = "inventory.detail" /\ Invalid(v, "inventory", at)
    \/ /\ at = "inventory.detail" /\ Selects(v, session, "inventory")
       /\ Con(v, Chosen(v, session, "inventory"), at, {Back})

\* The prompt for a price, and what is typed there; 98 is a price like any other.
InventoryPrice(at, v) ==
    LET batch == session.chosen["inventory"]
        valid == batch # Undefined /\ session.user /\ v > 0
    IN  \/ /\ at = "inventory.price"
           /\ IF batch = Undefined THEN ShowInventory(v) ELSE Con(v, session, at, {})
        \/ /\ at = "inventory.price.confirm" /\ ~valid
           /\ Con(v, [session EXCEPT !.error = @ \cup {"price"}], at, {Back})
        \/ /\ at = "inventory.price.confirm" /\ valid
           /\ End([kind |-> "setPrice", item |-> batch[1], key |-> v])

(***************************************************************************)
(* Failures.                                                               *)
(***************************************************************************)

\* Screens that read the database end the session when the read fails.
Unavailable(at) ==
    /\ at \in {"auth.verifyPin", "auth.pinSetup.confirm", "orders.menu", "orders.pickupDetails",
               "pickups.centers", "pickups.schedules", "pickups.bookings.list", "market.menu",
               "rfq.menu", "rfq.batches", "advisories.menu", "inventory.menu"}
    /\ End(Undefined)

\* The provider gives up a call that waits too long.
HangUp ==
    /\ screen # Over
    /\ End(Undefined)

\* A restart of the server loses the session and not the keys.
Restart ==
    /\ restarts < MaxRestarts /\ inputs # <<>>
    /\ session' = Fresh
    /\ deed' = Undefined
    /\ restarts' = restarts + 1
    /\ UNCHANGED <<pin, inputs, screen, shown>>

Typed ==
    CASE screen.at \in PinScreens -> PinKeys
      [] screen.at = "menu.main"  -> MenuKeys
      [] OTHER                    -> Keys

Run(at, v) ==
    \/ VerifyPin(at, v) \/ CapturePin(at, v) \/ RefusePin(at, v) \/ SetPin(at, v)
    \/ Plain(at, v) \/ Exit(at) \/ Unavailable(at)
    \/ OrdersMenu(at, v) \/ OrderView(at, v) \/ PickupDetails(at, v)
    \/ OrderDeed(at, v, "orders.accept", "accept")
    \/ OrderDeed(at, v, "orders.reject", "reject")
    \/ OrderDeed(at, v, "orders.confirmPayment", "confirmPayment")
    \/ Centers(at, v) \/ Schedules(at, v) \/ ScheduleDetail(at, v)
    \/ BookConfirm(at, v) \/ BookSubmit(at, v)
    \/ BookingsList(at, v) \/ BookingDetail(at, v)
    \/ BookingDeed(at, v, "pickups.bookings.cancel", "cancelBooking")
    \/ BookingDeed(at, v, "pickups.bookings.confirm", "confirmPickup")
    \/ RfqMenu(at, v) \/ RfqBatches(at, v) \/ RfqConfirm(at, v) \/ RfqSubmit(at, v)
    \/ Advisories(at, v) \/ InventoryMenu(at, v) \/ InventoryPrice(at, v)

UssdNext ==
    \/ Dial \/ HangUp \/ Restart
    \/ /\ screen # Over /\ Len(inputs) < MaxInputs
       /\ \E v \in Typed : LET at == Walk(Append(inputs, v), session) IN Run(at, v)

UssdSpec == UssdInit /\ [][UssdNext]_ussdVars

(***************************************************************************)
(* Properties.                                                             *)
(***************************************************************************)

\* A PIN is stored only when it was typed twice running, whatever was typed, mistyped or
\* confirmed wrongly before (the walk re-reads earlier entries as other states' input).
PinTypedTwice ==
    [][pin' # pin => inputs # <<>> /\ inputs[Len(inputs)] = pin' /\ inputs'[Len(inputs')] = pin']_ussdVars

\* The kinds of deed that the page of an order and that of a booking offer.
RowDeeds == {"accept", "reject", "confirmPayment", "cancelBooking", "confirmPickup"}

\* However the walk re-reads the keys of the call, an order is accepted, rejected or its
\* payment confirmed, and a booking cancelled or picked up, only for the row whose page the
\* caller saw last, and by a key that this page gave for it.
DoneAsShown ==
    [][deed' # Undefined /\ deed'.kind \in RowDeeds
           => \E page \in DOMAIN shown : deed' \in shown[page]]_ussdVars

\* Such a deed is offered by the very screen before: this fails, see DoneAsShown.
DoneAsOffered ==
    [][deed' # Undefined /\ deed'.kind \in RowDeeds => deed' \in screen.offers]_ussdVars

\* Where a screen offers 98 as the way back, 98 changes nothing: this fails too.
BackChangesNothing ==
    [][(Back \in screen.offers /\ deed' # Undefined) => (deed'.key # Back.key)]_ussdVars
=============================================================================
