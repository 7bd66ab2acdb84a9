------------------------------- MODULE MCUssd -------------------------------
(* A farmer with two orders, bookings and batches; one line to a page. *)
EXTENDS UssdSession

Orders     == <<<<"o1", "ORDER_PLACED">>, <<"o2", "PAYMENT_SECURED">>, <<"o3", "ORDER_ACCEPTED">>>>
Bookings   == <<<<"b1", "confirmed", FALSE>>, <<"b2", "cancelled", FALSE>>>>
Centres    == <<"c1", "c2">>
Schedules2 == [c \in {"c1", "c2"} |-> <<<<"s1", 1>>, <<"s2", 2>>>>]
Batches    == <<<<"x1", 1>>>>
Sourcing   == <<"q1">>
Advice     == <<"a1">>
=============================================================================
