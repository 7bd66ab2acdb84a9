---------------------------- MODULE MCUssdCalls ----------------------------
(* Two farmers, two calls and two requests at a time. *)
EXTENDS UssdCalls, TLC

CONSTANTS u1, u2, c1, c2, h1, h2

TwoUsers    == {u1, u2}
TwoCalls    == {c1, c2}
TwoHandlers == {h1, h2}

\* One farmer has a PIN, or both have.
SomeHavePins == {u1 :> 1111 @@ u2 :> p : p \in {2222, Nobody}}
=============================================================================
