--------------------------- MODULE CapacityLedger ---------------------------
(***************************************************************************)
(* What a bookable capacity promises, without counters: an account (a      *)
(* pickup schedule) has a limit and holds a set of claims (bookings), each *)
(* of a weight fixed when it was admitted.  A claim is admitted only while *)
(* it fits, is released at most once and never comes back.                 *)
(***************************************************************************)
EXTENDS Quantities

CONSTANTS Accounts, Claims,
          Limits      \* the limits an account can be given

VARIABLES
    limit,      \* limit[a]: the capacity of account a
    held,       \* held[a]: the claims that occupy a
    weight,     \* weight[c]: the kilograms claim c was admitted with
    admitted    \* the claims that were ever admitted

ledgerVars == <<limit, held, weight, admitted>>

LedgerInit ==
    /\ limit    = [a \in Accounts |-> 0]
    /\ held     = [a \in Accounts |-> {}]
    /\ weight   = [c \in Claims |-> 0]
    /\ admitted = {}

\* An account is opened or resized, never below what it holds.
SetLimit(a, n) ==
    /\ Load(held[a], weight) <= n
    /\ limit' = [limit EXCEPT ![a] = n]
    /\ UNCHANGED <<held, weight, admitted>>

Admit(a, c, q) ==
    /\ c \notin admitted
    /\ Load(held[a], weight) + q <= limit[a]
    /\ held'     = [held EXCEPT ![a] = @ \cup {c}]
    /\ weight'   = [weight EXCEPT ![c] = q]
    /\ admitted' = admitted \cup {c}
    /\ UNCHANGED limit

Release(a, S) ==
    /\ S \subseteq held[a]
    /\ held' = [held EXCEPT ![a] = @ \ S]
    /\ UNCHANGED <<limit, weight, admitted>>

LedgerNext ==
    \E a \in Accounts :
        \/ \E n \in Limits : SetLimit(a, n)
        \/ \E c \in Claims, q \in Quantity : Admit(a, c, q)
        \/ \E S \in SUBSET Claims : Release(a, S)

LedgerSpec == LedgerInit /\ [][LedgerNext]_ledgerVars
=============================================================================
