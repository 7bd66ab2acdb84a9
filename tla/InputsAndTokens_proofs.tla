----------------------- MODULE InputsAndTokens_proofs -----------------------
(***************************************************************************)
(* Theorems about InputOrders and about AuthTokens, for any numbers of     *)
(* handlers, orders, users, tokens and logins, and any stocks and sizes.   *)
(* The two components have nothing in common but this module.              *)
(*                                                                         *)
(* InputOrders: a handler that is to write ACCEPTED has taken the order's  *)
(* quantity, or found the order accepted; what is taken once stays taken.  *)
(*                                                                         *)
(* AuthTokens: OneChainPerLogin is inductive but for one thing: a new      *)
(* login must not be one whose chain exists.  Issued says that the chains  *)
(* are those of the logins so far.                                         *)
(***************************************************************************)
EXTENDS InputOrders, AuthTokens, QuantitiesTheorems

-----------------------------------------------------------------------------
(* Input orders.                                                           *)

\* What acceptances took for each order.
TakenWeight == [o \in Orders |-> taken[o] * Size[o]]

\* Who is to write ACCEPTED knows that the order was taken.
AcceptsTaken ==
    \A r \in Requests :
        request[r].op = "write" /\ request[r].to = "ACCEPTED" => taken[request[r].order] > 0

Inv ==
    /\ TypeOK
    /\ AcceptedWasTaken
    /\ ShortByTakenOnly
    /\ AcceptsTaken

LEMMA InitEstablishes == Init => Inv
<1> SUFFICES ASSUME Init
             PROVE  Inv
  OBVIOUS
<1>1. TypeOK
  <2>1. Idle \in Request
    BY DEF Idle, Request
  <2> QED
    BY <2>1, InputOrdersAssumption DEF Init, TypeOK
<1>2. ShortByTakenOnly
  BY LoadType, InputOrdersAssumption DEF Init, ShortByTakenOnly
<1> QED
  BY <1>1, <1>2 DEF Init, Idle, Inv, AcceptedWasTaken, AcceptsTaken

LEMMA RequestFields ==
    ASSUME NEW q \in Request
    PROVE  /\ q.op \in {"insert", "take", "write"} => q.order \in Orders
           /\ q.op \in {"take", "write"} =>
                  /\ q.to \in InputOrderStatuses
                  /\ q = [op |-> q.op, order |-> q.order, to |-> q.to]
BY DEF Request

\* What a handler may go on to: the write of ACCEPTED only for an order that was taken.
Justified(q) == q.op = "write" /\ q.to = "ACCEPTED" => taken[q.order] > 0

LEMMA AcceptsStay ==
    ASSUME Inv, taken' = taken, NEW r \in Requests, NEW q \in Request, Justified(q), Goto(r, q)
    PROVE  AcceptsTaken' /\ request' \in [Requests -> Request]
<1>1. request' \in [Requests -> Request] /\ \A s \in Requests : request'[s] \in {q, request[s]}
  BY DEF Inv, TypeOK, Goto
<1>2. \A s \in Requests : request'[s] = q \/ request'[s] = request[s]
  BY <1>1
<1> QED
  BY <1>1, <1>2 DEF Inv, AcceptsTaken, Justified

\* The stock is never shorter than before, or is counted anew.
LEMMA ShortStays ==
    ASSUME Inv, taken' = taken, input'.stock \in Int, input'.stock >= input.stock \/ input'.stock >= 0
    PROVE  ShortByTakenOnly'
<1>1. PICK weight : weight = Load(Orders, TakenWeight)
  OBVIOUS
<1>2. weight \in Nat /\ 0 - input.stock <= weight /\ input.stock \in Int
  BY <1>1, LoadType, InputOrdersAssumption DEF Inv, TypeOK, ShortByTakenOnly, TakenWeight
<1>3. 0 - input'.stock <= weight
  BY <1>2
<1> QED
  BY <1>1, <1>3 DEF ShortByTakenOnly, TakenWeight

\* Steps of one statement, and what handlers do first.
LEMMA InputKeeps ==
    ASSUME Inv, (\E stock \in Counts : CreateInput(stock)) \/ DeleteInput
    PROVE  Inv'
<1>1. /\ UNCHANGED <<order, taken, request>>
      /\ input' \in [exists : BOOLEAN, stock : Int] /\ input'.stock >= 0
  <2>1. ASSUME NEW e \in BOOLEAN, NEW n \in Nat, input' = [exists |-> e, stock |-> n]
        PROVE  input' \in [exists : BOOLEAN, stock : Int] /\ input'.stock >= 0
    BY <2>1
  <2>2. CASE \E stock \in Counts : CreateInput(stock)
    <3>1. PICK stock \in Counts : CreateInput(stock)
      BY <2>2
    <3>2. stock \in Nat
      BY InputOrdersAssumption
    <3> QED
      BY <2>1, <3>1, <3>2 DEF CreateInput
  <2>3. CASE DeleteInput
    BY <2>1, <2>3 DEF DeleteInput
  <2> QED
    BY <2>2, <2>3
<1>2. ShortByTakenOnly'
  BY <1>1, ShortStays
<1> QED
  BY <1>1, <1>2 DEF Inv, TypeOK, AcceptedWasTaken, AcceptsTaken

\* A handler that reads, or stops.
LEMMA ReadKeeps ==
    ASSUME Inv, UNCHANGED <<input, order, taken>>, NEW r \in Requests, NEW q \in Request,
           Justified(q), Goto(r, q)
    PROVE  Inv'
<1>1. AcceptsTaken' /\ request' \in [Requests -> Request]
  BY AcceptsStay
<1> QED
  BY <1>1 DEF Inv, TypeOK, AcceptedWasTaken, ShortByTakenOnly

LEMMA ReadsKeep ==
    ASSUME Inv, NEW r \in Requests,
           \/ UpdateInputRead(r) \/ \E o \in Orders : CreateOrderRead(r, o)
           \/ \E o \in Orders, to \in Wanted : UpdateRead(r, o, to)
           \/ Interrupt(r)
    PROVE  Inv'
<1>1. ASSUME NEW q \in Request, q.op # "write", Goto(r, q), UNCHANGED <<input, order, taken>>
      PROVE  Inv'
  BY <1>1, ReadKeeps DEF Justified
<1>2. CASE UpdateInputRead(r) \/ Interrupt(r)
  <2>1. /\ [op |-> "editInput"] \in Request /\ [op |-> "editInput"].op # "write"
        /\ Idle \in Request /\ Idle.op # "write"
    BY DEF Idle, Request
  <2> QED
    BY <1>1, <1>2, <2>1 DEF UpdateInputRead, Interrupt, Begin
<1>3. ASSUME NEW o \in Orders, CreateOrderRead(r, o)
      PROVE  Inv'
  <2>1. [op |-> "insert", order |-> o] \in Request
    BY DEF Request
  <2> QED
    BY <1>1, <1>3, <2>1 DEF CreateOrderRead, Begin
<1>4. ASSUME NEW o \in Orders, NEW to \in Wanted, UpdateRead(r, o, to)
      PROVE  Inv'
  <2>1. PICK op : op = IF to = "ACCEPTED" /\ order[o] # "ACCEPTED" THEN "take" ELSE "write"
    OBVIOUS
  <2>2. PICK q : q = [op |-> op, order |-> o, to |-> to]
    OBVIOUS
  <2>3. q \in Request
    BY <2>1, <2>2, InputOrdersAssumption DEF Request
  <2>4. Justified(q)
    BY <2>1, <2>2 DEF Justified, Inv, AcceptedWasTaken
  <2> QED
    BY <1>4, <2>1, <2>2, <2>3, <2>4, ReadKeeps DEF UpdateRead, Begin
<1> QED
  BY <1>2, <1>3, <1>4

\* The provider's count, the insert of an order and the write of a status.
LEMMA WritesKeep ==
    ASSUME Inv, NEW r \in Requests,
           \/ \E stock \in Counts : UpdateInputWrite(r, stock)
           \/ CreateOrderInsert(r) \/ UpdateWrite(r)
    PROVE  Inv'
<1>1. Goto(r, Idle) /\ taken' = taken /\ request[r] \in Request
  BY DEF UpdateInputWrite, CreateOrderInsert, UpdateWrite, Inv, TypeOK
<1>2. Idle \in Request /\ Justified(Idle)
  BY DEF Idle, Request, Justified
<1>3. AcceptsTaken' /\ request' \in [Requests -> Request]
  BY <1>1, <1>2, AcceptsStay
<1>4. ASSUME NEW stock \in Counts, UpdateInputWrite(r, stock)
      PROVE  Inv'
  <2>1. /\ input' \in [exists : BOOLEAN, stock : Int] /\ input'.stock >= 0 /\ order' = order
    BY <1>4, InputOrdersAssumption DEF UpdateInputWrite, Inv, TypeOK
  <2>2. ShortByTakenOnly'
    BY <1>1, <2>1, ShortStays
  <2> QED
    BY <1>1, <1>3, <2>1, <2>2 DEF Inv, TypeOK, AcceptedWasTaken
<1>5. CASE CreateOrderInsert(r) \/ UpdateWrite(r)
  <2>1. PICK o \in Orders, to \in InputOrderStatuses :
            /\ order' = [order EXCEPT ![o] = to] /\ input' = input
            /\ to = "ACCEPTED" => taken[o] > 0
    <3>1. CASE CreateOrderInsert(r)
      BY <1>1, <3>1, RequestFields DEF CreateOrderInsert, InputOrderStatuses
    <3>2. CASE UpdateWrite(r)
      BY <1>1, <3>2, RequestFields DEF UpdateWrite, Inv, AcceptsTaken
    <3> QED
      BY <1>5, <3>1, <3>2
  <2>2. TypeOK' /\ AcceptedWasTaken'
    BY <1>1, <1>3, <2>1 DEF Inv, TypeOK, AcceptedWasTaken
  <2>3. ShortByTakenOnly'
    BY <1>1, <2>1 DEF Inv, ShortByTakenOnly
  <2> QED
    BY <1>3, <2>2, <2>3 DEF Inv
<1> QED
  BY <1>4, <1>5

\* What an order can take more.
LEMMA OneMore ==
    ASSUME NEW o \in Orders, NEW n \in 0 .. MaxTaken, n < MaxTaken
    PROVE  /\ n * Size[o] \in Quantity
           /\ (n + 1) * Size[o] \in Quantity
           /\ (n + 1) * Size[o] = n * Size[o] + Size[o]
<1>1. PICK size \in Nat, m \in Nat : size = Size[o] /\ m = MaxTaken /\ m * size \in Quantity
  BY InputOrdersAssumption
<1>2. /\ n \in Nat /\ n + 1 <= m
      /\ (n + 1) * size = n * size + size
      /\ n * size \in Nat /\ (n + 1) * size \in Nat
  BY <1>1
<1>3. (n + 1) * size <= m * size
  <2>1. PICK k \in Nat : m = (n + 1) + k
    <3>1. m - (n + 1) \in Nat /\ m = (n + 1) + (m - (n + 1))
      BY <1>1, <1>2
    <3> QED
      BY <3>1
  <2>2. m * size = (n + 1) * size + k * size /\ k * size \in Nat
    BY <1>1, <2>1
  <2> QED
    BY <1>2, <2>2
<1>4. n * size <= (n + 1) * size
  BY <1>1, <1>2
<1>5. m * size \in 0 .. MaxQty
  BY <1>1 DEF Quantity
<1> QED
  BY <1>1, <1>2, <1>3, <1>4, <1>5, MaxQtyAssumption DEF Quantity

LEMMA TakeKeeps ==
    ASSUME Inv, NEW r \in Requests, TakeStock(r)
    PROVE  Inv'
<1>1. PICK o : o = request[r].order
  OBVIOUS
<1>2. /\ request[r] \in Request /\ o \in Orders /\ request[r].op = "take" /\ taken[o] < MaxTaken
      /\ input' = [input EXCEPT !.stock = @ - Size[o]]
      /\ taken' = [taken EXCEPT ![o] = @ + 1]
      /\ order' = order
  BY <1>1, RequestFields DEF TakeStock, Inv, TypeOK
<1>3. PICK q : q = [op |-> "write", order |-> o, to |-> request[r].to]
  OBVIOUS
<1>4. /\ q \in Request /\ q.order = o
      /\ Goto(r, q)
  <2>1. /\ request[r].to \in InputOrderStatuses
        /\ request[r] = [op |-> "take", order |-> o, to |-> request[r].to]
    BY <1>1, <1>2, RequestFields
  <2>2. [request[r] EXCEPT !.op = "write"] = q
    BY <1>3, <2>1
  <2> QED
    BY <1>2, <1>3, <2>1, <2>2 DEF TakeStock, Request
<1>5. /\ taken[o] \in 0 .. MaxTaken /\ input.stock \in Int /\ Size[o] \in Nat
      /\ taken'[o] = taken[o] + 1 /\ \A p \in Orders \ {o} : taken'[p] = taken[p]
      /\ input'.stock = input.stock - Size[o]
      /\ input' \in [exists : BOOLEAN, stock : Int]
      /\ taken' \in [Orders -> 0 .. MaxTaken]
  <2>1. taken[o] \in 0 .. MaxTaken /\ MaxTaken \in Nat /\ Size[o] \in Nat /\ input.stock \in Int
    BY <1>2, InputOrdersAssumption DEF Inv, TypeOK
  <2>2. taken[o] + 1 \in 0 .. MaxTaken
    BY <1>2, <2>1
  <2> QED
    BY <1>2, <2>1, <2>2 DEF Inv, TypeOK
<1>6. \A p \in Orders : taken[p] > 0 => taken'[p] > 0
  BY <1>5
<1>7. TypeOK'
  BY <1>2, <1>4, <1>5 DEF Inv, TypeOK, Goto
<1>8. AcceptedWasTaken'
  BY <1>2, <1>6 DEF Inv, AcceptedWasTaken
<1>9. AcceptsTaken'
  <2>1. \A s \in Requests : request'[s] = q \/ request'[s] = request[s]
    BY <1>4 DEF Goto, Inv, TypeOK
  <2>2. taken'[o] > 0
    BY <1>5
  <2>3. \A s \in Requests : request[s].op = "write" => request[s].order \in Orders
    BY RequestFields DEF Inv, TypeOK
  <2> QED
    BY <1>4, <1>6, <2>1, <2>2, <2>3 DEF Inv, AcceptsTaken
<1>10. ShortByTakenOnly'
  <2>1. PICK f, g : f = TakenWeight /\ g = TakenWeight'
    OBVIOUS
  <2>2. f[o] \in Quantity /\ g[o] \in Quantity /\ g[o] = f[o] + Size[o]
    BY <1>2, <1>5, <2>1, OneMore DEF TakenWeight
  <2>3. \A p \in Orders \ {o} : f[p] = g[p]
    BY <1>5, <2>1 DEF TakenWeight
  <2>4. Load(Orders, g) = Load(Orders, f) - f[o] + g[o]
    BY <1>2, <2>2, <2>3, LoadReplace, InputOrdersAssumption
  <2>5. Load(Orders, f) \in Nat /\ Load(Orders, g) \in Nat
    BY LoadType, InputOrdersAssumption
  <2>6. f[o] \in Int /\ g[o] \in Int
    BY <2>2, MaxQtyAssumption DEF Quantity
  <2>7. 0 - input.stock <= Load(Orders, f)
    BY <2>1 DEF Inv, ShortByTakenOnly, TakenWeight
  <2>8. 0 - input'.stock <= Load(Orders, g)
    BY <1>5, <2>2, <2>4, <2>5, <2>6, <2>7
  <2> QED
    BY <2>1, <2>8 DEF ShortByTakenOnly, TakenWeight
<1> QED
  BY <1>7, <1>8, <1>9, <1>10 DEF Inv

LEMMA NextKeeps == Inv /\ [Next]_vars => Inv'
<1> SUFFICES ASSUME Inv, [Next]_vars
             PROVE  Inv'
  OBVIOUS
<1>1. CASE UNCHANGED vars
  BY <1>1 DEF vars, Inv, TypeOK, AcceptedWasTaken, ShortByTakenOnly, AcceptsTaken
<1> QED
  BY <1>1, InputKeeps, ReadsKeep, WritesKeep, TakeKeeps DEF Next

LEMMA Invariance == Spec => []Inv
<1> QED
  BY InitEstablishes, NextKeeps, PTL DEF Spec

\* An accepted order was taken from the stock, for any number of handlers that decide on
\* a status they read before and write theirs in a later statement, or never.
THEOREM AcceptedTakes == Spec => []AcceptedWasTaken
<1>1. Inv => AcceptedWasTaken
  BY DEF Inv
<1> QED
  BY <1>1, Invariance, PTL

\* The stock of an input is short by no more than acceptances took, however often one
\* order is accepted and the provider counts.
THEOREM ShortByAcceptances == Spec => []ShortByTakenOnly
<1>1. Inv => ShortByTakenOnly
  BY DEF Inv
<1> QED
  BY <1>1, Invariance, PTL

-----------------------------------------------------------------------------
(* Refresh tokens.                                                         *)

Issued ==
    /\ \A t \in Stored : token[t].login \in 1 .. logins
    /\ \A r \in Storing : handler[r].login \in 1 .. logins

ChainInv == AuthTypeOK /\ Issued /\ OneChainPerLogin

\* A stored token belongs to a user; the types of the requests rest on it.
Owned == \A t \in Stored : token[t].user \in Users

-----------------------------------------------------------------------------

\* What the fields of requests and tokens are.
LEMMA TokenFields ==
    ASSUME AuthTypeOK
    PROVE  /\ \A r \in Storing : /\ handler[r].user \in Users
                                  /\ handler[r].login \in Logins
           /\ \A r \in Handlers : handler[r].op = "register" => handler[r].user \in Users
           /\ \A r \in Handlers : handler[r].op = "delete" => handler[r].token \in Tokens
           /\ AtRest \in HandlerStates
           /\ \A u \in Users : [op |-> "register", user |-> u] \in HandlerStates
           /\ \A u \in Users, l \in Logins :
                  [op |-> "store", user |-> u, login |-> l] \in HandlerStates
           /\ \A t \in Tokens : [op |-> "delete", token |-> t] \in HandlerStates
BY DEF AuthTypeOK, Storing, HandlerStates, AtRest, Logins

\* A step that stores no token and lets no handler begin to store one.
LEMMA OnlyLess ==
    ASSUME ChainInv, AuthTypeOK', logins' >= logins,
           \A t \in Tokens : token'[t].state = "stored" => token'[t] = token[t],
           \A r \in Handlers : handler'[r].op = "store" => handler'[r] = handler[r]
    PROVE  ChainInv'
<1>1. Stored' \subseteq Stored /\ \A t \in Stored' : token'[t] = token[t]
  BY DEF Stored
<1>2. Storing' \subseteq Storing
      /\ \A r \in Storing' : handler'[r] = handler[r]
  BY DEF Storing
<1>3. logins \in Int /\ logins' \in Int
  BY DEF ChainInv, AuthTypeOK
<1>4. Issued'
  BY <1>1, <1>2, <1>3 DEF ChainInv, Issued
<1>5. OneChainPerLogin'
  BY <1>1, <1>2 DEF ChainInv, OneChainPerLogin
<1> QED
  BY <1>4, <1>5 DEF ChainInv

\* A login, be it of a registration, begins a chain of its own.
LEMMA NewChain ==
    ASSUME ChainInv, AuthTypeOK', NEW r \in Handlers, NEW u,
           token' = token, logins' = logins + 1,
           Proceed(r, [op |-> "store", user |-> u, login |-> logins'])
    PROVE  ChainInv'
<1>1. logins \in Nat
  BY DEF ChainInv, AuthTypeOK
<1>2. handler'[r].login = logins + 1
  BY DEF ChainInv, AuthTypeOK, Proceed
<1>3. Stored' = Stored
  BY DEF Stored
<1>4. \A q \in Storing' : q # r => q \in Storing /\ handler'[q] = handler[q]
  BY DEF ChainInv, AuthTypeOK, Proceed, Storing
<1>5. Issued'
  BY <1>1, <1>2, <1>3, <1>4 DEF ChainInv, Issued, Storing
<1>6. OneChainPerLogin'
  <2>1. \A t \in Stored : token[t].login # logins + 1
    BY <1>1 DEF ChainInv, Issued
  <2>2. \A q \in Storing' : q # r => handler'[q].login # logins + 1
    BY <1>1, <1>4 DEF ChainInv, Issued
  <2> QED
    BY <1>2, <1>3, <1>4, <2>1, <2>2 DEF ChainInv, OneChainPerLogin
<1> QED
  BY <1>5, <1>6 DEF ChainInv

\* Every step keeps the types.
LEMMA TokensStepTyped ==
    ASSUME ChainInv, Owned, [AuthNext]_authVars
    PROVE  AuthTypeOK' /\ Owned'
<1>0. AuthTypeOK
  BY DEF ChainInv
<1> USE <1>0
<1>1. ASSUME NEW u \in Users, Logout(u)
      PROVE  AuthTypeOK' /\ Owned'
  BY <1>1 DEF Logout, AuthTypeOK, Owned, Stored
<1>2. ASSUME NEW u \in Users, NEW status \in {"open", "suspended"}, UpdateUserStatus(u, status)
      PROVE  AuthTypeOK' /\ Owned'
  BY <1>2 DEF UpdateUserStatus, AuthTypeOK, Owned, Stored
<1>3. ASSUME NEW r \in Handlers, NEW u \in Users, RegisterRead(r, u)
      PROVE  AuthTypeOK' /\ Owned'
  BY <1>3, TokenFields DEF RegisterRead, Start, Proceed, AuthTypeOK, Owned, Stored
<1>4. ASSUME NEW r \in Handlers, NEW u \in Users, Login(r, u)
      PROVE  AuthTypeOK' /\ Owned'
  <2>1. logins' \in Logins
    BY <1>4, AuthTokensAssumption DEF Login, AuthTypeOK, Logins
  <2>2. [op |-> "store", user |-> u, login |-> logins'] \in HandlerStates
    BY <2>1, TokenFields
  <2> QED
    BY <1>4, <2>1, <2>2 DEF Login, Start, Proceed, AuthTypeOK, Owned, Stored, Logins
<1>5. ASSUME NEW r \in Handlers, RegisterInsert(r)
      PROVE  AuthTypeOK' /\ Owned'
  <2>1. logins' \in Logins /\ handler[r].user \in Users
    BY <1>5, TokenFields, AuthTokensAssumption DEF RegisterInsert, AuthTypeOK, Logins
  <2>2. [op |-> "store", user |-> handler[r].user, login |-> logins'] \in HandlerStates
    BY <2>1, TokenFields
  <2> QED
    BY <1>5, <2>1, <2>2 DEF RegisterInsert, Proceed, AuthTypeOK, Owned, Stored, Logins
<1>6. ASSUME NEW r \in Handlers, NEW t \in Tokens, GenerateTokens(r, t)
      PROVE  AuthTypeOK' /\ Owned'
  <2>1. handler[r].user \in Users /\ handler[r].login \in 0 .. MaxLogins
    BY <1>6, TokenFields DEF GenerateTokens, Storing, Logins
  <2>2. [state |-> "stored", user |-> handler[r].user, login |-> handler[r].login]
            \in [state : {"new", "stored", "deleted"}, user : Users \cup {Nobody},
                 login : 0 .. MaxLogins]
    BY <2>1
  <2> QED
    BY <1>6, <2>1, <2>2, TokenFields DEF GenerateTokens, Proceed, AuthTypeOK, Owned, Stored
<1>7. ASSUME NEW r \in Handlers, NEW t \in Tokens, RefreshFind(r, t)
      PROVE  AuthTypeOK' /\ Owned'
  BY <1>7, TokenFields DEF RefreshFind, Start, Proceed, AuthTypeOK, Owned, Stored
<1>8. ASSUME NEW r \in Handlers, RefreshDelete(r)
      PROVE  AuthTypeOK' /\ Owned'
  <2> DEFINE t == handler[r].token
             q == [op |-> "store", user |-> token[t].user, login |-> token[t].login]
  <2>1. t \in Stored /\ token' = Removed(t) /\ Proceed(r, q)
    BY <1>8 DEF RefreshDelete
  <2>2. token[t].user \in Users /\ token[t].login \in Logins
    BY <2>1, AuthTokensAssumption DEF Owned, ChainInv, Issued, AuthTypeOK, Logins
  <2>3. q \in HandlerStates
    BY <2>2, TokenFields
  <2> QED
    BY <1>8, <2>1, <2>3 DEF RefreshDelete, Removed, Proceed, AuthTypeOK, Owned, Stored
<1>9. ASSUME NEW r \in Handlers, Fail(r)
      PROVE  AuthTypeOK' /\ Owned'
  BY <1>9, TokenFields DEF Fail, Proceed, AuthTypeOK, Owned, Stored
<1>10. CASE UNCHANGED authVars
  BY <1>10 DEF authVars, AuthTypeOK, Owned, Stored
<1> QED
  BY <1>1, <1>2, <1>3, <1>4, <1>5, <1>6, <1>7, <1>8, <1>9, <1>10 DEF AuthNext

-----------------------------------------------------------------------------

\* A chain goes on from a handler to the token it stores.
LEMMA GenerateKeeps ==
    ASSUME ChainInv, AuthTypeOK', NEW r \in Handlers, NEW t \in Tokens, GenerateTokens(r, t)
    PROVE  ChainInv'
<1>1. r \in Storing /\ handler' = [handler EXCEPT ![r] = AtRest]
      /\ logins' = logins
  BY DEF GenerateTokens, Storing, Proceed
<1>2. t \in Tokens \ Stored /\ token'[t].login = handler[r].login
  BY DEF GenerateTokens, Stored, ChainInv, AuthTypeOK
<1>3. Stored' \subseteq Stored \cup {t} /\ \A s \in Tokens \ {t} : token'[s] = token[s]
  BY DEF GenerateTokens, Stored, ChainInv, AuthTypeOK
<1>4. Storing' \subseteq Storing \ {r}
      /\ \A q \in Storing' : handler'[q] = handler[q]
  BY <1>1 DEF Storing, AtRest, ChainInv, AuthTypeOK
<1>5. \A s \in Stored' \ {t} : s \in Stored /\ token'[s] = token[s]
  BY <1>3 DEF Stored
<1>6. Issued'
  BY <1>1, <1>2, <1>3, <1>4, <1>5 DEF ChainInv, Issued
<1>7. OneChainPerLogin'
  BY <1>1, <1>2, <1>4, <1>5 DEF ChainInv, OneChainPerLogin
<1> QED
  BY <1>6, <1>7 DEF ChainInv

\* A chain goes on from a token to the handler that deletes it.
LEMMA RefreshKeeps ==
    ASSUME ChainInv, AuthTypeOK', NEW r \in Handlers, RefreshDelete(r)
    PROVE  ChainInv'
<1> DEFINE t == handler[r].token
           q == [op |-> "store", user |-> token[t].user, login |-> token[t].login]
<1>1. t \in Stored /\ token' = Removed(t)
      /\ handler' = [handler EXCEPT ![r] = q]
      /\ logins' = logins /\ handler[r].op = "delete"
  BY DEF RefreshDelete, Proceed
<1>2. handler'[r].login = token[t].login
  BY <1>1 DEF ChainInv, AuthTypeOK
<1>3. t \in Tokens
  BY <1>1 DEF Stored
<1>4. token'[t].state = "deleted" /\ \A s \in Tokens \ {t} : token'[s] = token[s]
  BY <1>1, <1>3 DEF Removed, ChainInv, AuthTypeOK
<1>5. \A s \in Stored' : s \in Stored \ {t} /\ token'[s] = token[s]
  BY <1>4 DEF Stored
<1>6. \A p \in Storing' \ {r} : p \in Storing /\ handler'[p] = handler[p]
  BY <1>1 DEF Storing, ChainInv, AuthTypeOK
<1>7. Issued'
  BY <1>1, <1>2, <1>5, <1>6 DEF ChainInv, Issued
<1>8. OneChainPerLogin'
  BY <1>1, <1>2, <1>5, <1>6 DEF ChainInv, OneChainPerLogin
<1> QED
  BY <1>7, <1>8 DEF ChainInv

\* The initial state.
LEMMA TokensInit ==
    ASSUME AuthInit
    PROVE  ChainInv /\ Owned
BY AuthTokensAssumption DEF AuthInit, ChainInv, AuthTypeOK, Issued, OneChainPerLogin, Owned,
       Stored, Storing, HandlerStates, AtRest

\* Every step keeps the invariant.
LEMMA TokensStepKeeps ==
    ASSUME ChainInv, Owned, [AuthNext]_authVars
    PROVE  ChainInv' /\ Owned'
<1>1. AuthTypeOK' /\ Owned'
  BY TokensStepTyped
<1>2. ASSUME NEW u \in Users, Logout(u)
      PROVE  ChainInv'
  <2>1. logins' = logins /\ handler' = handler
    BY <1>2 DEF Logout
  <2>2. \A t \in Tokens : token'[t].state = "stored" => token'[t] = token[t]
    BY <1>2 DEF Logout, ChainInv, AuthTypeOK
  <2> QED
    BY <1>1, <2>1, <2>2, OnlyLess DEF ChainInv, AuthTypeOK
<1>3. ASSUME NEW u \in Users, NEW status \in {"open", "suspended"}, UpdateUserStatus(u, status)
      PROVE  ChainInv'
  BY <1>1, <1>3, OnlyLess DEF UpdateUserStatus, ChainInv, AuthTypeOK
<1>4. ASSUME NEW r \in Handlers, NEW u \in Users, RegisterRead(r, u)
      PROVE  ChainInv'
  BY <1>1, <1>4, OnlyLess DEF RegisterRead, Start, Proceed, ChainInv, AuthTypeOK
<1>5. ASSUME NEW r \in Handlers, NEW u \in Users, Login(r, u)
      PROVE  ChainInv'
  BY <1>1, <1>5, NewChain DEF Login, Start
<1>6. ASSUME NEW r \in Handlers, RegisterInsert(r)
      PROVE  ChainInv'
  BY <1>1, <1>6, NewChain DEF RegisterInsert
<1>7. ASSUME NEW r \in Handlers, NEW t \in Tokens, GenerateTokens(r, t)
      PROVE  ChainInv'
  BY <1>1, <1>7, GenerateKeeps
<1>8. ASSUME NEW r \in Handlers, NEW t \in Tokens, RefreshFind(r, t)
      PROVE  ChainInv'
  BY <1>1, <1>8, OnlyLess DEF RefreshFind, Start, Proceed, ChainInv, AuthTypeOK
<1>9. ASSUME NEW r \in Handlers, RefreshDelete(r)
      PROVE  ChainInv'
  BY <1>1, <1>9, RefreshKeeps
<1>10. ASSUME NEW r \in Handlers, Fail(r)
       PROVE  ChainInv'
  BY <1>1, <1>10, OnlyLess DEF Fail, Proceed, AtRest, ChainInv, AuthTypeOK
<1>11. CASE UNCHANGED authVars
  BY <1>1, <1>11, OnlyLess DEF authVars, ChainInv, AuthTypeOK
<1> QED
  BY <1>1, <1>2, <1>3, <1>4, <1>5, <1>6, <1>7, <1>8, <1>9, <1>10, <1>11 DEF AuthNext

-----------------------------------------------------------------------------

\* A login's chain is never doubled: no token is worth two, however often it is sent and
\* whatever fails between the delete and the create of refreshTokens.
THEOREM TokensOnce == AuthSpec => []OneChainPerLogin
<1>1. AuthInit => ChainInv /\ Owned
  BY TokensInit
<1>2. ChainInv /\ Owned /\ [AuthNext]_authVars => (ChainInv /\ Owned)'
  BY TokensStepKeeps
<1>3. ChainInv => OneChainPerLogin
  BY DEF ChainInv
<1> QED
  BY <1>1, <1>2, <1>3, PTL DEF AuthSpec

\* Every variable keeps its type.
THEOREM TokensTyped == AuthSpec => []AuthTypeOK
<1>1. AuthInit => ChainInv /\ Owned
  BY TokensInit
<1>2. ChainInv /\ Owned /\ [AuthNext]_authVars => (ChainInv /\ Owned)'
  BY TokensStepKeeps
<1>3. ChainInv => AuthTypeOK
  BY DEF ChainInv
<1> QED
  BY <1>1, <1>2, <1>3, PTL DEF AuthSpec
=============================================================================
