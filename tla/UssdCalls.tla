------------------------------ MODULE UssdCalls ------------------------------
(***************************************************************************)
(* Several USSD calls at once, while they sign in (ussd.service.ts).       *)
(*                                                                         *)
(* One UssdMenu serves every call, and what a request sets in it - the     *)
(* arguments, the way to answer - stays until the next request of any      *)
(* call sets it again.  session.get, session.set, con and end go to the    *)
(* session that the arguments name when they run.  A handler that comes    *)
(* back from the database or from bcrypt therefore goes on with the call   *)
(* of the latest request, its own or not, and a call whose request was     *)
(* overtaken is not answered any more.                                     *)
(*                                                                         *)
(* The session store answers at once, so that a handler runs from one      *)
(* input or output to the next as one step, and the walk along the keys    *)
(* with the handler's first statements.  The menus behind the PIN, which   *)
(* set nothing that is modelled here, are one wait for the database.       *)
(***************************************************************************)
EXTENDS Naturals, Sequences

CONSTANTS
    Users,      \* registered farmers, each with a phone
    Calls,      \* calls, each with a session id of its own
    Handlers,   \* requests in the works at the same time
    Numbers,    \* the four-digit numbers
    Entries,    \* what callers type
    MaxKeys,    \* bound: entries of one call
    FirstPins,  \* what pinHash may be at first
    Nobody      \* what a column or a field holds before it is set

ASSUME CallsAssumption ==
    /\ MaxKeys \in Nat
    /\ FirstPins \subseteq [Users -> Numbers \cup {Nobody}]
    /\ Nobody \notin Users \cup Calls \cup Numbers \cup Entries

VARIABLES
    pinHash,    \* users.ussdPinHash
    held,       \* history: the PINs that each user has had
    caller,     \* whose phone makes the call
    typed,      \* the entries of the call, posted again with each request
    phase,      \* "new", "waiting" for an answer, "asked" for an entry, "over"
    sessions,   \* UssdService.sessions, as far as the sign-in goes
    args,       \* menu.args: the call of the latest request
    running,    \* handlers that wait for the database or for bcrypt
    crossed     \* history: calls with a request that came while another call's handler waited

callVars == <<pinHash, held, caller, typed, phase, sessions, args, running, crossed>>

Blank == [setup |-> FALSE, setupUser |-> Nobody, attempts |-> 0, newPin |-> Nobody,
          pinValid |-> FALSE, verified |-> FALSE, user |-> Nobody]

Free == [op |-> "free"]

\* The call of a handler is history: the code has it in menu.args only, and there not for long.
Handler ==
    [op : {"free"}]
    \cup [op : {"start", "login"}, call : Calls, user : Users]
    \cup [op : {"menu"}, call : Calls]
    \cup [op : {"find"}, call : Calls, user : Users, pin : Entries]
    \cup [op : {"compare"}, call : Calls, user : Users, attempts : 0 .. 2, valid : BOOLEAN]
    \cup [op : {"store"}, call : Calls, user : Users, pin : Numbers]

CallsInit ==
    /\ pinHash \in FirstPins
    /\ held = [u \in Users |-> {pinHash[u]} \ {Nobody}]
    /\ caller = [c \in Calls |-> Nobody]
    /\ typed = [c \in Calls |-> <<>>]
    /\ phase = [c \in Calls |-> "new"]
    /\ sessions = [c \in Calls |-> Blank]
    /\ args = Nobody
    /\ running = [h \in Handlers |-> Free]
    /\ crossed = {}

(***************************************************************************)
(* A request.                                                              *)
(***************************************************************************)

\* menu.run: from now on the menu is that of call c.
Receive(c) ==
    /\ args' = c
    /\ crossed' = IF \E h \in Handlers : running[h] # Free /\ running[h].call # c
                  THEN crossed \cup {c}
                  ELSE crossed

Start(h, work) ==
    /\ running[h] = Free
    /\ running' = [running EXCEPT ![h] = work]

\* Where the walk along n entries ends.  Behind the PIN no entry leads back to the sign-in; a
\* new PIN is asked for and confirmed by turns.
Asks(n, s) ==
    IF ~s.setup THEN IF s.verified /\ n > 1 THEN "menu" ELSE "verifyPin"
    ELSE IF ~s.pinValid THEN "capture"
    ELSE IF s.verified /\ n > 2 THEN "menu"
    ELSE IF n % 2 = 0 THEN "confirm" ELSE "capture"

\* Call c posts one entry more, and the walk ends in state at.
Posts(c, v, at) ==
    /\ phase[c] = "asked"
    /\ Len(typed[c]) < MaxKeys
    /\ Asks(Len(typed[c]) + 1, sessions[c]) = at
    /\ typed' = [typed EXCEPT ![c] = Append(@, v)]
    /\ Receive(c)
    /\ UNCHANGED <<pinHash, held, caller>>

Waits(c) == phase' = [phase EXCEPT ![c] = "waiting"] /\ UNCHANGED sessions

DialIn(h, c, u) ==
    /\ phase[c] = "new"
    /\ caller' = [caller EXCEPT ![c] = u]
    /\ Receive(c)
    /\ Start(h, [op |-> "start", call |-> c, user |-> u])
    /\ Waits(c)
    /\ UNCHANGED <<pinHash, held, typed>>

EnterPin(h, c, v) ==
    /\ Posts(c, v, "verifyPin")
    /\ Start(h, [op |-> "find", call |-> c, user |-> caller[c], pin |-> v])
    /\ Waits(c)

\* auth.pinSetup.capture answers at once.
EnterNewPin(c, v) ==
    /\ Posts(c, v, "capture")
    /\ sessions' = IF v \in Numbers
                   THEN [sessions EXCEPT ![c].newPin = v, ![c].pinValid = TRUE]
                   ELSE [sessions EXCEPT ![c].pinValid = FALSE]
    /\ UNCHANGED <<phase, running>>

\* auth.pinSetup.confirm of another PIN; if something is missing the start state runs.
RefuseNewPin(h, c, v) ==
    /\ Posts(c, v, "confirm")
    /\ sessions[c].newPin # v \/ sessions[c].setupUser = Nobody
    /\ IF Nobody \in {sessions[c].newPin, sessions[c].setupUser}
       THEN Start(h, [op |-> "start", call |-> c, user |-> caller[c]]) /\ Waits(c)
       ELSE /\ sessions' = [sessions EXCEPT ![c].newPin = Nobody, ![c].pinValid = FALSE,
                                            ![c].verified = FALSE]
            /\ UNCHANGED <<phase, running>>

\* Seeded fault: the two entries are not compared.
ConfirmAnyPin(h, c, v) ==
    /\ Posts(c, v, "confirm")
    /\ sessions[c].newPin # Nobody /\ sessions[c].setupUser # Nobody
    /\ Start(h, [op |-> "store", call |-> c, user |-> sessions[c].setupUser,
                 pin |-> sessions[c].newPin])
    /\ Waits(c)

ConfirmPin(h, c, v) ==
    /\ Posts(c, v, "confirm")
    /\ sessions[c].newPin = v /\ sessions[c].setupUser # Nobody
    /\ Start(h, [op |-> "store", call |-> c, user |-> sessions[c].setupUser, pin |-> v])
    /\ Waits(c)

\* A menu behind the PIN; most of them go to the start state when no userId is set.
OpenMenu(h, c, v) ==
    /\ Posts(c, v, "menu")
    /\ \/ Start(h, [op |-> "menu", call |-> c])
       \/ /\ sessions[c].user = Nobody
          /\ Start(h, [op |-> "start", call |-> c, user |-> caller[c]])
    /\ Waits(c)

(***************************************************************************)
(* A handler goes on, for the call that menu.args now names.               *)
(***************************************************************************)

Resumes(h, op) == running[h].op = op

Writes(s) == sessions' = [sessions EXCEPT ![args] = s]

\* The answer reaches the latest request, unless it has had one.
Answer(next) ==
    phase' = IF phase[args] = "waiting" THEN [phase EXCEPT ![args] = next] ELSE phase

Done(h) == running' = [running EXCEPT ![h] = Free]

\* menu.con
Shows(h, s) == Writes(s) /\ Answer("asked") /\ Done(h)

\* menu.end
Closes(h) == Writes(Blank) /\ Answer("over") /\ Done(h)

Same == UNCHANGED <<caller, typed, args, crossed>>

\* The start state.
FindPhone(h) ==
    /\ Resumes(h, "start")
    /\ LET u == running[h].user
           s == sessions[args]
       IN  Shows(h, IF pinHash[u] = Nobody
                    THEN [s EXCEPT !.setup = TRUE, !.setupUser = u, !.attempts = 0]
                    ELSE [s EXCEPT !.setup = FALSE])
    /\ Same /\ UNCHANGED <<pinHash, held>>

\* Seeded fault: the hash is not looked at.
FindUserBlind(h) ==
    /\ Resumes(h, "find")
    /\ running' = [running EXCEPT ![h] =
          [op |-> "compare", call |-> @.call, user |-> @.user,
           attempts |-> sessions[args].attempts, valid |-> pinHash[@.user] # Nobody]]
    /\ Same /\ UNCHANGED <<pinHash, held, phase, sessions>>

FindUser(h) ==
    /\ Resumes(h, "find")
    /\ running' = [running EXCEPT ![h] =
          [op |-> "compare", call |-> @.call, user |-> @.user,
           attempts |-> sessions[args].attempts, valid |-> @.pin = pinHash[@.user]]]
    /\ Same /\ UNCHANGED <<pinHash, held, phase, sessions>>

ComparedTrue(h) ==
    /\ Resumes(h, "compare") /\ running[h].valid
    /\ Writes([sessions[args] EXCEPT !.attempts = 0, !.verified = TRUE])
    /\ running' = [running EXCEPT ![h] = [op |-> "login", call |-> @.call, user |-> @.user]]
    /\ Same /\ UNCHANGED <<pinHash, held, phase>>

\* Seeded fault: the third wrong entry is counted, and not answered.
ComparedFalseSilent(h) ==
    /\ Resumes(h, "compare") /\ ~running[h].valid
    /\ LET attempts == running[h].attempts + 1
           s == sessions[args]
       IN  IF attempts >= 3
           THEN Writes([s EXCEPT !.verified = FALSE]) /\ Done(h) /\ UNCHANGED phase
           ELSE Shows(h, [s EXCEPT !.attempts = attempts, !.verified = FALSE])
    /\ Same /\ UNCHANGED <<pinHash, held>>

\* Seeded fault: one attempt more.
ComparedFalseLate(h) ==
    /\ Resumes(h, "compare") /\ ~running[h].valid
    /\ LET attempts == running[h].attempts + 1
       IN  IF attempts > 3
           THEN Closes(h)
           ELSE Shows(h, [sessions[args] EXCEPT !.attempts = attempts, !.verified = FALSE])
    /\ Same /\ UNCHANGED <<pinHash, held>>

\* attempts is what the session of the call that args named before the comparison had.
ComparedFalse(h) ==
    /\ Resumes(h, "compare") /\ ~running[h].valid
    /\ LET attempts == running[h].attempts + 1
       IN  IF attempts >= 3
           THEN Closes(h)
           ELSE Shows(h, [sessions[args] EXCEPT !.attempts = attempts, !.verified = FALSE])
    /\ Same /\ UNCHANGED <<pinHash, held>>

LoggedIn(h) ==
    /\ Resumes(h, "login")
    /\ Shows(h, [sessions[args] EXCEPT !.user = running[h].user])
    /\ Same /\ UNCHANGED <<pinHash, held>>

StorePin(h) ==
    /\ Resumes(h, "store")
    /\ LET u == running[h].user
       IN  /\ pinHash' = [pinHash EXCEPT ![u] = running[h].pin]
           /\ held' = [held EXCEPT ![u] = @ \cup {running[h].pin}]
           /\ Shows(h, [sessions[args] EXCEPT !.newPin = Nobody, !.pinValid = FALSE,
                                              !.setup = FALSE, !.verified = TRUE, !.user = u])
    /\ Same

ShowMenu(h) ==
    /\ Resumes(h, "menu")
    /\ Shows(h, sessions[args]) \/ Closes(h)
    /\ Same /\ UNCHANGED <<pinHash, held>>

\* The database does not answer: every state catches it and ends the session.
Unreachable(h) ==
    /\ running[h].op \in {"start", "find", "login", "store", "menu"}
    /\ Closes(h)
    /\ Same /\ UNCHANGED <<pinHash, held>>

\* The provider gives up the call, and the server is not told.
GiveUp(c) ==
    /\ phase[c] \in {"waiting", "asked"}
    /\ phase' = [phase EXCEPT ![c] = "over"]
    /\ UNCHANGED <<pinHash, held, caller, typed, sessions, args, running, crossed>>

\* Menu, sessions and handlers are in the memory of one process.
ProcessRestart ==
    /\ sessions' = [c \in Calls |-> Blank]
    /\ args' = Nobody
    /\ running' = [h \in Handlers |-> Free]
    /\ UNCHANGED <<pinHash, held, caller, typed, phase, crossed>>

-----------------------------------------------------------------------------

GoOn(h) ==
    \/ FindPhone(h) \/ FindUser(h) \/ ComparedTrue(h) \/ ComparedFalse(h)
    \/ LoggedIn(h) \/ StorePin(h) \/ ShowMenu(h)

RequestOf(c) ==
    \/ \E h \in Handlers, u \in Users : DialIn(h, c, u)
    \/ \E v \in Entries :
          \/ EnterNewPin(c, v)
          \/ \E h \in Handlers :
                EnterPin(h, c, v) \/ RefuseNewPin(h, c, v) \/ ConfirmPin(h, c, v) \/ OpenMenu(h, c, v)

CallsNext ==
    \/ \E c \in Calls : RequestOf(c) \/ GiveUp(c)
    \/ \E h \in Handlers : GoOn(h) \/ Unreachable(h)
    \/ ProcessRestart

\* Each await of a handler is answered, with a result or with a failure.
CallsSpec ==
    CallsInit /\ [][CallsNext]_callVars /\ \A h \in Handlers : WF_callVars(GoOn(h) \/ Unreachable(h))

(***************************************************************************)
(* Properties.                                                             *)
(***************************************************************************)

\* Every variable has its type, and however the writes of several calls are mixed in one
\* session, no third wrong PIN is counted in it (verifyPin ends it).
CallsTypeOK ==
    /\ pinHash \in [Users -> Numbers \cup {Nobody}]
    /\ held \in [Users -> SUBSET Numbers]
    /\ caller \in [Calls -> Users \cup {Nobody}]
    /\ typed \in [Calls -> Seq(Entries)]
    /\ phase \in [Calls -> {"new", "waiting", "asked", "over"}]
    /\ sessions \in [Calls -> [setup : BOOLEAN, setupUser : Users \cup {Nobody},
                               attempts : 0 .. 2, newPin : Numbers \cup {Nobody},
                               pinValid : BOOLEAN, verified : BOOLEAN,
                               user : Users \cup {Nobody}]]
    /\ args \in Calls \cup {Nobody}
    /\ running \in [Handlers -> Handler]
    /\ crossed \subseteq Calls
    /\ \A c \in Calls : phase[c] # "new" => caller[c] # Nobody

TypedIn(c, p) == \E i \in 1 .. Len(typed[c]) : typed[c][i] = p

TypedTwice(c, p) == \E i, j \in 1 .. Len(typed[c]) : i < j /\ typed[c][i] = p /\ typed[c][j] = p

\* Whoever a session takes for a farmer, a PIN of that farmer has been typed in some call; and
\* in this call by this farmer, unless a request of the call came while another call's handler
\* was waiting (session.set of verifyPin and confirm).
KnownByTypedPin ==
    \A c \in Calls : sessions[c].user # Nobody =>
        \E d \in Calls :
            /\ \E p \in held[sessions[c].user] : TypedIn(d, p)
            /\ c \notin crossed => d = c /\ sessions[c].user = caller[c]

\* A PIN is stored only when one call has had it typed twice, although what the session keeps
\* of the first entry may have been written over by other calls in between.
StoredWasTypedTwice ==
    [][\A u \in Users : pinHash'[u] # pinHash[u] => \E c \in Calls : TypedTwice(c, pinHash'[u])]_callVars

\* The latest request is answered, by its own handler or by another, until a later request
\* takes the menu over or the server stops.
LatestIsAnswered ==
    \A c \in Calls :
        phase[c] = "waiting" /\ args = c ~> phase[c] # "waiting" \/ args # c

(***************************************************************************)
(* What the comment of auth.verifyPin says, and what every caller expects. *)
(* Both fail when calls overlap.                                           *)
(***************************************************************************)

\* "Mark session as authenticated": the one whose PIN was verified.
KnownInOwnCall ==
    \A c \in Calls : sessions[c].user # Nobody => sessions[c].user = caller[c]

\* A caller who waits is answered.
EveryoneIsAnswered == \A c \in Calls : phase[c] = "waiting" ~> phase[c] # "waiting"
=============================================================================
