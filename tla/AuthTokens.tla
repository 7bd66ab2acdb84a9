----------------------------- MODULE AuthTokens -----------------------------
(***************************************************************************)
(* Accounts and their refresh tokens (auth.service.ts).                    *)
(*                                                                         *)
(* A registration or a login starts a chain of refresh tokens: each use of *)
(* a token deletes its row and then stores the next one.  handler[r] is    *)
(* what handler r remembers between its statements; a client may send one  *)
(* token several times at once.  Tokens carry a fresh jti, so none is      *)
(* stored twice.                                                           *)
(*                                                                         *)
(* Passwords, signatures and expiry can only refuse a call, which then     *)
(* changes nothing: they are left out.                                     *)
(***************************************************************************)
EXTENDS Integers, FiniteSets

CONSTANTS
    Users,      \* accounts, one for each e-mail and phone
    Tokens,     \* refresh tokens
    Handlers,   \* handlers in flight at the same time
    MaxLogins,  \* bound: registrations and logins
    Nobody        \* no user: the token was never issued

ASSUME AuthTokensAssumption ==
    /\ Nobody \notin Users
    /\ MaxLogins \in Nat

VARIABLES
    account,    \* account[u]: "absent", or the users row as login sees it
    token,      \* token[t]: the refresh_tokens row, its user and its login
    logins,     \* the number of registrations and logins so far
    handler     \* handlers between two statements

authVars == <<account, token, logins, handler>>

Logins == 1 .. MaxLogins

AtRest == [op |-> "idle"]

HandlerStates ==
    [op : {"idle"}]
    \cup [op : {"register"}, user : Users]
    \cup [op : {"delete"}, token : Tokens]
    \cup [op : {"store"}, user : Users, login : Logins]

AuthInit ==
    /\ account = [u \in Users |-> "absent"]
    /\ token = [t \in Tokens |-> [state |-> "new", user |-> Nobody, login |-> 0]]
    /\ logins = 0
    /\ handler = [r \in Handlers |-> AtRest]

Stored == {t \in Tokens : token[t].state = "stored"}

\* Handlers about to store a token.
Storing == {r \in Handlers : handler[r].op = "store"}

Proceed(r, record) == handler' = [handler EXCEPT ![r] = record]

Start(r, record) == handler[r] = AtRest /\ Proceed(r, record)

(***************************************************************************)
(* Accounts.                                                               *)
(***************************************************************************)

RegisterRead(r, u) ==
    /\ account[u] = "absent"
    /\ Start(r, [op |-> "register", user |-> u])
    /\ UNCHANGED <<account, token, logins>>

\* The unique columns refuse the second of two registrations.
RegisterInsert(r) ==
    /\ handler[r].op = "register"
    /\ LET u == handler[r].user IN
       /\ account[u] = "absent"
       /\ logins < MaxLogins
       /\ account' = [account EXCEPT ![u] = "open"]
       /\ logins' = logins + 1
       /\ Proceed(r, [op |-> "store", user |-> u, login |-> logins'])
    /\ UNCHANGED token

\* An administrator suspends and restores accounts; their tokens stay.
UpdateUserStatus(u, status) ==
    /\ account[u] # "absent"
    /\ account' = [account EXCEPT ![u] = status]
    /\ UNCHANGED <<token, logins, handler>>

Login(r, u) ==
    /\ account[u] = "open"
    /\ logins < MaxLogins
    /\ logins' = logins + 1
    /\ Start(r, [op |-> "store", user |-> u, login |-> logins'])
    /\ UNCHANGED <<account, token>>

(***************************************************************************)
(* Tokens.                                                                 *)
(***************************************************************************)

\* The last statement of registration, login and refresh.
GenerateTokens(r, t) ==
    /\ handler[r].op = "store"
    /\ token[t].state = "new"
    /\ token' = [token EXCEPT ![t] =
                    [state |-> "stored", user |-> handler[r].user, login |-> handler[r].login]]
    /\ Proceed(r, AtRest)
    /\ UNCHANGED <<account, logins>>

\* Whether the account was suspended since is not asked.
RefreshFind(r, t) ==
    /\ t \in Stored
    /\ Start(r, [op |-> "delete", token |-> t])
    /\ UNCHANGED <<account, token, logins>>

\* What became of the row when it is deleted.
Removed(t) == [token EXCEPT ![t].state = "deleted"]

\* Seeded fault: a row that is gone is not noticed (deleteMany).
RefreshDeleteMany(r) ==
    /\ handler[r].op = "delete"
    /\ LET t == handler[r].token IN
       /\ token' = Removed(t)
       /\ Proceed(r, [op |-> "store", user |-> token[t].user, login |-> token[t].login])
    /\ UNCHANGED <<account, logins>>

\* The delete throws when the row is gone, and the refresh fails.
RefreshDelete(r) ==
    /\ handler[r].op = "delete"
    /\ LET t == handler[r].token IN
       /\ t \in Stored
       /\ token' = Removed(t)
       /\ Proceed(r, [op |-> "store", user |-> token[t].user, login |-> token[t].login])
    /\ UNCHANGED <<account, logins>>

\* All tokens of the user that are stored at this moment.
Logout(u) ==
    /\ account[u] # "absent"
    /\ token' = [t \in Tokens |->
                    IF t \in Stored /\ token[t].user = u
                    THEN [token[t] EXCEPT !.state = "deleted"] ELSE token[t]]
    /\ UNCHANGED <<account, logins, handler>>

\* A statement of the handler fails, or its process stops.
Fail(r) ==
    /\ handler[r] # AtRest
    /\ Proceed(r, AtRest)
    /\ UNCHANGED <<account, token, logins>>

-----------------------------------------------------------------------------

AuthNext ==
    \/ \E u \in Users : \/ Logout(u)
                        \/ \E status \in {"open", "suspended"} : UpdateUserStatus(u, status)
    \/ \E r \in Handlers :
          \/ \E u \in Users : RegisterRead(r, u) \/ Login(r, u)
          \/ RegisterInsert(r)
          \/ \E t \in Tokens : GenerateTokens(r, t) \/ RefreshFind(r, t)
          \/ RefreshDelete(r)
          \/ Fail(r)

AuthSpec == AuthInit /\ [][AuthNext]_authVars

-----------------------------------------------------------------------------

\* Every variable has its type.
AuthTypeOK ==
    /\ account \in [Users -> {"absent", "open", "suspended"}]
    /\ token \in [Tokens -> [state : {"new", "stored", "deleted"}, user : Users \cup {Nobody},
                             login : 0 .. MaxLogins]]
    /\ logins \in 0 .. MaxLogins
    /\ handler \in [Handlers -> HandlerStates]

\* A token sent twice, or while a logout, a failure or a restart comes between the delete
\* and the create of refreshTokens, never makes two chains of one login: a login has at
\* most one token, stored or about to be.
OneChainPerLogin ==
    /\ \A t1, t2 \in Stored : token[t1].login = token[t2].login => t1 = t2
    /\ \A r1, r2 \in Storing : handler[r1].login = handler[r2].login => r1 = r2
    /\ \A t \in Stored, r \in Storing : token[t].login # handler[r].login
=============================================================================
