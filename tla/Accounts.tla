------------------------------ MODULE Accounts ------------------------------
(***************************************************************************)
(* Accounts and sessions of the server: the rows of users and              *)
(* refresh_tokens, the events of the outbox, and the identity commands.    *)
(*                                                                         *)
(* A command reads on pooled connections, works on the copy it read, and   *)
(* writes in a transaction of its own; between its reads, its transaction  *)
(* and what follows the transaction every other command may run.  A call   *)
(* in progress is a slot: pc says which part of the command comes next.    *)
(* It may end anywhere (a constraint, a database error, the request        *)
(* timeout that drops the handler, a crash).                               *)
(***************************************************************************)
EXTENDS Naturals, FiniteSets

CONSTANTS
  Users, Emails, Phones, Tokens,
  Passwords,     \* what a user can type; the hash is the password itself
  None,
  Seeded,        \* the accounts at the start: [Users -> UserRow or NoUser]
  OtpAvailable,  \* delivery.available(): codes can be sent
  Calls,         \* slots for calls in progress
  MaxCalls       \* bound: calls made and suspensions

Random == "random"     \* a hash of random bytes: nobody knows the password
Roles == {"user", "admin"}
Identifiers == Emails \cup Phones

\* A row of users.  Of status only is_active is read.
UserRow ==
  [ email : Emails \cup {None}, phone : Phones \cup {None},
    pass : Passwords \cup {Random}, role : Roles, active : BOOLEAN,
    method : {"password", "phone_otp"} ]
NoUser == [ email |-> None, phone |-> None, pass |-> Random, role |-> "user",
            active |-> FALSE, method |-> "password" ]

\* A row of refresh_tokens.  parent and under are history: the token it was
\* rotated from, and the password its session was opened with.
TokenRow ==
  [ user : Users \cup {None},
    state : {"none", "live", "expired", "revoked", "deleted"},
    parent : Tokens \cup {None}, under : Passwords \cup {Random} ]
NoToken == [user |-> None, state |-> "none", parent |-> None, under |-> Random]

\* An event: which account, what about it, and for a role by whom.
Event(what, u, by) == [what |-> what, user |-> u, by |-> by]
EventType ==
  [ what : {"registered", "made_user", "made_admin", "password",
            "identifier", "deleted"},
    user : Users, by : Users \cup {None} ]

\* The CHECK ck_users_has_identifier.
HasIdentifier(row) == row.email # None \/ row.phone # None

\* An address has an @, a number has none; the seeded rows are within the
\* constraints of the table.
ASSUME AccountsAssumption ==
  /\ None \notin Users \cup Emails \cup Phones \cup Tokens \cup Passwords
  /\ Random \notin Passwords
  /\ Emails \cap Phones = {}
  /\ Seeded \in [Users -> UserRow \cup {NoUser}]
  /\ \A u \in Users : Seeded[u] # NoUser => HasIdentifier(Seeded[u])
  /\ \A u, v \in Users : u # v =>
       /\ Seeded[u].email # None => Seeded[v].email # Seeded[u].email
       /\ Seeded[u].phone # None => Seeded[v].phone # Seeded[u].phone
  /\ OtpAvailable \in BOOLEAN
  /\ MaxCalls \in Nat

VARIABLES
  users,    \* table users
  tokens,   \* table refresh_tokens
  told,     \* table outbox_events
  call,     \* the calls in progress
  count     \* calls made so far

vars == <<users, tokens, told, call, count>>

NoCall == [ pc |-> "idle", kind |-> "none", user |-> None, by |-> None,
            arg |-> None, pass |-> Random, row |-> NoUser, events |-> {},
            token |-> None ]
Kinds == {"register", "login", "refresh", "password", "identifier", "role",
          "delete", "delete_verified"}
CallType ==
  [ pc : {"idle", "load", "unique", "end", "commit", "revoke"},
    kind : Kinds \cup {"none"},
    user : Users \cup {None}, by : Users \cup {None},
    arg : Roles \cup Passwords \cup Emails \cup {None},
    pass : Passwords \cup {Random}, row : UserRow \cup {NoUser},
    events : SUBSET EventType, token : Tokens \cup {None} ]

TypeOK ==
  /\ users \in [Users -> UserRow \cup {NoUser}]
  /\ tokens \in [Tokens -> TokenRow]
  /\ told \subseteq EventType
  /\ call \in [Calls -> CallType]
  /\ count \in 0 .. MaxCalls

Exists(u) == users[u] # NoUser

Init ==
  /\ users = Seeded
  /\ tokens = [t \in Tokens |-> NoToken]
  /\ told = { Event("registered", u, None) :
                u \in { v \in Users : Seeded[v] # NoUser } }
  /\ call = [s \in Calls |-> NoCall]
  /\ count = 0

-----------------------------------------------------------------------------
(* Repositories.                                                           *)

FindByIdentifier(i) ==
  { u \in Users : Exists(u) /\ i \in {users[u].email, users[u].phone} }

\* Both columns have a unique index: whose row would this one collide with?
Taken(u, row) ==
  \E v \in Users \ {u} :
    \/ row.email # None /\ users[v].email = row.email
    \/ row.phone # None /\ users[v].phone = row.phone

\* Mutant: no unique index.
InsertUnchecked(u, row) == users' = [users EXCEPT ![u] = row]

InsertUser(u, row) == ~Taken(u, row) /\ users' = [users EXCEPT ![u] = row]

\* Mutant: a row that is gone is written again.
UpsertUser(u, row) == ~Taken(u, row) /\ users' = [users EXCEPT ![u] = row]

\* Every column of the caller's copy is written, but not auth_method; a row
\* that is gone is no error.
UpdateUser(u, row) ==
  IF Exists(u)
  THEN /\ ~Taken(u, row)
       /\ users' = [users EXCEPT ![u] = [row EXCEPT !.method = users[u].method]]
  ELSE UNCHANGED users

\* The account's tokens go with it (ON DELETE CASCADE).
DeleteUser(u) ==
  /\ users' = [users EXCEPT ![u] = NoUser]
  /\ tokens' = [t \in Tokens |-> IF tokens[t].user = u
                  THEN [tokens[t] EXCEPT !.state = "deleted"] ELSE tokens[t]]

\* is_valid: neither revoked nor expired.
Usable(t) == tokens[t].state = "live"

NewToken(u, parent, under) ==
  [user |-> u, state |-> "live", parent |-> parent, under |-> under]

RevokedRow(r) ==
  [r EXCEPT !.state = IF @ \in {"live", "expired"} THEN "revoked" ELSE @]

\* Mutant: tokens do not reference users.
InsertOrphan(tab, t, row) ==
  tab[t] = NoToken /\ tokens' = [tab EXCEPT ![t] = row]

\* An insert needs the account's row (REFERENCES users), which the same
\* transaction may have written.
InsertToken(tab, t, row) ==
  /\ tab[t] = NoToken /\ users'[row.user] # NoUser
  /\ tokens' = [tab EXCEPT ![t] = row]

RevokeAll(u) ==
  tokens' = [t \in Tokens |->
               IF tokens[t].user = u THEN RevokedRow(tokens[t]) ELSE tokens[t]]

-----------------------------------------------------------------------------
(* The aggregate: the changed copy and the events it raises.               *)

NewUser(i, pass, method) ==
  [ email |-> IF i \in Emails THEN i ELSE None,
    phone |-> IF i \in Phones THEN i ELSE None,
    pass |-> pass, role |-> "user", active |-> TRUE, method |-> method ]

\* Mutant: the event is named after the role alone.
RoleNamed(u, role, by) == Event(role, u, by)

RoleEvent(u, role, by) ==
  Event(IF role = "admin" THEN "made_admin" ELSE "made_user", u, by)

\* No account raises its own role; keeping a role raises no event.
MayTakeRole(row, u, role, by) ==
  ~(by = u /\ role = "admin" /\ row.role # "admin")
RoleEvents(row, u, role, by) ==
  IF row.role = role THEN {} ELSE {RoleEvent(u, role, by)}

IdentifierEvents(row, u, i) ==
  IF row.email = i THEN {} ELSE {Event("identifier", u, None)}

\* Mutant: the policy lets every caller through.
AnyoneChangesRole(actorRole) == actorRole \in Roles

\* IdentityPolicy
CanChangeRole(actorRole) == actorRole = "admin"

-----------------------------------------------------------------------------
(* The start of a call.                                                    *)

\* An id that was never used, and that no other call is about to use.
Fresh(u) == /\ ~Exists(u)
            /\ \A e \in told : e.user # u
            /\ \A s \in Calls : call[s].user # u

Counted == count < MaxCalls /\ count' = count + 1

Start(s, c) ==
  /\ call[s].pc = "idle" /\ Counted
  /\ call' = [call EXCEPT ![s] = c]
  /\ UNCHANGED <<users, tokens, told>>

\* The extractor: a token is good while its account exists and is active.
AuthUser(u) == Exists(u) /\ users[u].active

Authenticated(s, by, kind, user, arg, pass) ==
  /\ AuthUser(by)
  /\ Start(s, [NoCall EXCEPT !.pc = "load", !.kind = kind, !.user = user,
                             !.by = by, !.arg = arg, !.pass = pass])

RequirePhoneOtp(i, registering) ==
  registering \/ OtpAvailable => i \in Emails

\* The identifier is free when it is looked up.
RegisterUser(s, u, i, p) ==
  /\ Fresh(u) /\ FindByIdentifier(i) = {}
  /\ Start(s, [NoCall EXCEPT !.pc = "commit", !.kind = "register", !.user = u,
                 !.pass = p, !.row = NewUser(i, p, "password"),
                 !.events = {Event("registered", u, None)}])
Register(s, u, i, p) == RequirePhoneOtp(i, TRUE) /\ RegisterUser(s, u, i, p)

LoginUser(s, i, p) ==
  \E u \in FindByIdentifier(i) :
    /\ users[u].pass = p /\ users[u].active
    /\ Start(s, [NoCall EXCEPT !.pc = "commit", !.kind = "login",
                               !.user = u, !.pass = p])
Login(s, i, p) == RequirePhoneOtp(i, FALSE) /\ LoginUser(s, i, p)

Refresh(s, t) ==
  LET u == tokens[t].user IN
  /\ Usable(t) /\ Exists(u) /\ users[u].active
  /\ Start(s, [NoCall EXCEPT !.pc = "commit", !.kind = "refresh", !.user = u,
                 !.pass = tokens[t].under, !.token = t])

\* The calls that need an access token.  Whether the caller is an admin, or
\* the new identifier an address, is settled before anything else is read.
ChangeMyPassword(s, u, current, new) ==
  /\ current # new
  /\ Authenticated(s, u, "password", u, new, current)
ChangeMyIdentifier(s, u, i, p) == Authenticated(s, u, "identifier", u, i, p)
ChangeUserRole(s, by, u, role) ==
  CanChangeRole(users[by].role) /\ Authenticated(s, by, "role", u, role, Random)
DeleteMe(s, u, p) == Authenticated(s, u, "delete", u, None, p)
DeleteVerified(s, u) ==
  Authenticated(s, u, "delete_verified", u, None, Random)

\* A second time it changes nothing.
RevokeRefreshToken(t) ==
  /\ tokens[t].state \in {"live", "expired"}
  /\ tokens' = [tokens EXCEPT ![t] = RevokedRow(@)]

\* Whoever is signed in and has the token ends its session.
Logout(by, t) ==
  /\ AuthUser(by) /\ Counted
  /\ RevokeRefreshToken(t) /\ UNCHANGED <<users, told, call>>

-----------------------------------------------------------------------------
(* The rest of a call.                                                     *)

At(s, pc, kind) == call[s].pc = pc /\ call[s].kind = kind

\* The command has read the account, changed its copy, and goes on to pc.
Loaded(s, pc, row, events) ==
  /\ Exists(call[s].user)
  /\ call' = [call EXCEPT ![s].pc = pc, ![s].row = row, ![s].events = events]
  /\ UNCHANGED <<users, tokens, told, count>>

\* The current password was typed.
Verified(s) == users[call[s].user].pass = call[s].pass

LoadPassword(s) ==
  LET c == call[s] IN
  /\ At(s, "load", "password") /\ Verified(s)
  /\ Loaded(s, "commit", [users[c.user] EXCEPT !.pass = c.arg],
            {Event("password", c.user, None)})

LoadIdentifier(s) ==
  LET c == call[s] IN
  /\ At(s, "load", "identifier") /\ Verified(s)
  /\ Loaded(s, "unique", [users[c.user] EXCEPT !.email = c.arg],
            IdentifierEvents(users[c.user], c.user, c.arg))

\* Nobody else has the new address when it is looked up.
IdentifierFree(s) ==
  /\ call[s].pc = "unique"
  /\ FindByIdentifier(call[s].arg) \subseteq {call[s].user}
  /\ call' = [call EXCEPT ![s].pc = "commit"]
  /\ UNCHANGED <<users, tokens, told, count>>

LoadRole(s) ==
  LET c == call[s] IN
  /\ At(s, "load", "role")
  /\ MayTakeRole(users[c.user], c.user, c.arg, c.by)
  /\ Loaded(s, "commit", [users[c.user] EXCEPT !.role = c.arg],
            RoleEvents(users[c.user], c.user, c.arg, c.by))

LoadDelete(s) ==
  /\ At(s, "load", "delete") /\ Verified(s)
  /\ Loaded(s, "revoke", NoUser, {Event("deleted", call[s].user, None)})

\* With a code in place of the password (its phone is the account's).
LoadVerified(s) ==
  /\ At(s, "load", "delete_verified") /\ users[call[s].user].phone # None
  /\ Loaded(s, "end", NoUser, {Event("deleted", call[s].user, None)})

Finish(s) == call' = [call EXCEPT ![s] = NoCall]

\* The transactions.  Its events are in the outbox when it commits.
Publish(s) == told' = told \cup call[s].events

CommitRegister(s, t) ==
  LET c == call[s] IN
  /\ At(s, "commit", "register")
  /\ InsertUser(c.user, c.row)
  /\ InsertToken(tokens, t, NewToken(c.user, None, c.pass))
  /\ Publish(s) /\ Finish(s) /\ UNCHANGED count

CommitLogin(s, t) ==
  LET c == call[s] IN
  /\ At(s, "commit", "login") /\ UNCHANGED <<users, told, count>>
  /\ InsertToken(tokens, t, NewToken(c.user, None, c.pass))
  /\ Finish(s)

\* Mutant: the old token is left as it was.
CommitUnrotated(s, t) ==
  LET c == call[s] IN
  /\ At(s, "commit", "refresh") /\ UNCHANGED <<users, told, count>>
  /\ InsertToken(tokens, t, NewToken(c.user, c.token, c.pass))
  /\ Finish(s)

\* The old token is revoked whatever became of it since it was read.
CommitRefresh(s, t) ==
  LET c == call[s] IN
  /\ At(s, "commit", "refresh") /\ UNCHANGED <<users, told, count>>
  /\ InsertToken([tokens EXCEPT ![c.token] = RevokedRow(@)], t,
                 NewToken(c.user, c.token, c.pass))
  /\ Finish(s)

\* The changed copy and its events.
SaveUser(s) ==
  /\ UpdateUser(call[s].user, call[s].row)
  /\ Publish(s) /\ UNCHANGED <<tokens, count>>

CommitPassword(s) ==
  /\ At(s, "commit", "password") /\ SaveUser(s)
  /\ call' = [call EXCEPT ![s].pc = "revoke"]

CommitIdentifier(s) == At(s, "commit", "identifier") /\ SaveUser(s) /\ Finish(s)
CommitRole(s) == At(s, "commit", "role") /\ SaveUser(s) /\ Finish(s)

\* After the change of a password, before the deletion of an account.
RevokeSessions(s) ==
  /\ call[s].pc = "revoke"
  /\ RevokeAll(call[s].user)
  /\ IF call[s].kind = "delete" THEN call' = [call EXCEPT ![s].pc = "end"]
                                ELSE Finish(s)
  /\ UNCHANGED <<users, told, count>>

CommitDelete(s) ==
  /\ call[s].pc = "end"
  /\ DeleteUser(call[s].user)
  /\ Publish(s) /\ Finish(s) /\ UNCHANGED count

\* A phone with a verified code signs in, or gets its account.  One
\* transaction under the phone's lock and the row's; nothing comes between.
SignInVerified(ph, u, t) ==
  /\ Counted /\ UNCHANGED call
  /\ \/ /\ FindByIdentifier(ph) = {u}
        /\ users[u].active /\ users[u].method = "phone_otp"
        /\ UNCHANGED <<users, told>>
     \/ /\ FindByIdentifier(ph) = {} /\ Fresh(u)
        /\ InsertUser(u, NewUser(ph, Random, "phone_otp"))
        /\ told' = told \cup {Event("registered", u, None)}
  /\ InsertToken(tokens, t, NewToken(u, None, Random))

\* The call ends where it stands.
GiveUp(s) ==
  /\ call[s].pc # "idle" /\ Finish(s)
  /\ UNCHANGED <<users, tokens, told, count>>

Expire(t) ==
  /\ tokens[t].state = "live"
  /\ tokens' = [tokens EXCEPT ![t].state = "expired"]
  /\ UNCHANGED <<users, told, call, count>>

\* By hand in the database: no command suspends an account.
Suspend(u) ==
  /\ AuthUser(u) /\ Counted
  /\ users' = [users EXCEPT ![u].active = FALSE]
  /\ UNCHANGED <<tokens, told, call>>

Open(s) ==
  \/ \E u \in Users, i \in Identifiers, p \in Passwords : Register(s, u, i, p)
  \/ \E i \in Identifiers, p \in Passwords : Login(s, i, p)
  \/ \E t \in Tokens : Refresh(s, t)
  \/ \E u \in Users, p, q \in Passwords : ChangeMyPassword(s, u, p, q)
  \/ \E u \in Users, i \in Emails, p \in Passwords : ChangeMyIdentifier(s, u, i, p)
  \/ \E u, v \in Users, r \in Roles : ChangeUserRole(s, u, v, r)
  \/ \E u \in Users, p \in Passwords : DeleteMe(s, u, p)
  \/ \E u \in Users : DeleteVerified(s, u)

Continue(s) ==
  \/ LoadPassword(s) \/ LoadIdentifier(s) \/ IdentifierFree(s)
  \/ LoadRole(s) \/ LoadDelete(s) \/ LoadVerified(s)
  \/ \E t \in Tokens :
       CommitRegister(s, t) \/ CommitLogin(s, t) \/ CommitRefresh(s, t)
  \/ CommitPassword(s) \/ CommitIdentifier(s) \/ CommitRole(s)
  \/ RevokeSessions(s) \/ CommitDelete(s)

Next ==
  \/ \E s \in Calls : Open(s) \/ Continue(s) \/ GiveUp(s)
  \/ \E ph \in Phones, u \in Users, t \in Tokens : SignInVerified(ph, u, t)
  \/ \E t \in Tokens : Expire(t) \/ \E u \in Users : Logout(u, t)
  \/ \E u \in Users : Suspend(u)

Spec == Init /\ [][Next]_vars
=============================================================================
