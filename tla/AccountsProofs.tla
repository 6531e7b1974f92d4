--------------------------- MODULE AccountsProofs ---------------------------
(***************************************************************************)
(* Proofs about accounts and sessions, for every set of accounts,          *)
(* identifiers, passwords, tokens and calls, and whatever accounts there   *)
(* are at the start.                                                       *)
(***************************************************************************)
EXTENDS AccountsProps, FiniteSetTheorems, TLAPS

Saving == {"password", "identifier", "role"}
Deleting == {"delete", "delete_verified"}

(***************************************************************************)
(* What a call in progress carries, by the command it is and the part of   *)
(* it that comes next.                                                     *)
(***************************************************************************)
Shaped(c) ==
  \/ c = NoCall
  \/ /\ c.pc # "idle" /\ c.kind \in Kinds /\ c.user \in Users
     /\ c.pc = "load" => c.kind \in Saving \cup Deleting /\ c.events = {}
     /\ c.pc = "unique" => c.kind = "identifier"
     /\ c.pc = "commit" => c.kind \in Saving \cup {"register", "login", "refresh"}
     /\ c.pc = "revoke" => c.kind \in {"password", "delete"}
     /\ c.pc = "end" => c.kind \in Deleting
     /\ c.kind = "register" =>
          /\ c.pc = "commit" /\ c.events = {Event("registered", c.user, None)}
          /\ HasIdentifier(c.row) /\ c.row.role = "user"
     /\ c.kind = "password" => c.arg \in Passwords
     /\ c.kind = "identifier" => c.arg \in Emails
     /\ c.kind = "role" => c.arg \in Roles /\ c.by \in Users
     /\ c.kind \in Saving =>
          /\ c.pc \in {"unique", "commit"} => HasIdentifier(c.row)
          /\ \A e \in c.events : e.user = c.user /\ e.what \notin {"registered", "deleted"}
     /\ c.kind \in Deleting /\ c.pc # "load" =>
          c.events = {Event("deleted", c.user, None)}

\* The id of a registration under way is used by nothing but calls that
\* still have to find the account.
Reserved(s, c) ==
  c.kind = "register" =>
    /\ ~Exists(c.user)
    /\ \A e \in told : e.user # c.user
    /\ \A r \in Calls \ {s} : call[r].user = c.user => call[r].pc = "load"

\* The token a refresh was asked with is still there, and its account's.
Rotates(c) ==
  c.kind = "refresh" =>
    /\ c.token \in Tokens
    /\ tokens[c.token].user = c.user /\ tokens[c.token].state # "none"

\* Where the role in a copy of a row came from.
Traced(c) ==
  /\ c.kind = "role" => WasAdmin(c.by)
  /\ c.kind \in Saving /\ c.pc \in {"unique", "commit"} /\ c.row.role = "admin" =>
       WasAdmin(c.user) \/ \E by \in Users : RoleEvent(c.user, "admin", by) \in c.events
  /\ \A e \in c.events : e.by # None => WasAdmin(e.by)

Good(s, c) == Shaped(c) /\ Reserved(s, c) /\ Rotates(c) /\ Traced(c)

CallInv == \A s \in Calls : Good(s, call[s])

\* The constraints of the table.
Constrained ==
  /\ \A u \in Users : Exists(u) => HasIdentifier(users[u])
  /\ \A u, v \in Users : u # v =>
       /\ users[u].email # None => users[v].email # users[u].email
       /\ users[u].phone # None => users[v].phone # users[u].phone

\* Every token was issued to an account, and only a token has an account.
Owned == \A t \in Tokens : tokens[t].state # "none" <=> tokens[t].user \in Users

\* A token that was rotated is there, and not usable.
Rotated ==
  \A t \in Tokens : LET p == tokens[t].parent IN
    p # None => /\ p \in Tokens /\ tokens[p].state \notin {"none", "live"}
                /\ tokens[p].user = tokens[t].user

IInv == /\ TypeOK /\ CallInv
        /\ Constrained /\ Owned /\ Rotated
        /\ AnnouncedExistence /\ NoSessionWithoutAccount /\ AdminsAreMade

-----------------------------------------------------------------------------
(* Types.                                                                  *)

LEMMA NothingType ==
  NoUser \in UserRow /\ NoToken \in TokenRow /\ NoCall \in CallType
BY DEF NoUser, UserRow, NoToken, TokenRow, NoCall, CallType, Roles

LEMMA NewRowType ==
  ASSUME NEW i \in Identifiers, NEW p \in Passwords \cup {Random},
         NEW m \in {"password", "phone_otp"}
  PROVE  NewUser(i, p, m) \in UserRow
BY DEF NewUser, UserRow, Roles, Identifiers

LEMMA NewTokenType ==
  ASSUME NEW u \in Users, NEW p \in Tokens \cup {None}, NEW x \in Passwords \cup {Random}
  PROVE  NewToken(u, p, x) \in TokenRow
BY DEF NewToken, TokenRow

LEMMA EventTypes ==
  ASSUME NEW u \in Users
  PROVE  /\ \A what \in {"registered", "password", "identifier", "deleted"} :
              Event(what, u, None) \in EventType
         /\ \A r \in Roles, by \in Users : RoleEvent(u, r, by) \in EventType
BY DEF Event, EventType, RoleEvent

\* A row with an identifier is a row.
LEMMA RowIsThere ==
  ASSUME NEW row, HasIdentifier(row)
  PROVE  row # NoUser
BY DEF HasIdentifier, NoUser

LEMMA RevokedType ==
  ASSUME NEW r \in TokenRow
  PROVE  /\ RevokedRow(r) \in TokenRow
         /\ RevokedRow(r).user = r.user /\ RevokedRow(r).parent = r.parent
         /\ RevokedRow(r).state = IF r.state \in {"live", "expired"} THEN "revoked"
                                                                   ELSE r.state
BY DEF RevokedRow, TokenRow

LEMMA NoIdUser == NoCall.user = None /\ NoCall.kind = "none" /\ NoCall.events = {} /\ None \notin Users
BY AccountsAssumption DEF NoCall

\* The fields of a call in a typed state.
LEMMA CallFields ==
  ASSUME NEW c \in CallType
  PROVE  /\ c.pass \in Passwords \cup {Random} /\ c.row \in UserRow
         /\ c.events \subseteq EventType
         /\ c.user \in Users \cup {None} /\ c.by \in Users \cup {None}
         /\ c.token \in Tokens \cup {None}
BY NothingType DEF CallType

-----------------------------------------------------------------------------
(* Calls.                                                                  *)

\* A call that is over is in order.
LEMMA NothingGood ==
  ASSUME NEW s PROVE Good(s, NoCall) /\ Good(s, NoCall)'
BY DEF Good, Shaped, Reserved, Rotates, Traced, NoCall

\* Who was an admin stays one who was.
LEMMA TraceKept ==
  ASSUME told \subseteq told', NEW u, WasAdmin(u)
  PROVE  WasAdmin(u)'
BY DEF WasAdmin

\* A step about the account w leaves another call in order, unless that call
\* is about to register w.
LEMMA StaysGood ==
  ASSUME NEW r \in Calls, NEW c, c = call[r], Good(r, c), NEW w,
         \A u \in Users \ {w} : users'[u] = users[u],
         told \subseteq told', \A e \in told' : e \in told \/ e.user = w,
         \A t \in Tokens : tokens[t].state # "none" =>
            tokens'[t].state # "none" /\ tokens'[t].user = tokens[t].user,
         c.kind = "register" => c.user # w,
         \A q \in Calls \ {r} : \/ call'[q] = call[q]
                                \/ call'[q].user \in {w, None}
                                \/ call'[q].pc = "load"
  PROVE  Good(r, c)'
<1>1. Shaped(c)
  BY DEF Good
<1>2. Reserved(r, c)'
  <2>1. c.kind = "register" => c.user \in Users /\ c.user # None
    BY <1>1, NoIdUser DEF Shaped
  <2>2. Reserved(r, c)
    BY DEF Good
  <2>3. QED BY <2>1, <2>2 DEF Reserved, Exists
<1>3. Rotates(c)'
  BY DEF Good, Rotates
<1>4. Traced(c)'
  BY TraceKept DEF Good, Traced
<1>5. QED BY <1>1, <1>2, <1>3, <1>4 DEF Good

\* A step of the call s that touches no table.
Moves(s, c) ==
  /\ c \in CallType /\ Good(s, c)
  /\ call' = [call EXCEPT ![s] = c]
  /\ \/ c.pc = "load"
     \/ \A r \in Calls \ {s} : call[r].kind = "register" => call[r].user # c.user

LEMMA QuietStep ==
  ASSUME IInv, NEW s \in Calls, NEW c, Moves(s, c),
         UNCHANGED <<users, tokens, told>>, count' \in 0 .. MaxCalls
  PROVE  IInv'
<1>1. \A r \in Calls : call'[r] = IF r = s THEN c ELSE call[r]
  BY DEF Moves, IInv, TypeOK
<1>2. TypeOK'
  BY DEF Moves, IInv, TypeOK
<1>3. Good(s, c)'
  <2>1. \A r \in Calls \ {s} : call'[r] = call[r]
    BY <1>1
  <2>2. Shaped(c) /\ Reserved(s, c) /\ Rotates(c) /\ Traced(c)
    BY DEF Moves, Good
  <2>3. Reserved(s, c)'
    BY <2>1, <2>2 DEF Reserved, Exists
  <2>4. Rotates(c)' /\ Traced(c)'
    BY <2>2 DEF Rotates, Traced, WasAdmin
  <2>5. QED BY <2>2, <2>3, <2>4 DEF Good
<1>4. ASSUME NEW r \in Calls, r # s PROVE Good(r, call[r])'
  <2>1. PICK d : d = call[r]
    OBVIOUS
  <2>2. Good(r, d) /\ call'[r] = d
    BY <1>1, <1>4, <2>1 DEF IInv, CallInv
  <2>3. CASE c.pc = "load"
    <3>1. d.kind = "register" => d.user # None
      BY <2>2, NoIdUser DEF Good, Shaped
    <3>2. \A q \in Calls \ {r} : call'[q] = call[q] \/ call'[q].pc = "load"
      BY <1>1, <2>3
    <3>3. Good(r, d)'
      BY <2>1, <2>2, <3>1, <3>2, StaysGood
    <3>4. QED BY <2>2, <3>3
  <2>4. CASE \A q \in Calls \ {s} : call[q].kind = "register" => call[q].user # c.user
    <3>1. d.kind = "register" => d.user # c.user
      BY <1>4, <2>1, <2>4
    <3>2. \A q \in Calls \ {r} : call'[q] = call[q] \/ call'[q].user = c.user
      BY <1>1
    <3>3. Good(r, d)'
      BY <2>1, <2>2, <3>1, <3>2, StaysGood
    <3>4. QED BY <2>2, <3>3
  <2>5. QED BY <2>3, <2>4 DEF Moves
<1>5. CallInv'
  BY <1>1, <1>3, <1>4 DEF CallInv
<1>6. /\ (Constrained /\ Owned /\ Rotated)'
      /\ (AnnouncedExistence /\ NoSessionWithoutAccount /\ AdminsAreMade)'
  BY DEF IInv, Constrained, Owned, Rotated, AnnouncedExistence, NoSessionWithoutAccount,
         AdminsAreMade, WasAdmin, Exists
<1>7. QED BY <1>2, <1>5, <1>6 DEF IInv

\* Nobody is about to register an account that is there.
LEMMA ThereIsTaken ==
  ASSUME IInv, NEW u, Exists(u)
  PROVE  \A r \in Calls : call[r].kind = "register" => call[r].user # u
<1>1. \A r \in Calls : Reserved(r, call[r])
  BY DEF IInv, CallInv, Good
<1>2. QED BY <1>1 DEF Reserved

\* A call that needs an access token begins.
LEMMA AuthenticatedStep ==
  ASSUME IInv, NEW s \in Calls, NEW by \in Users, NEW user \in Users,
         NEW kind \in Saving \cup Deleting,
         NEW arg \in Roles \cup Passwords \cup Emails \cup {None},
         NEW pass \in Passwords \cup {Random},
         Authenticated(s, by, kind, user, arg, pass),
         kind = "password" => arg \in Passwords,
         kind = "identifier" => arg \in Emails,
         kind = "role" => arg \in Roles /\ users[by].role = "admin"
  PROVE  IInv'
<1> DEFINE c == [NoCall EXCEPT !.pc = "load", !.kind = kind, !.user = user,
                               !.by = by, !.arg = arg, !.pass = pass]
<1>1. c \in CallType
  <2>1. NoCall \in CallType /\ kind \in Kinds
    BY NothingType DEF Kinds, Saving, Deleting
  <2>2. PICK x : x = NoCall
    OBVIOUS
  <2>3. x \in CallType
    BY <2>1, <2>2
  <2>4. /\ "load" \in {"idle", "load", "unique", "end", "commit", "revoke"}
        /\ kind \in Kinds \cup {"none"} /\ user \in Users \cup {None}
        /\ by \in Users \cup {None}
    BY <2>1
  <2>5. QED BY <2>2, <2>3, <2>4 DEF CallType
<1>2. /\ c.pc = "load" /\ c.kind = kind /\ c.user = user /\ c.by = by /\ c.arg = arg
      /\ c.events = {}
  BY DEF NoCall
<1>3. call' = [call EXCEPT ![s] = c] /\ UNCHANGED <<users, tokens, told>> /\ Counted
  BY DEF Authenticated, Start
<1> HIDE DEF c
<1>4. Shaped(c)
  BY <1>2 DEF Shaped, Kinds, Saving, Deleting
<1>5. kind = "role" => WasAdmin(by)
  BY DEF IInv, AdminsAreMade
<1>6. Good(s, c)
  BY <1>2, <1>4, <1>5 DEF Good, Reserved, Rotates, Traced, Saving, Deleting
<1>7. count' \in 0 .. MaxCalls
  BY <1>3, AccountsAssumption DEF Counted, IInv, TypeOK
<1>8. QED BY <1>1, <1>2, <1>3, <1>6, <1>7, QuietStep DEF Moves

LEMMA RegisterStep ==
  ASSUME IInv, NEW s \in Calls, NEW u \in Users, NEW i \in Identifiers, NEW p \in Passwords,
         Register(s, u, i, p)
  PROVE  IInv'
<1> DEFINE c == [NoCall EXCEPT !.pc = "commit", !.kind = "register", !.user = u,
                   !.pass = p, !.row = NewUser(i, p, "password"),
                   !.events = {Event("registered", u, None)}]
<1>1. NewUser(i, p, "password") \in UserRow /\ {Event("registered", u, None)} \subseteq EventType
  BY NewRowType, EventTypes
<1>2. c \in CallType
  BY <1>1, NothingType DEF CallType, Kinds
<1>3. /\ c.pc = "commit" /\ c.kind = "register" /\ c.user = u
      /\ c.row = NewUser(i, p, "password") /\ c.events = {Event("registered", u, None)}
  BY DEF NoCall
<1>4. /\ call' = [call EXCEPT ![s] = c] /\ UNCHANGED <<users, tokens, told>>
      /\ Counted /\ Fresh(u) /\ call[s].pc = "idle"
  BY DEF Register, RegisterUser, Start
<1> HIDE DEF c
<1>5. HasIdentifier(NewUser(i, p, "password")) /\ NewUser(i, p, "password").role = "user"
  BY AccountsAssumption DEF NewUser, HasIdentifier, Identifiers
<1>6. Shaped(c)
  BY <1>3, <1>5 DEF Shaped, Kinds, Saving, Deleting
<1>7. Reserved(s, c)
  BY <1>3, <1>4 DEF Reserved, Fresh
<1>8. Traced(c) /\ Rotates(c)
  BY <1>3, <1>5 DEF Traced, Rotates, Saving, Event
<1>9. \A r \in Calls \ {s} : call[r].kind = "register" => call[r].user # c.user
  BY <1>3, <1>4 DEF Fresh
<1>10. count' \in 0 .. MaxCalls
  BY <1>4, AccountsAssumption DEF Counted, IInv, TypeOK
<1>11. QED BY <1>2, <1>4, <1>6, <1>7, <1>8, <1>9, <1>10, QuietStep DEF Moves, Good

\* A login or a refresh found its account.
LEMMA FoundStep ==
  ASSUME IInv, NEW s \in Calls, NEW c \in CallType, Start(s, c),
         c.pc = "commit", c.kind \in {"login", "refresh"}, c.events = {},
         c.user \in Users, Exists(c.user), Rotates(c)
  PROVE  IInv'
<1>1. call' = [call EXCEPT ![s] = c] /\ UNCHANGED <<users, tokens, told>> /\ Counted
  BY DEF Start
<1>2. Shaped(c)
  BY DEF Shaped, Kinds, Saving, Deleting
<1>3. Good(s, c)
  BY <1>2 DEF Good, Reserved, Traced, Saving
<1>4. \A r \in Calls \ {s} : call[r].kind = "register" => call[r].user # c.user
  BY ThereIsTaken
<1>5. count' \in 0 .. MaxCalls
  BY <1>1, AccountsAssumption DEF Counted, IInv, TypeOK
<1>6. QED BY <1>1, <1>3, <1>4, <1>5, QuietStep DEF Moves

LEMMA OpenStep ==
  ASSUME IInv, NEW s \in Calls, Open(s)
  PROVE  IInv'
<1>1. ASSUME NEW u \in Users, NEW i \in Identifiers, NEW p \in Passwords, Register(s, u, i, p)
      PROVE  IInv'
  BY <1>1, RegisterStep
<1>2. ASSUME NEW i \in Identifiers, NEW p \in Passwords, Login(s, i, p)
      PROVE  IInv'
  <2>1. PICK u \in FindByIdentifier(i) :
          Start(s, [NoCall EXCEPT !.pc = "commit", !.kind = "login", !.user = u, !.pass = p])
    BY <1>2 DEF Login, LoginUser
  <2>2. u \in Users /\ Exists(u)
    BY DEF FindByIdentifier
  <2>3. PICK c : c = [NoCall EXCEPT !.pc = "commit", !.kind = "login", !.user = u, !.pass = p]
    OBVIOUS
  <2>4. c \in CallType
    BY <2>2, <2>3, NothingType DEF CallType, Kinds
  <2>5. c.pc = "commit" /\ c.kind = "login" /\ c.events = {} /\ c.user = u
    BY <2>3 DEF NoCall
  <2>6. QED BY <2>1, <2>2, <2>3, <2>4, <2>5, FoundStep DEF Rotates
<1>3. ASSUME NEW t \in Tokens, Refresh(s, t) PROVE IInv'
  <2>1. PICK c : c = [NoCall EXCEPT !.pc = "commit", !.kind = "refresh",
                        !.user = tokens[t].user, !.pass = tokens[t].under, !.token = t]
    OBVIOUS
  <2>2. Usable(t) /\ Exists(tokens[t].user) /\ Start(s, c)
    BY <1>3, <2>1 DEF Refresh
  <2>3. tokens[t] \in TokenRow
    BY DEF IInv, TypeOK
  <2>4. tokens[t].under \in Passwords \cup {Random}
    BY <2>3 DEF TokenRow
  <2>5. tokens[t].user \in Users /\ tokens[t].state # "none"
    BY <2>2 DEF Usable, IInv, Owned
  <2>6. c \in CallType
    BY <2>1, <2>4, <2>5, NothingType DEF CallType, Kinds
  <2>7. /\ c.pc = "commit" /\ c.kind = "refresh" /\ c.events = {}
        /\ c.user = tokens[t].user /\ c.token = t
    BY <2>1 DEF NoCall
  <2>8. QED BY <2>2, <2>5, <2>6, <2>7, FoundStep DEF Rotates
<1>4. ASSUME NEW u \in Users, NEW p \in Passwords, NEW q \in Passwords,
             ChangeMyPassword(s, u, p, q)
      PROVE  IInv'
  BY <1>4, AuthenticatedStep DEF ChangeMyPassword, Saving
<1>5. ASSUME NEW u \in Users, NEW i \in Emails, NEW p \in Passwords,
             ChangeMyIdentifier(s, u, i, p)
      PROVE  IInv'
  BY <1>5, AuthenticatedStep DEF ChangeMyIdentifier, Saving
<1>6. ASSUME NEW u \in Users, NEW v \in Users, NEW r \in Roles, ChangeUserRole(s, u, v, r)
      PROVE  IInv'
  BY <1>6, AuthenticatedStep DEF ChangeUserRole, CanChangeRole, Saving
<1>7. ASSUME NEW u \in Users, NEW p \in Passwords, DeleteMe(s, u, p) PROVE IInv'
  BY <1>7, AuthenticatedStep DEF DeleteMe, Deleting
<1>8. ASSUME NEW u \in Users, DeleteVerified(s, u) PROVE IInv'
  BY <1>8, AuthenticatedStep DEF DeleteVerified, Deleting
<1>9. QED
  BY <1>1, <1>2, <1>3, <1>4, <1>5, <1>6, <1>7, <1>8 DEF Open

\* The record of a call that has read the account.
LEMMA LoadedCall ==
  ASSUME IInv, NEW s \in Calls, NEW pc \in {"unique", "end", "commit", "revoke"},
         NEW row \in UserRow, NEW events \in SUBSET EventType,
         call[s].pc = "load", Loaded(s, pc, row, events)
  PROVE  \E c \in CallType :
           /\ call' = [call EXCEPT ![s] = c]
           /\ c.pc = pc /\ c.row = row /\ c.events = events
           /\ c.kind = call[s].kind /\ c.user = call[s].user
           /\ c.by = call[s].by /\ c.arg = call[s].arg
<1>1. PICK c : c = [call[s] EXCEPT !.pc = pc, !.row = row, !.events = events]
  OBVIOUS
<1>2. call[s] \in CallType
  BY DEF IInv, TypeOK
<1>3. /\ c \in CallType /\ c.pc = pc /\ c.row = row /\ c.events = events
      /\ c.kind = call[s].kind /\ c.user = call[s].user
      /\ c.by = call[s].by /\ c.arg = call[s].arg
  BY <1>1, <1>2 DEF CallType
<1>4. call' = [call EXCEPT ![s] = c]
  BY <1>1 DEF Loaded
<1>5. QED BY <1>3, <1>4

\* A call about an account that is there goes on.
LEMMA CopyStep ==
  ASSUME IInv, NEW s \in Calls, NEW c \in CallType, Shaped(c), Traced(c),
         c.kind \in Saving \cup Deleting, Exists(c.user),
         call' = [call EXCEPT ![s] = c], UNCHANGED <<users, tokens, told, count>>
  PROVE  IInv'
<1>1. Good(s, c)
  BY DEF Good, Reserved, Rotates, Saving, Deleting
<1>2. \A r \in Calls \ {s} : call[r].kind = "register" => call[r].user # c.user
  BY ThereIsTaken
<1>3. count' \in 0 .. MaxCalls
  BY DEF IInv, TypeOK
<1>4. QED BY <1>1, <1>2, <1>3, QuietStep DEF Moves

\* What is known when a call finds the account it is about.
LEMMA LoadFacts ==
  ASSUME IInv, NEW s \in Calls, call[s].pc = "load", Exists(call[s].user)
  PROVE  /\ Shaped(call[s]) /\ Traced(call[s]) /\ call[s] # NoCall
         /\ call[s].user \in Users /\ users[call[s].user] \in UserRow
         /\ HasIdentifier(users[call[s].user])
         /\ users[call[s].user].role = "admin" => WasAdmin(call[s].user)
<1>1. Shaped(call[s]) /\ Traced(call[s])
  BY DEF IInv, CallInv, Good
<1>2. call[s] # NoCall
  BY DEF NoCall
<1>3. call[s].user \in Users
  BY <1>1, <1>2 DEF Shaped
<1>4. users[call[s].user] \in UserRow
  BY <1>3, NothingType DEF IInv, TypeOK
<1>5. QED BY <1>1, <1>2, <1>3, <1>4 DEF IInv, Constrained, AdminsAreMade

LEMMA LoadPasswordStep ==
  ASSUME IInv, NEW s \in Calls, LoadPassword(s)
  PROVE  IInv'
<1>1. PICK u, row, events : /\ u = call[s].user
                            /\ row = [users[u] EXCEPT !.pass = call[s].arg]
                            /\ events = {Event("password", u, None)}
  OBVIOUS
<1>2. /\ Loaded(s, "commit", row, events) /\ UNCHANGED <<users, tokens, told, count>>
      /\ call[s].pc = "load" /\ call[s].kind = "password" /\ Exists(u)
  BY <1>1 DEF LoadPassword, At, Loaded
<1>3. /\ Shaped(call[s]) /\ call[s] # NoCall /\ u \in Users /\ users[u] \in UserRow
      /\ HasIdentifier(users[u]) /\ (users[u].role = "admin" => WasAdmin(u))
  BY <1>1, <1>2, LoadFacts
<1>4. call[s].arg \in Passwords
  BY <1>2, <1>3 DEF Shaped
<1>5. row \in UserRow /\ HasIdentifier(row) /\ row.role = users[u].role
  BY <1>1, <1>3, <1>4 DEF UserRow, HasIdentifier
<1>6. events \subseteq EventType
  BY <1>1, <1>3, EventTypes
<1>7. PICK c \in CallType :
        /\ call' = [call EXCEPT ![s] = c]
        /\ c.pc = "commit" /\ c.row = row /\ c.events = events
        /\ c.kind = "password" /\ c.user = u /\ c.arg = call[s].arg
  BY <1>1, <1>2, <1>5, <1>6, LoadedCall
<1>8. Shaped(c)
  BY <1>1, <1>3, <1>4, <1>5, <1>7 DEF Shaped, Saving, Deleting, Kinds, Event
<1>9. Traced(c)
  BY <1>1, <1>3, <1>5, <1>7 DEF Traced, Event
<1>10. QED BY <1>2, <1>7, <1>8, <1>9, CopyStep DEF Saving

LEMMA LoadIdentifierStep ==
  ASSUME IInv, NEW s \in Calls, LoadIdentifier(s)
  PROVE  IInv'
<1>1. PICK u, row, events : /\ u = call[s].user
                            /\ row = [users[u] EXCEPT !.email = call[s].arg]
                            /\ events = IdentifierEvents(users[u], u, call[s].arg)
  OBVIOUS
<1>2. /\ Loaded(s, "unique", row, events) /\ UNCHANGED <<users, tokens, told, count>>
      /\ call[s].pc = "load" /\ call[s].kind = "identifier" /\ Exists(u)
  BY <1>1 DEF LoadIdentifier, At, Loaded
<1>3. /\ Shaped(call[s]) /\ call[s] # NoCall /\ u \in Users /\ users[u] \in UserRow
      /\ (users[u].role = "admin" => WasAdmin(u))
  BY <1>1, <1>2, LoadFacts
<1>4. call[s].arg \in Emails
  BY <1>2, <1>3 DEF Shaped
<1>5. row \in UserRow /\ HasIdentifier(row) /\ row.role = users[u].role
  BY <1>1, <1>3, <1>4, AccountsAssumption DEF UserRow, HasIdentifier
<1>6. events \subseteq EventType /\ events \subseteq {Event("identifier", u, None)}
  BY <1>1, <1>3, EventTypes DEF IdentifierEvents
<1>7. PICK c \in CallType :
        /\ call' = [call EXCEPT ![s] = c]
        /\ c.pc = "unique" /\ c.row = row /\ c.events = events
        /\ c.kind = "identifier" /\ c.user = u /\ c.arg = call[s].arg
  BY <1>1, <1>2, <1>5, <1>6, LoadedCall
<1>8. Shaped(c)
  BY <1>1, <1>3, <1>4, <1>5, <1>6, <1>7 DEF Shaped, Saving, Deleting, Kinds, Event
<1>9. Traced(c)
  BY <1>1, <1>3, <1>5, <1>6, <1>7 DEF Traced, Event
<1>10. QED BY <1>2, <1>7, <1>8, <1>9, CopyStep DEF Saving

LEMMA LoadRoleStep ==
  ASSUME IInv, NEW s \in Calls, LoadRole(s)
  PROVE  IInv'
<1>1. PICK u, row, role, by, events :
        /\ u = call[s].user /\ role = call[s].arg /\ by = call[s].by
        /\ row = [users[u] EXCEPT !.role = role]
        /\ events = RoleEvents(users[u], u, role, by)
  OBVIOUS
<1>2. /\ Loaded(s, "commit", row, events) /\ UNCHANGED <<users, tokens, told, count>>
      /\ call[s].pc = "load" /\ call[s].kind = "role" /\ Exists(u)
  BY <1>1 DEF LoadRole, At, Loaded
<1>3. /\ Shaped(call[s]) /\ Traced(call[s]) /\ call[s] # NoCall
      /\ u \in Users /\ users[u] \in UserRow
      /\ HasIdentifier(users[u]) /\ (users[u].role = "admin" => WasAdmin(u))
  BY <1>1, <1>2, LoadFacts
<1>4. role \in Roles /\ by \in Users /\ WasAdmin(by)
  BY <1>1, <1>2, <1>3 DEF Shaped, Traced
<1>5. row \in UserRow /\ HasIdentifier(row) /\ row.role = role
  BY <1>1, <1>3, <1>4 DEF UserRow, HasIdentifier
<1>6. /\ events \subseteq EventType /\ events \subseteq {RoleEvent(u, role, by)}
      /\ role # users[u].role => RoleEvent(u, role, by) \in events
  BY <1>1, <1>3, <1>4, EventTypes DEF RoleEvents
<1>7. PICK c \in CallType :
        /\ call' = [call EXCEPT ![s] = c]
        /\ c.pc = "commit" /\ c.row = row /\ c.events = events
        /\ c.kind = "role" /\ c.user = u /\ c.arg = role /\ c.by = by
  BY <1>1, <1>2, <1>5, <1>6, LoadedCall
<1>8. RoleEvent(u, role, by).user = u /\ RoleEvent(u, role, by).by = by
      /\ RoleEvent(u, role, by).what \notin {"registered", "deleted"}
  BY DEF RoleEvent, Event
<1>9. Shaped(c)
  BY <1>3, <1>4, <1>5, <1>6, <1>7, <1>8 DEF Shaped, Saving, Deleting, Kinds
<1>10. Traced(c)
  BY <1>3, <1>4, <1>5, <1>6, <1>7, <1>8 DEF Traced
<1>11. QED BY <1>2, <1>7, <1>9, <1>10, CopyStep DEF Saving

\* Both deletions: with the password, and with a code.
LEMMA LoadDeleteStep ==
  ASSUME IInv, NEW s \in Calls, LoadDelete(s) \/ LoadVerified(s)
  PROVE  IInv'
<1>1. PICK u, pc, events :
        /\ u = call[s].user /\ pc = IF LoadDelete(s) THEN "revoke" ELSE "end"
        /\ events = {Event("deleted", u, None)}
  OBVIOUS
<1>2. /\ Loaded(s, pc, NoUser, events) /\ UNCHANGED <<users, tokens, told, count>>
      /\ call[s].pc = "load" /\ Exists(u)
      /\ pc = "revoke" => call[s].kind = "delete"
      /\ pc = "end" => call[s].kind = "delete_verified"
  BY <1>1 DEF LoadDelete, LoadVerified, At, Loaded
<1>3. Shaped(call[s]) /\ Traced(call[s]) /\ call[s] # NoCall /\ u \in Users
  BY <1>1, <1>2, LoadFacts
<1>4. events \subseteq EventType /\ pc \in {"unique", "end", "commit", "revoke"}
  BY <1>1, <1>3, EventTypes
<1>5. PICK c \in CallType :
        /\ call' = [call EXCEPT ![s] = c]
        /\ c.pc = pc /\ c.events = events
        /\ c.kind = call[s].kind /\ c.user = u
  BY <1>1, <1>2, <1>4, NothingType, LoadedCall
<1>6. pc \in {"revoke", "end"} /\ c.kind \in Deleting
  BY <1>1, <1>2, <1>5 DEF Deleting
<1>7. Shaped(c)
  BY <1>1, <1>2, <1>3, <1>5, <1>6 DEF Shaped, Saving, Deleting, Kinds
<1>8. Traced(c)
  BY <1>1, <1>5, <1>6 DEF Traced, Saving, Deleting, Event
<1>9. QED BY <1>2, <1>5, <1>6, <1>7, <1>8, CopyStep

\* A call that is past reading its account is not about one being registered.
LEMMA PastLoad ==
  ASSUME IInv, NEW s \in Calls, call[s].pc # "load"
  PROVE  \A r \in Calls \ {s} : call[r].kind = "register" => call[r].user # call[s].user
<1>1. \A r \in Calls : Reserved(r, call[r])
  BY DEF IInv, CallInv, Good
<1>2. QED BY <1>1 DEF Reserved

LEMMA IdentifierFreeStep ==
  ASSUME IInv, NEW s \in Calls, IdentifierFree(s)
  PROVE  IInv'
<1>1. PICK c : c = [call[s] EXCEPT !.pc = "commit"]
  OBVIOUS
<1>2. call[s] \in CallType /\ Good(s, call[s])
  BY DEF IInv, TypeOK, CallInv
<1>3. /\ c \in CallType /\ c.pc = "commit"
      /\ c.kind = call[s].kind /\ c.user = call[s].user /\ c.arg = call[s].arg
      /\ c.row = call[s].row /\ c.events = call[s].events /\ c.by = call[s].by
  BY <1>1, <1>2 DEF CallType
<1>4. /\ call' = [call EXCEPT ![s] = c] /\ call[s].pc = "unique"
      /\ UNCHANGED <<users, tokens, told, count>>
  BY <1>1 DEF IdentifierFree
<1>5. call[s].kind = "identifier" /\ call[s] # NoCall
  BY <1>2, <1>4 DEF Good, Shaped, NoCall
<1>6. Shaped(c)
  BY <1>2, <1>3, <1>4, <1>5 DEF Good, Shaped, Saving, Deleting, Kinds
<1>7. Traced(c)
  BY <1>2, <1>3, <1>4, <1>5 DEF Good, Traced, Saving
<1>8. Good(s, c)
  BY <1>3, <1>5, <1>6, <1>7 DEF Good, Reserved, Rotates
<1>9. \A r \in Calls \ {s} : call[r].kind = "register" => call[r].user # c.user
  BY <1>3, <1>4, PastLoad
<1>10. count' \in 0 .. MaxCalls
  BY <1>4 DEF IInv, TypeOK
<1>11. QED BY <1>3, <1>4, <1>8, <1>9, <1>10, QuietStep DEF Moves

LEMMA GiveUpStep ==
  ASSUME IInv, NEW s \in Calls, GiveUp(s)
  PROVE  IInv'
<1>1. \A r \in Calls : call[r].kind = "register" => call[r].user # None
  BY NoIdUser DEF IInv, CallInv, Good, Shaped
<1>2. PICK c : c = NoCall
  OBVIOUS
<1>3. call' = [call EXCEPT ![s] = c] /\ UNCHANGED <<users, tokens, told, count>>
  BY <1>2 DEF GiveUp, Finish
<1>4. c \in CallType /\ c.user = None /\ Good(s, c)
  BY <1>2, NothingType, NothingGood, NoIdUser
<1>5. count' \in 0 .. MaxCalls
  BY <1>3 DEF IInv, TypeOK
<1>6. QED BY <1>1, <1>3, <1>4, <1>5, QuietStep DEF Moves

\* The calls, when a step changes the tables of the account w.
LEMMA CallsHold ==
  ASSUME IInv, NEW w,
         \A u \in Users \ {w} : users'[u] = users[u],
         told \subseteq told', \A e \in told' : e \in told \/ e.user = w,
         \A t \in Tokens : tokens[t].state # "none" =>
            tokens'[t].state # "none" /\ tokens'[t].user = tokens[t].user,
         \A r \in Calls : \/ call'[r] = call[r]
                          \/ Good(r, call[r])' /\ call'[r].user \in {w, None},
         \A r \in Calls : call'[r] = call[r] /\ call[r].kind = "register" => call[r].user # w
  PROVE  CallInv'
<1>1. ASSUME NEW r \in Calls, call'[r] = call[r] PROVE Good(r, call[r])'
  <2>1. PICK c : c = call[r]
    OBVIOUS
  <2>2. Good(r, c)
    BY <2>1 DEF IInv, CallInv
  <2>3. \A q \in Calls \ {r} : call'[q] = call[q] \/ call'[q].user \in {w, None}
    OBVIOUS
  <2>4. Good(r, c)'
    BY <1>1, <2>1, <2>2, <2>3, StaysGood
  <2>5. QED BY <1>1, <2>1, <2>4
<1>2. QED BY <1>1 DEF CallInv

-----------------------------------------------------------------------------
(* Tokens.                                                                 *)

\* A token gets older: it stays its account's, and nothing makes it usable.
Aged(t) ==
  /\ tokens'[t].user = tokens[t].user /\ tokens'[t].parent = tokens[t].parent
  /\ tokens'[t].state = "none" <=> tokens[t].state = "none"
  /\ tokens'[t].state = "live" => tokens[t].state = "live"
  /\ tokens'[t].state \in {"live", "expired", "revoked"} =>
       /\ tokens[t].state \in {"live", "expired", "revoked"}
       /\ Exists(tokens[t].user) => Exists(tokens[t].user)'

\* A token is issued, perhaps in exchange for another.
Issued(t) ==
  /\ tokens[t] = NoToken
  /\ \E u \in Users, p \in Tokens \cup {None}, x \in Passwords \cup {Random} :
       /\ tokens'[t] = NewToken(u, p, x) /\ Exists(u)'
       /\ p # None => /\ tokens'[p].state \notin {"none", "live"}
                      /\ tokens'[p].user = u

LEMMA TokensHold ==
  ASSUME IInv, tokens' \in [Tokens -> TokenRow], \A t \in Tokens : Aged(t) \/ Issued(t)
  PROVE  /\ Owned' /\ Rotated' /\ NoSessionWithoutAccount'
         /\ \A t \in Tokens : tokens[t].state # "none" =>
              tokens'[t].state # "none" /\ tokens'[t].user = tokens[t].user
<1>1. NoToken.state = "none"
  BY DEF NoToken
<1>2. ASSUME NEW t \in Tokens, tokens[t].state # "none" PROVE Aged(t)
  BY <1>1, <1>2 DEF Issued
<1>3. ASSUME NEW t \in Tokens, Issued(t)
      PROVE  /\ tokens'[t].user \in Users /\ Exists(tokens[t].user)'
             /\ tokens'[t].state = "live"
             /\ tokens'[t].parent # None =>
                  /\ tokens'[t].parent \in Tokens
                  /\ tokens'[tokens'[t].parent].state \notin {"none", "live"}
                  /\ tokens'[tokens'[t].parent].user = tokens'[t].user
  BY <1>3 DEF Issued, NewToken, Exists
<1>4. Owned'
  BY <1>3 DEF IInv, Owned, Aged
<1>5. Rotated'
  <2>1. ASSUME NEW t \in Tokens, Aged(t), tokens'[t].parent # None
        PROVE  /\ tokens'[t].parent \in Tokens
               /\ tokens'[tokens'[t].parent].state \notin {"none", "live"}
               /\ tokens'[tokens'[t].parent].user = tokens'[t].user
    <3>1. PICK p : p = tokens[t].parent
      OBVIOUS
    <3>2. /\ p \in Tokens /\ tokens[p].state \notin {"none", "live"}
          /\ tokens[p].user = tokens[t].user /\ tokens'[t].parent = p
      BY <2>1, <3>1 DEF IInv, Rotated, Aged
    <3>3. Aged(p)
      BY <1>2, <3>2
    <3>4. QED BY <2>1, <3>2, <3>3 DEF Aged
  <2>2. QED BY <1>3, <2>1 DEF Rotated
<1>6. NoSessionWithoutAccount'
  <2>1. ASSUME NEW t \in Tokens, Aged(t), tokens'[t].state \in {"live", "expired", "revoked"}
        PROVE  Exists(tokens[t].user)'
    BY <2>1 DEF Aged, IInv, NoSessionWithoutAccount, Exists
  <2>2. QED BY <1>3, <2>1 DEF NoSessionWithoutAccount
<1>7. QED BY <1>2, <1>4, <1>5, <1>6 DEF Aged

\* A token is inserted; no account goes away.
LEMMA IssueStep ==
  ASSUME IInv, NEW t \in Tokens, NEW u \in Users, NEW x \in Passwords \cup {Random},
         InsertToken(tokens, t, NewToken(u, None, x)),
         \A v \in Users : Exists(v) => Exists(v)'
  PROVE  tokens' \in [Tokens -> TokenRow] /\ \A q \in Tokens : Aged(q) \/ Issued(q)
<1>1. NewToken(u, None, x) \in TokenRow /\ NewToken(u, None, x).user = u
  BY NewTokenType DEF NewToken
<1>2. /\ tokens[t] = NoToken /\ Exists(u)'
      /\ tokens' = [tokens EXCEPT ![t] = NewToken(u, None, x)]
  BY <1>1 DEF InsertToken, Exists
<1>3. tokens \in [Tokens -> TokenRow]
  BY DEF IInv, TypeOK
<1>4. tokens' \in [Tokens -> TokenRow] /\ tokens'[t] = NewToken(u, None, x)
  BY <1>1, <1>2, <1>3
<1>5. Issued(t)
  BY <1>2, <1>4 DEF Issued
<1>6. ASSUME NEW q \in Tokens, q # t PROVE Aged(q)
  <2>1. tokens'[q] = tokens[q]
    BY <1>2, <1>3, <1>6
  <2>2. tokens[q].state # "none" => tokens[q].user \in Users
    BY DEF IInv, Owned
  <2>3. QED BY <2>1, <2>2 DEF Aged
<1>7. QED BY <1>4, <1>5, <1>6

\* The tokens of the account u are revoked.
LEMMA RevokedAged ==
  ASSUME IInv, NEW u, RevokeAll(u), UNCHANGED users
  PROVE  tokens' \in [Tokens -> TokenRow] /\ \A q \in Tokens : Aged(q)
<1>1. tokens \in [Tokens -> TokenRow]
  BY DEF IInv, TypeOK
<1>2. \A q \in Tokens : tokens'[q] = IF tokens[q].user = u THEN RevokedRow(tokens[q])
                                                          ELSE tokens[q]
  BY DEF RevokeAll
<1>3. tokens' \in [Tokens -> TokenRow]
  BY <1>1, RevokedType DEF RevokeAll
<1>4. ASSUME NEW q \in Tokens PROVE Aged(q)
  BY <1>1, <1>2, RevokedType DEF Aged, Exists
<1>5. QED BY <1>3, <1>4

-----------------------------------------------------------------------------
(* Rows.                                                                   *)

\* A row is written that collides with no other, or is removed.
LEMMA RowWritten ==
  ASSUME IInv, NEW u \in Users, NEW x \in UserRow, users' = [users EXCEPT ![u] = x],
         x = NoUser \/ (HasIdentifier(x) /\ ~Taken(u, x))
  PROVE  /\ users' \in [Users -> UserRow \cup {NoUser}] /\ Constrained'
         /\ \A v \in Users : users'[v] = IF v = u THEN x ELSE users[v]
<1>1. users \in [Users -> UserRow \cup {NoUser}]
  BY DEF IInv, TypeOK
<1>2. \A v \in Users : users'[v] = IF v = u THEN x ELSE users[v]
  BY <1>1
<1>3. \A v \in Users : Exists(v)' => HasIdentifier(users'[v])
  BY <1>2 DEF IInv, Constrained, Exists
<1>4. ASSUME NEW v \in Users, NEW w \in Users, v # w
      PROVE  /\ users'[v].email # None => users'[w].email # users'[v].email
             /\ users'[v].phone # None => users'[w].phone # users'[v].phone
  <2>1. CASE v # u /\ w # u
    BY <1>2, <1>4, <2>1 DEF IInv, Constrained
  <2>2. CASE v = u
    BY <1>2, <1>4, <2>2 DEF Taken, NoUser
  <2>3. CASE w = u
    BY <1>2, <1>4, <2>3 DEF Taken, NoUser
  <2>4. QED BY <2>1, <2>2, <2>3
<1>5. QED BY <1>1, <1>2, <1>3, <1>4 DEF Constrained

LEMMA CommitRegisterStep ==
  ASSUME IInv, NEW s \in Calls, NEW t \in Tokens, CommitRegister(s, t)
  PROVE  IInv'
<1>1. PICK c, u, row, event :
        /\ c = call[s] /\ c \in CallType
        /\ u = c.user /\ row = c.row /\ event = Event("registered", u, None)
  BY DEF IInv, TypeOK
<1>2. /\ c.kind = "register" /\ c.pc = "commit" /\ Good(s, c)
      /\ InsertUser(u, row) /\ InsertToken(tokens, t, NewToken(u, None, c.pass))
      /\ told' = told \cup c.events /\ call' = [call EXCEPT ![s] = NoCall]
      /\ count' = count
  BY <1>1 DEF CommitRegister, At, Publish, Finish, IInv, CallInv
<1>3. /\ u \in Users /\ c.events = {event} /\ HasIdentifier(row) /\ row.role = "user"
      /\ row \in UserRow /\ c.pass \in Passwords \cup {Random}
  BY <1>1, <1>2, CallFields, NoIdUser DEF Good, Shaped
<1>4. ~Exists(u) /\ \A e \in told : e.user # u
  BY <1>1, <1>2 DEF Good, Reserved
<1>5. users' = [users EXCEPT ![u] = row] /\ ~Taken(u, row)
  BY <1>2 DEF InsertUser
<1>6. /\ users' \in [Users -> UserRow \cup {NoUser}] /\ Constrained'
      /\ \A v \in Users : users'[v] = IF v = u THEN row ELSE users[v]
  BY <1>3, <1>5, RowWritten
<1>7. row # NoUser
  BY <1>3, RowIsThere
<1>8. \A v \in Users : Exists(v)' <=> Exists(v) \/ v = u
  BY <1>6, <1>7 DEF Exists
<1>9. tokens' \in [Tokens -> TokenRow] /\ \A q \in Tokens : Aged(q) \/ Issued(q)
  BY <1>2, <1>3, <1>8, IssueStep
<1>10. told' = told \cup {event} /\ event \in EventType /\ event.user = u /\ event.by = None
  BY <1>1, <1>2, <1>3, EventTypes DEF Event
<1>11. TypeOK'
  BY <1>2, <1>6, <1>9, <1>10, NothingType DEF IInv, TypeOK
<1>12. CallInv'
  <2>1. \A r \in Calls : call'[r] = IF r = s THEN NoCall ELSE call[r]
    BY <1>2 DEF IInv, TypeOK
  <2>2. Good(s, NoCall)' /\ call'[s] = NoCall /\ NoCall.user = None
    BY <2>1, NothingGood, NoIdUser
  <2>3. \A r \in Calls : \/ call'[r] = call[r]
                         \/ Good(r, call[r])' /\ call'[r].user \in {u, None}
    BY <2>1, <2>2
  <2>4. \A r \in Calls \ {s} : call[r].kind = "register" => call[r].user # u
    BY <1>1, <1>2, PastLoad
  <2>5. call'[s] # call[s]
    BY <1>1, <1>2, <2>2, NoIdUser
  <2>6. \A v \in Users \ {u} : users'[v] = users[v]
    BY <1>6
  <2>7. QED BY <1>9, <1>10, <2>3, <2>4, <2>5, <2>6, TokensHold, CallsHold
<1>13. AnnouncedExistence'
  <2>1. Event("registered", u, None) \in told' /\ Event("deleted", u, None) \notin told'
    BY <1>1, <1>4, <1>10 DEF Event
  <2>2. ASSUME NEW v \in Users, v # u, NEW what
        PROVE  Event(what, v, None) \in told' <=> Event(what, v, None) \in told
    BY <1>10, <2>2 DEF Event
  <2>3. QED BY <1>8, <2>1, <2>2 DEF IInv, AnnouncedExistence
<1>14. AdminsAreMade'
  BY <1>3, <1>6, <1>10, TraceKept DEF IInv, AdminsAreMade
<1>15. QED BY <1>6, <1>9, <1>11, <1>12, <1>13, <1>14, TokensHold DEF IInv

LEMMA CommitLoginStep ==
  ASSUME IInv, NEW s \in Calls, NEW t \in Tokens, CommitLogin(s, t)
  PROVE  IInv'
<1>1. PICK c, u : c = call[s] /\ u = c.user
  OBVIOUS
<1>2. /\ c.kind = "login" /\ c.pc = "commit" /\ Good(s, c) /\ c \in CallType
      /\ InsertToken(tokens, t, NewToken(u, None, c.pass))
      /\ UNCHANGED <<users, told, count>> /\ call' = [call EXCEPT ![s] = NoCall]
  BY <1>1 DEF CommitLogin, At, Finish, IInv, CallInv, TypeOK
<1>3. u \in Users /\ c.pass \in Passwords \cup {Random}
  BY <1>1, <1>2, CallFields, NoIdUser DEF Good, Shaped
<1>4. tokens' \in [Tokens -> TokenRow] /\ \A q \in Tokens : Aged(q) \/ Issued(q)
  BY <1>2, <1>3, IssueStep DEF Exists
<1>5. TypeOK'
  BY <1>2, <1>4, NothingType DEF IInv, TypeOK
<1>6. CallInv'
  <2>1. \A r \in Calls : call'[r] = IF r = s THEN NoCall ELSE call[r]
    BY <1>2 DEF IInv, TypeOK
  <2>2. Good(s, NoCall)' /\ call'[s] = NoCall /\ NoCall.user = None
    BY <2>1, NothingGood, NoIdUser
  <2>3. \A r \in Calls : call[r].kind = "register" => call[r].user # None
    BY NoIdUser DEF IInv, CallInv, Good, Shaped
  <2>4. \A r \in Calls : \/ call'[r] = call[r]
                         \/ Good(r, call[r])' /\ call'[r].user \in {None}
    BY <2>1, <2>2
  <2>5. QED BY <1>2, <1>4, <2>3, <2>4, TokensHold, CallsHold
<1>7. Constrained' /\ AnnouncedExistence' /\ AdminsAreMade'
  BY <1>2 DEF IInv, Constrained, AnnouncedExistence, AdminsAreMade, WasAdmin, Exists
<1>8. QED BY <1>4, <1>5, <1>6, <1>7, TokensHold DEF IInv

LEMMA CommitRefreshStep ==
  ASSUME IInv, NEW s \in Calls, NEW t \in Tokens, CommitRefresh(s, t)
  PROVE  IInv'
<1>1. PICK c, u, p, new :
        c = call[s] /\ u = c.user /\ p = c.token /\ new = NewToken(u, p, c.pass)
  OBVIOUS
<1>2. /\ c.kind = "refresh" /\ c.pc = "commit" /\ Good(s, c) /\ c \in CallType
      /\ InsertToken([tokens EXCEPT ![p] = RevokedRow(tokens[p])], t, new)
      /\ UNCHANGED <<users, told, count>> /\ call' = [call EXCEPT ![s] = NoCall]
  BY <1>1 DEF CommitRefresh, At, Finish, IInv, CallInv, TypeOK
<1>3. u \in Users /\ c.pass \in Passwords \cup {Random}
  BY <1>1, <1>2, CallFields, NoIdUser DEF Good, Shaped
<1>4. p \in Tokens /\ tokens[p].user = u /\ tokens[p].state # "none"
  BY <1>1, <1>2 DEF Good, Rotates
<1>5. tokens \in [Tokens -> TokenRow]
  BY DEF IInv, TypeOK
<1>6. /\ RevokedRow(tokens[p]) \in TokenRow
      /\ RevokedRow(tokens[p]).user = u
      /\ RevokedRow(tokens[p]).parent = tokens[p].parent
      /\ RevokedRow(tokens[p]).state \notin {"none", "live"}
      /\ RevokedRow(tokens[p]).state \in {"expired", "revoked"} =>
           tokens[p].state \in {"live", "expired", "revoked"}
  BY <1>4, <1>5, RevokedType
<1>7. new \in TokenRow /\ new.user = u
  BY <1>1, <1>3, <1>4, NewTokenType DEF NewToken
<1>8. PICK tab : tab = [tokens EXCEPT ![p] = RevokedRow(tokens[p])]
  OBVIOUS
<1>9. /\ tab \in [Tokens -> TokenRow] /\ tab[p] = RevokedRow(tokens[p])
      /\ \A q \in Tokens \ {p} : tab[q] = tokens[q]
  BY <1>4, <1>5, <1>6, <1>8
<1>10. tab[t] = NoToken /\ Exists(u)' /\ tokens' = [tab EXCEPT ![t] = new]
  BY <1>2, <1>7, <1>8 DEF InsertToken, Exists
<1>11. t # p
  BY <1>6, <1>9, <1>10 DEF NoToken
<1>12. /\ tokens' \in [Tokens -> TokenRow] /\ tokens'[t] = new
       /\ tokens'[p] = RevokedRow(tokens[p]) /\ tokens[t] = NoToken
       /\ \A q \in Tokens \ {p, t} : tokens'[q] = tokens[q]
  BY <1>4, <1>7, <1>9, <1>10, <1>11
<1>13. Issued(t)
  <2>1. /\ u \in Users /\ p \in Tokens \cup {None} /\ c.pass \in Passwords \cup {Random}
        /\ tokens'[t] = NewToken(u, p, c.pass) /\ Exists(u)'
        /\ tokens'[p].state \notin {"none", "live"} /\ tokens'[p].user = u
    BY <1>1, <1>3, <1>4, <1>6, <1>10, <1>12
  <2>2. QED BY <1>12, <2>1 DEF Issued
<1>14. Aged(p)
  <2>1. Exists(tokens[p].user)'
    BY <1>6, <1>10, <1>12 DEF Exists
  <2>2. /\ tokens'[p].user = tokens[p].user /\ tokens'[p].parent = tokens[p].parent
        /\ tokens'[p].state \notin {"none", "live"} /\ tokens[p].state # "none"
        /\ tokens'[p].state \in {"expired", "revoked"} =>
             tokens[p].state \in {"live", "expired", "revoked"}
    BY <1>4, <1>6, <1>12
  <2>3. QED BY <2>1, <2>2 DEF Aged
<1>15. ASSUME NEW q \in Tokens \ {p, t} PROVE Aged(q)
  BY <1>2, <1>12 DEF Aged, Exists
<1>16. \A q \in Tokens : Aged(q) \/ Issued(q)
  BY <1>13, <1>14, <1>15
<1>17. TypeOK'
  BY <1>2, <1>12, NothingType DEF IInv, TypeOK
<1>18. CallInv'
  <2>1. \A r \in Calls : call'[r] = IF r = s THEN NoCall ELSE call[r]
    BY <1>2 DEF IInv, TypeOK
  <2>2. Good(s, NoCall)' /\ call'[s] = NoCall /\ NoCall.user = None
    BY <2>1, NothingGood, NoIdUser
  <2>3. \A r \in Calls : call[r].kind = "register" => call[r].user # None
    BY NoIdUser DEF IInv, CallInv, Good, Shaped
  <2>4. \A r \in Calls : \/ call'[r] = call[r]
                         \/ Good(r, call[r])' /\ call'[r].user \in {None}
    BY <2>1, <2>2
  <2>5. QED BY <1>2, <1>12, <1>16, <2>3, <2>4, TokensHold, CallsHold
<1>19. Constrained' /\ AnnouncedExistence' /\ AdminsAreMade'
  BY <1>2 DEF IInv, Constrained, AnnouncedExistence, AdminsAreMade, WasAdmin, Exists
<1>20. QED BY <1>12, <1>16, <1>17, <1>18, <1>19, TokensHold DEF IInv

\* A transaction that saves the changed copy c.row and publishes c.events;
\* the call then is d.
LEMMA SaveStep ==
  ASSUME IInv, NEW s \in Calls, NEW c, c = call[s], c.kind \in Saving, c.pc = "commit",
         SaveUser(s), NEW d \in CallType, call' = [call EXCEPT ![s] = d],
         Good(s, d)', d.user \in {c.user, None}, d.kind # "register"
  PROVE  IInv'
<1>1. PICK u : u = c.user
  OBVIOUS
<1>2. /\ Good(s, c) /\ c \in CallType /\ c # NoCall
      /\ UpdateUser(u, c.row) /\ told' = told \cup c.events /\ UNCHANGED <<tokens, count>>
  BY <1>1, NoIdUser DEF SaveUser, Publish, IInv, CallInv, TypeOK, Saving
<1>3. /\ u \in Users /\ HasIdentifier(c.row) /\ c.row \in UserRow
      /\ \A e \in c.events : e.user = u /\ e.what \notin {"registered", "deleted"}
      /\ c.events \subseteq EventType
  BY <1>1, <1>2, CallFields DEF Good, Shaped
<1>4. PICK x : x = [c.row EXCEPT !.method = users[u].method]
  OBVIOUS
<1>5. users \in [Users -> UserRow \cup {NoUser}]
  BY DEF IInv, TypeOK
<1>6. /\ x \in UserRow /\ x.email = c.row.email /\ x.phone = c.row.phone
      /\ x.role = c.row.role /\ HasIdentifier(x) /\ x # NoUser
  <2>1. users[u].method \in {"password", "phone_otp"}
    BY <1>3, <1>5, NothingType DEF UserRow
  <2>2. /\ x \in UserRow /\ x.email = c.row.email /\ x.phone = c.row.phone
        /\ x.role = c.row.role
    BY <1>3, <1>4, <2>1 DEF UserRow
  <2>3. HasIdentifier(x)
    BY <1>3, <2>2 DEF HasIdentifier
  <2>4. QED BY <2>2, <2>3, RowIsThere
<1>7. \/ /\ Exists(u) /\ users' \in [Users -> UserRow \cup {NoUser}] /\ Constrained'
         /\ \A v \in Users : users'[v] = IF v = u THEN x ELSE users[v]
      \/ users' = users
  <2>1. CASE Exists(u)
    <3>1. users' = [users EXCEPT ![u] = x] /\ ~Taken(u, x)
      BY <1>2, <1>4, <1>6, <2>1 DEF UpdateUser, Taken
    <3>2. QED BY <1>3, <1>6, <2>1, <3>1, RowWritten
  <2>2. CASE ~Exists(u)
    BY <1>2, <2>2 DEF UpdateUser
  <2>3. QED BY <2>1, <2>2
<1>8. \A v \in Users : Exists(v)' <=> Exists(v)
  BY <1>6, <1>7 DEF Exists
<1>9. TypeOK'
  BY <1>2, <1>3, <1>5, <1>7 DEF IInv, TypeOK
<1>10. Constrained'
  BY <1>7 DEF IInv, Constrained, Exists
<1>11. \A q \in Tokens : Aged(q)
  <2>1. \A q \in Tokens : tokens[q].state # "none" => tokens[q].user \in Users
    BY DEF IInv, Owned
  <2>2. QED BY <1>2, <1>8, <2>1 DEF Aged
<1>12. CallInv'
  <2>1. \A r \in Calls : call'[r] = IF r = s THEN d ELSE call[r]
    BY DEF IInv, TypeOK
  <2>2. \A r \in Calls : \/ call'[r] = call[r]
                         \/ Good(r, call[r])' /\ call'[r].user \in {u, None}
    <3>1. Good(s, call[s])'
      BY <2>1
    <3>2. QED BY <1>1, <2>1, <3>1
  <2>3. \A r \in Calls : call'[r] = call[r] /\ call[r].kind = "register" => call[r].user # u
    BY <1>1, <2>1, PastLoad
  <2>4. \A v \in Users \ {u} : users'[v] = users[v]
    BY <1>7
  <2>5. \A e \in told' : e \in told \/ e.user = u
    BY <1>2, <1>3
  <2>6. told \subseteq told' /\ tokens' = tokens
    BY <1>2
  <2>7. QED BY <2>2, <2>3, <2>4, <2>5, <2>6, CallsHold
<1>13. AnnouncedExistence'
  <2>1. ASSUME NEW v, NEW what \in {"registered", "deleted"}
        PROVE  Event(what, v, None) \in told' <=> Event(what, v, None) \in told
    BY <1>2, <1>3 DEF Event
  <2>2. QED BY <1>8, <2>1 DEF IInv, AnnouncedExistence
<1>14. AdminsAreMade'
  <2>1. ASSUME NEW v \in Users, users'[v].role = "admin" PROVE WasAdmin(v)'
    <3>1. CASE users[v].role = "admin"
      BY <1>2, <3>1, TraceKept DEF IInv, AdminsAreMade
    <3>2. CASE v = u /\ c.row.role = "admin"
      <4>1. WasAdmin(u) \/ \E by \in Users : RoleEvent(u, "admin", by) \in c.events
        BY <1>1, <1>2, <3>2 DEF Good, Traced
      <4>2. QED BY <1>2, <3>2, <4>1, TraceKept DEF WasAdmin
    <3>3. QED BY <1>6, <1>7, <2>1, <3>1, <3>2
  <2>2. ASSUME NEW e \in told', e.by # None PROVE WasAdmin(e.by)'
    <3>1. WasAdmin(e.by)
      BY <1>2, <2>2 DEF IInv, AdminsAreMade, Good, Traced
    <3>2. QED BY <1>2, <3>1, TraceKept
  <2>3. QED BY <2>1, <2>2 DEF AdminsAreMade
<1>15. tokens' \in [Tokens -> TokenRow]
  BY <1>9 DEF TypeOK
<1>16. QED BY <1>9, <1>10, <1>11, <1>12, <1>13, <1>14, <1>15, TokensHold DEF IInv

\* After the change of the password its sessions are still to be revoked.
LEMMA CommitPasswordStep ==
  ASSUME IInv, NEW s \in Calls, CommitPassword(s)
  PROVE  IInv'
<1>1. PICK c, d : c = call[s] /\ d = [c EXCEPT !.pc = "revoke"]
  OBVIOUS
<1>2. /\ c.kind = "password" /\ c.pc = "commit" /\ SaveUser(s)
      /\ c \in CallType /\ Good(s, c) /\ c # NoCall
      /\ call' = [call EXCEPT ![s] = d]
  BY <1>1 DEF CommitPassword, At, IInv, TypeOK, CallInv, NoCall
<1>3. /\ d \in CallType /\ d.pc = "revoke" /\ d.kind = "password" /\ d.user = c.user
      /\ d.arg = c.arg /\ d.events = c.events
  BY <1>1, <1>2 DEF CallType
<1>4. Shaped(d)
  BY <1>2, <1>3 DEF Good, Shaped, Saving, Deleting
<1>5. Traced(d)'
  <2>1. \A e \in d.events : e.by # None => WasAdmin(e.by)
    BY <1>2, <1>3 DEF Good, Traced
  <2>2. told \subseteq told'
    BY <1>2 DEF SaveUser, Publish
  <2>3. QED BY <1>3, <2>1, <2>2, TraceKept DEF Traced
<1>6. Good(s, d)'
  BY <1>3, <1>4, <1>5 DEF Good, Reserved, Rotates
<1>7. QED BY <1>1, <1>2, <1>3, <1>6, SaveStep DEF Saving

LEMMA CommitCopyStep ==
  ASSUME IInv, NEW s \in Calls, CommitIdentifier(s) \/ CommitRole(s)
  PROVE  IInv'
<1>1. PICK c, d : c = call[s] /\ d = NoCall
  OBVIOUS
<1>2. /\ c.kind \in Saving /\ c.pc = "commit" /\ SaveUser(s)
      /\ call' = [call EXCEPT ![s] = d]
  BY <1>1 DEF CommitIdentifier, CommitRole, At, Finish, Saving
<1>3. d \in CallType /\ Good(s, d)' /\ d.user = None /\ d.kind = "none"
  BY <1>1, NothingType, NothingGood, NoIdUser
<1>4. QED BY <1>1, <1>2, <1>3, SaveStep

LEMMA RevokeSessionsStep ==
  ASSUME IInv, NEW s \in Calls, RevokeSessions(s)
  PROVE  IInv'
<1>1. PICK c, d : /\ c = call[s]
                  /\ d = IF c.kind = "delete" THEN [c EXCEPT !.pc = "end"] ELSE NoCall
  OBVIOUS
<1>2. /\ c.pc = "revoke" /\ RevokeAll(c.user) /\ UNCHANGED <<users, told, count>>
      /\ call' = [call EXCEPT ![s] = d]
      /\ c \in CallType /\ Good(s, c) /\ c # NoCall
  BY <1>1 DEF RevokeSessions, Finish, IInv, TypeOK, CallInv, NoCall
<1>3. tokens' \in [Tokens -> TokenRow] /\ \A q \in Tokens : Aged(q)
  BY <1>2, RevokedAged
<1>4. d \in CallType /\ d.user \in {c.user, None}
  BY <1>1, <1>2, NothingType, NoIdUser DEF CallType
<1>5. Good(s, d)'
  <2>1. CASE c.kind = "delete"
    <3>1. /\ d.pc = "end" /\ d.kind = "delete" /\ d.user = c.user /\ d.events = c.events
      BY <1>1, <1>2, <2>1 DEF CallType
    <3>2. Shaped(d)
      BY <1>2, <2>1, <3>1 DEF Good, Shaped, Saving, Deleting
    <3>3. Traced(d)'
      BY <1>2, <3>1 DEF Good, Traced, Saving, WasAdmin
    <3>4. QED BY <3>1, <3>2, <3>3 DEF Good, Reserved, Rotates
  <2>2. CASE c.kind # "delete"
    BY <1>1, <2>2, NothingGood
  <2>3. QED BY <2>1, <2>2
<1>6. TypeOK'
  BY <1>2, <1>3, <1>4 DEF IInv, TypeOK
<1>7. CallInv'
  <2>1. \A r \in Calls : call'[r] = IF r = s THEN d ELSE call[r]
    BY <1>2 DEF IInv, TypeOK
  <2>2. Good(s, call[s])'
    BY <1>5, <2>1
  <2>3. \A r \in Calls : \/ call'[r] = call[r]
                         \/ Good(r, call[r])' /\ call'[r].user \in {c.user, None}
    BY <1>4, <2>1, <2>2
  <2>4. \A r \in Calls : call'[r] = call[r] /\ call[r].kind = "register" =>
                           call[r].user # c.user
    <3>1. d # c
      BY <1>1, <1>2 DEF CallType
    <3>2. QED BY <1>1, <1>2, <2>1, <3>1, PastLoad
  <2>5. QED BY <1>2, <1>3, <2>3, <2>4, TokensHold, CallsHold
<1>8. Constrained' /\ AnnouncedExistence' /\ AdminsAreMade'
  BY <1>2 DEF IInv, Constrained, AnnouncedExistence, AdminsAreMade, WasAdmin, Exists
<1>9. QED BY <1>3, <1>6, <1>7, <1>8, TokensHold DEF IInv

LEMMA CommitDeleteStep ==
  ASSUME IInv, NEW s \in Calls, CommitDelete(s)
  PROVE  IInv'
<1>1. PICK c, u, event : c = call[s] /\ u = c.user /\ event = Event("deleted", u, None)
  OBVIOUS
<1>2. /\ c.pc = "end" /\ DeleteUser(u) /\ told' = told \cup c.events
      /\ call' = [call EXCEPT ![s] = NoCall] /\ count' = count
      /\ c \in CallType /\ Good(s, c) /\ c # NoCall
  BY <1>1 DEF CommitDelete, Publish, Finish, IInv, TypeOK, CallInv, NoCall
<1>3. u \in Users /\ c.events = {event}
  BY <1>1, <1>2 DEF Good, Shaped
<1>4. told' = told \cup {event} /\ event \in EventType /\ event.user = u /\ event.by = None
  BY <1>1, <1>2, <1>3, EventTypes DEF Event
<1>5. /\ users' \in [Users -> UserRow \cup {NoUser}] /\ Constrained'
      /\ \A v \in Users : users'[v] = IF v = u THEN NoUser ELSE users[v]
  BY <1>2, <1>3, NothingType, RowWritten DEF DeleteUser
<1>6. \A v \in Users : Exists(v)' <=> Exists(v) /\ v # u
  BY <1>5 DEF Exists
<1>7. tokens' \in [Tokens -> TokenRow] /\ \A q \in Tokens : Aged(q)
  <2>1. tokens \in [Tokens -> TokenRow]
    BY DEF IInv, TypeOK
  <2>2. \A q \in Tokens : tokens'[q] = IF tokens[q].user = u
          THEN [tokens[q] EXCEPT !.state = "deleted"] ELSE tokens[q]
    BY <1>2 DEF DeleteUser
  <2>3. ASSUME NEW q \in Tokens, tokens[q].user = u PROVE Aged(q) /\ tokens'[q] \in TokenRow
    <3>1. tokens[q] \in TokenRow
      BY <2>1
    <3>2. PICK x : x = tokens[q]
      OBVIOUS
    <3>3. tokens'[q] = [x EXCEPT !.state = "deleted"] /\ x \in TokenRow
      BY <2>2, <2>3, <3>1, <3>2
    <3>4. /\ tokens'[q].state = "deleted" /\ tokens'[q].user = x.user
          /\ tokens'[q].parent = x.parent /\ tokens'[q] \in TokenRow
      BY <3>3 DEF TokenRow
    <3>5. x.state # "none"
      BY <1>3, <2>3, <3>2 DEF IInv, Owned
    <3>6. QED BY <3>2, <3>4, <3>5 DEF Aged
  <2>4. ASSUME NEW q \in Tokens, tokens[q].user # u PROVE Aged(q) /\ tokens'[q] \in TokenRow
    <3>1. tokens'[q] = tokens[q]
      BY <2>2, <2>4
    <3>2. tokens[q].state # "none" => tokens[q].user \in Users
      BY DEF IInv, Owned
    <3>3. QED BY <1>6, <2>1, <2>4, <3>1, <3>2 DEF Aged
  <2>5. tokens' \in [Tokens -> TokenRow]
    BY <1>2, <2>3, <2>4 DEF DeleteUser
  <2>6. QED BY <2>3, <2>4, <2>5
<1>8. TypeOK'
  BY <1>2, <1>4, <1>5, <1>7, NothingType DEF IInv, TypeOK
<1>9. CallInv'
  <2>1. \A r \in Calls : call'[r] = IF r = s THEN NoCall ELSE call[r]
    BY <1>2 DEF IInv, TypeOK
  <2>2. Good(s, NoCall)' /\ call'[s] = NoCall /\ NoCall.user = None
    BY <2>1, NothingGood, NoIdUser
  <2>3. \A r \in Calls : \/ call'[r] = call[r]
                         \/ Good(r, call[r])' /\ call'[r].user \in {u, None}
    BY <2>1, <2>2
  <2>4. \A r \in Calls : call'[r] = call[r] /\ call[r].kind = "register" => call[r].user # u
    BY <1>1, <1>2, <2>1, PastLoad
  <2>5. \A v \in Users \ {u} : users'[v] = users[v]
    BY <1>5
  <2>6. QED BY <1>4, <1>7, <2>3, <2>4, <2>5, TokensHold, CallsHold
<1>10. AnnouncedExistence'
  <2>1. Event("deleted", u, None) \in told'
    BY <1>1, <1>4
  <2>2. ASSUME NEW v \in Users, v # u, NEW what
        PROVE  Event(what, v, None) \in told' <=> Event(what, v, None) \in told
    BY <1>1, <1>4, <2>2 DEF Event
  <2>3. QED BY <1>6, <2>1, <2>2 DEF IInv, AnnouncedExistence
<1>11. AdminsAreMade'
  <2>1. NoUser.role = "user"
    BY DEF NoUser
  <2>2. QED BY <1>4, <1>5, <2>1, TraceKept DEF IInv, AdminsAreMade
<1>12. QED BY <1>5, <1>7, <1>8, <1>9, <1>10, <1>11, TokensHold DEF IInv

-----------------------------------------------------------------------------
(* The steps outside a call.                                               *)

\* The calls, the events and the tokens, when no call moves and no account
\* comes or goes.
LEMMA NoCallStep ==
  ASSUME IInv, UNCHANGED <<told, call>>, count' \in 0 .. MaxCalls,
         NEW w, \A u \in Users \ {w} : users'[u] = users[u],
         \A u \in Users : Exists(u)' <=> Exists(u),
         \A u \in Users : users'[u].role = users[u].role,
         users' \in [Users -> UserRow \cup {NoUser}], Constrained',
         tokens' \in [Tokens -> TokenRow], \A t \in Tokens : Aged(t) \/ Issued(t),
         Exists(w)
  PROVE  IInv'
<1>1. TypeOK'
  BY DEF IInv, TypeOK
<1>2. CallInv'
  <2>1. \A r \in Calls : call[r].kind = "register" => call[r].user # w
    BY ThereIsTaken
  <2>2. QED BY <2>1, TokensHold, CallsHold
<1>3. AnnouncedExistence'
  BY DEF IInv, AnnouncedExistence
<1>4. AdminsAreMade'
  BY TraceKept DEF IInv, AdminsAreMade
<1>5. QED BY <1>1, <1>2, <1>3, <1>4, TokensHold DEF IInv

LEMMA SignInVerifiedStep ==
  ASSUME IInv, NEW ph \in Phones, NEW u \in Users, NEW t \in Tokens,
         SignInVerified(ph, u, t)
  PROVE  IInv'
<1>1. /\ UNCHANGED call /\ count' \in 0 .. MaxCalls
      /\ InsertToken(tokens, t, NewToken(u, None, Random))
  BY AccountsAssumption DEF SignInVerified, Counted, IInv, TypeOK
<1>2. CASE FindByIdentifier(ph) = {u} /\ UNCHANGED <<users, told>>
  <2>1. Exists(u)
    BY <1>2 DEF FindByIdentifier
  <2>2. tokens' \in [Tokens -> TokenRow] /\ \A q \in Tokens : Aged(q) \/ Issued(q)
    BY <1>1, <1>2, IssueStep DEF Exists
  <2>3. users' \in [Users -> UserRow \cup {NoUser}] /\ Constrained'
    BY <1>2 DEF IInv, TypeOK, Constrained, Exists
  <2>4. (\A v \in Users : Exists(v)' <=> Exists(v)) /\ users' = users
    BY <1>2 DEF Exists
  <2>5. QED BY <1>1, <1>2, <2>1, <2>2, <2>3, <2>4, NoCallStep
<1>3. CASE /\ Fresh(u) /\ InsertUser(u, NewUser(ph, Random, "phone_otp"))
           /\ told' = told \cup {Event("registered", u, None)}
  <2>1. PICK row, event : /\ row = NewUser(ph, Random, "phone_otp")
                          /\ event = Event("registered", u, None)
    OBVIOUS
  <2>2. ph \in Identifiers /\ Random \in Passwords \cup {Random}
    BY DEF Identifiers
  <2>3. row \in UserRow
    BY <2>1, <2>2, NewRowType
  <2>4. HasIdentifier(row) /\ row.role = "user"
    BY <2>1, AccountsAssumption DEF NewUser, HasIdentifier
  <2>5. users' = [users EXCEPT ![u] = row] /\ ~Taken(u, row)
    BY <1>3, <2>1 DEF InsertUser
  <2>6. /\ users' \in [Users -> UserRow \cup {NoUser}] /\ Constrained'
        /\ \A v \in Users : users'[v] = IF v = u THEN row ELSE users[v]
    BY <2>3, <2>4, <2>5, RowWritten
  <2>7. \A v \in Users : Exists(v)' <=> Exists(v) \/ v = u
    BY <2>4, <2>6, RowIsThere DEF Exists
  <2>8. tokens' \in [Tokens -> TokenRow] /\ \A q \in Tokens : Aged(q) \/ Issued(q)
    BY <1>1, <2>7, IssueStep
  <2>9. told' = told \cup {event} /\ event \in EventType /\ event.user = u /\ event.by = None
    BY <1>3, <2>1, EventTypes DEF Event
  <2>10. \A e \in told : e.user # u
    BY <1>3 DEF Fresh
  <2>11. TypeOK'
    BY <1>1, <2>6, <2>8, <2>9 DEF IInv, TypeOK
  <2>12. CallInv'
    <3>1. \A r \in Calls : call[r].user # u /\ call'[r] = call[r]
      BY <1>1, <1>3 DEF Fresh
    <3>2. \A v \in Users \ {u} : users'[v] = users[v]
      BY <2>6
    <3>3. QED BY <2>8, <2>9, <3>1, <3>2, TokensHold, CallsHold
  <2>13. AnnouncedExistence'
    <3>1. Event("registered", u, None) \in told' /\ Event("deleted", u, None) \notin told'
      BY <2>1, <2>9, <2>10 DEF Event
    <3>2. ASSUME NEW v \in Users, v # u, NEW what
          PROVE  Event(what, v, None) \in told' <=> Event(what, v, None) \in told
      BY <2>1, <2>9, <3>2 DEF Event
    <3>3. QED BY <2>7, <3>1, <3>2 DEF IInv, AnnouncedExistence
  <2>14. AdminsAreMade'
    BY <2>4, <2>6, <2>9, TraceKept DEF IInv, AdminsAreMade
  <2>15. QED BY <2>6, <2>8, <2>11, <2>12, <2>13, <2>14, TokensHold DEF IInv
<1>4. QED BY <1>2, <1>3 DEF SignInVerified

\* The steps that touch nothing but one token, which gets older.
LEMMA TokenStep ==
  ASSUME IInv, NEW t \in Tokens, NEW x \in TokenRow,
         UNCHANGED <<users, told, call>>, count' \in 0 .. MaxCalls,
         tokens[t].state \in {"live", "expired"},
         tokens' = [tokens EXCEPT ![t] = x],
         x.user = tokens[t].user, x.parent = tokens[t].parent,
         x.state \in {"expired", "revoked"}
  PROVE  IInv'
<1>1. tokens \in [Tokens -> TokenRow]
  BY DEF IInv, TypeOK
<1>2. tokens' \in [Tokens -> TokenRow] /\ \A q \in Tokens : tokens'[q] = IF q = t THEN x
                                                                         ELSE tokens[q]
  BY <1>1
<1>3. \A q \in Tokens : Aged(q)
  BY <1>2 DEF Aged, Exists
<1>4. tokens[t].user \in Users /\ Exists(tokens[t].user)
  BY DEF IInv, Owned, NoSessionWithoutAccount
<1>5. /\ users' \in [Users -> UserRow \cup {NoUser}] /\ Constrained' /\ users' = users
      /\ \A u \in Users : Exists(u)' <=> Exists(u)
  BY DEF IInv, TypeOK, Constrained, Exists
<1>6. QED BY <1>2, <1>3, <1>4, <1>5, NoCallStep

LEMMA ExpireStep ==
  ASSUME IInv, NEW t \in Tokens, Expire(t)
  PROVE  IInv'
<1>1. PICK r, x : r = tokens[t] /\ x = [r EXCEPT !.state = "expired"]
  OBVIOUS
<1>2. r \in TokenRow /\ tokens' = [tokens EXCEPT ![t] = x]
  BY <1>1 DEF Expire, IInv, TypeOK
<1>3. x \in TokenRow /\ x.user = r.user /\ x.parent = r.parent /\ x.state = "expired"
  BY <1>1, <1>2 DEF TokenRow
<1>4. /\ UNCHANGED <<users, told, call>> /\ count' \in 0 .. MaxCalls
      /\ tokens[t].state = "live"
  BY DEF Expire, IInv, TypeOK
<1>5. QED BY <1>1, <1>2, <1>3, <1>4, TokenStep

LEMMA LogoutStep ==
  ASSUME IInv, NEW u \in Users, NEW t \in Tokens, Logout(u, t)
  PROVE  IInv'
<1>1. PICK r, x : r = tokens[t] /\ x = RevokedRow(r)
  OBVIOUS
<1>2. /\ r \in TokenRow /\ tokens' = [tokens EXCEPT ![t] = x]
      /\ r.state \in {"live", "expired"}
  BY <1>1 DEF Logout, RevokeRefreshToken, IInv, TypeOK
<1>3. x \in TokenRow /\ x.user = r.user /\ x.parent = r.parent /\ x.state = "revoked"
  BY <1>1, <1>2, RevokedType
<1>4. UNCHANGED <<users, told, call>> /\ count' \in 0 .. MaxCalls
  BY AccountsAssumption DEF Logout, Counted, IInv, TypeOK
<1>5. QED BY <1>1, <1>2, <1>3, <1>4, TokenStep

LEMMA SuspendStep ==
  ASSUME IInv, NEW u \in Users, Suspend(u)
  PROVE  IInv'
<1>1. PICK r, x : r = users[u] /\ x = [r EXCEPT !.active = FALSE]
  OBVIOUS
<1>2. /\ Exists(u) /\ users' = [users EXCEPT ![u] = x]
      /\ UNCHANGED <<tokens, told, call>> /\ count' \in 0 .. MaxCalls
  BY <1>1, AccountsAssumption DEF Suspend, AuthUser, Counted, IInv, TypeOK
<1>3. r \in UserRow /\ HasIdentifier(r)
  BY <1>1, <1>2, NothingType DEF IInv, TypeOK, Constrained
<1>4. x \in UserRow /\ x.email = r.email /\ x.phone = r.phone /\ x.role = r.role
  BY <1>1, <1>3 DEF UserRow
<1>5. HasIdentifier(x) /\ x # NoUser
  BY <1>3, <1>4, RowIsThere DEF HasIdentifier
<1>6. ~Taken(u, x)
  BY <1>1, <1>4 DEF IInv, Constrained, Taken
<1>7. /\ users' \in [Users -> UserRow \cup {NoUser}] /\ Constrained'
      /\ \A v \in Users : users'[v] = IF v = u THEN x ELSE users[v]
  BY <1>2, <1>4, <1>5, <1>6, RowWritten
<1>8. /\ \A v \in Users : Exists(v)' <=> Exists(v)
      /\ \A v \in Users : users'[v].role = users[v].role
      /\ \A v \in Users \ {u} : users'[v] = users[v]
  BY <1>1, <1>2, <1>4, <1>5, <1>7 DEF Exists
<1>9. tokens' \in [Tokens -> TokenRow] /\ \A q \in Tokens : Aged(q)
  <2>1. \A q \in Tokens : tokens[q].state # "none" <=> tokens[q].user \in Users
    BY DEF IInv, Owned
  <2>2. QED BY <1>2, <1>8, <2>1 DEF Aged, IInv, TypeOK
<1>10. QED BY <1>2, <1>7, <1>8, <1>9, NoCallStep

-----------------------------------------------------------------------------
(* The invariant.                                                          *)

LEMMA ContinueStep ==
  ASSUME IInv, NEW s \in Calls, Continue(s)
  PROVE  IInv'
<1>1. CASE LoadPassword(s) \/ LoadIdentifier(s) \/ IdentifierFree(s)
  BY <1>1, LoadPasswordStep, LoadIdentifierStep, IdentifierFreeStep
<1>2. CASE LoadRole(s) \/ LoadDelete(s) \/ LoadVerified(s)
  BY <1>2, LoadRoleStep, LoadDeleteStep
<1>3. ASSUME NEW t \in Tokens,
             CommitRegister(s, t) \/ CommitLogin(s, t) \/ CommitRefresh(s, t)
      PROVE  IInv'
  BY <1>3, CommitRegisterStep, CommitLoginStep, CommitRefreshStep
<1>4. CASE CommitPassword(s) \/ CommitIdentifier(s) \/ CommitRole(s)
  BY <1>4, CommitPasswordStep, CommitCopyStep
<1>5. CASE RevokeSessions(s) \/ CommitDelete(s)
  BY <1>5, RevokeSessionsStep, CommitDeleteStep
<1>6. QED BY <1>1, <1>2, <1>3, <1>4, <1>5 DEF Continue

LEMMA NextStep ==
  ASSUME IInv, [Next]_vars
  PROVE  IInv'
<1>1. ASSUME NEW s \in Calls, Open(s) \/ Continue(s) \/ GiveUp(s) PROVE IInv'
  BY <1>1, OpenStep, ContinueStep, GiveUpStep
<1>2. ASSUME NEW ph \in Phones, NEW u \in Users, NEW t \in Tokens, SignInVerified(ph, u, t)
      PROVE  IInv'
  BY <1>2, SignInVerifiedStep
<1>3. ASSUME NEW t \in Tokens, Expire(t) PROVE IInv'
  BY <1>3, ExpireStep
<1>4. ASSUME NEW t \in Tokens, NEW u \in Users, Logout(u, t) PROVE IInv'
  BY <1>4, LogoutStep
<1>5. ASSUME NEW u \in Users, Suspend(u) PROVE IInv'
  BY <1>5, SuspendStep
<1>6. CASE UNCHANGED vars
  <2>1. UNCHANGED <<users, tokens, told, call, count>>
    BY <1>6 DEF vars
  <2>2. TypeOK' /\ CallInv' /\ Constrained' /\ Owned' /\ Rotated'
    BY <2>1 DEF IInv, TypeOK, CallInv, Good, Shaped, Reserved, Rotates, Traced, WasAdmin,
                Constrained, Owned, Rotated, Exists
  <2>3. AnnouncedExistence' /\ NoSessionWithoutAccount' /\ AdminsAreMade'
    BY <2>1 DEF IInv, AnnouncedExistence, NoSessionWithoutAccount, AdminsAreMade, WasAdmin,
                Exists
  <2>4. QED BY <2>2, <2>3 DEF IInv
<1>7. QED BY <1>1, <1>2, <1>3, <1>4, <1>5, <1>6 DEF Next

LEMMA InitInv == Init => IInv
<1> SUFFICES ASSUME Init PROVE IInv
  OBVIOUS
<1>1. /\ users = Seeded /\ tokens = [t \in Tokens |-> NoToken]
      /\ call = [s \in Calls |-> NoCall] /\ count = 0
  BY DEF Init
<1>2. /\ NoToken.state = "none" /\ NoToken.user = None /\ NoToken.parent = None
  BY DEF NoToken
<1>3. /\ \A e \in told : \E u \in Users : e = Event("registered", u, None) /\ Exists(u)
      /\ \A u \in Users : Exists(u) => Event("registered", u, None) \in told
  BY <1>1 DEF Init, Exists
<1>4. TypeOK
  <2>1. told \subseteq EventType
    BY <1>3, EventTypes
  <2>2. QED BY <1>1, <2>1, NothingType, AccountsAssumption DEF TypeOK
<1>5. CallInv
  BY <1>1, NothingGood DEF CallInv
<1>6. Constrained
  BY <1>1, AccountsAssumption DEF Constrained, Exists
<1>7. Owned /\ Rotated /\ NoSessionWithoutAccount
  BY <1>1, <1>2, AccountsAssumption DEF Owned, Rotated, NoSessionWithoutAccount
<1>8. AnnouncedExistence
  BY <1>3 DEF AnnouncedExistence, Event
<1>9. AdminsAreMade
  <2>1. \A e \in told : e.by = None
    BY <1>3 DEF Event
  <2>2. QED BY <1>1, <2>1 DEF AdminsAreMade, WasAdmin
<1>10. QED BY <1>4, <1>5, <1>6, <1>7, <1>8, <1>9 DEF IInv

LEMMA Inductive == Spec => []IInv
BY InitInv, NextStep, PTL DEF Spec

\* Two accounts with one address would share it in one of their columns.
LEMMA FoundOnce ==
  ASSUME IInv, NEW i \in Identifiers,
         NEW u \in FindByIdentifier(i), NEW v \in FindByIdentifier(i)
  PROVE  u = v
<1>1. /\ u \in Users /\ v \in Users /\ i # None
      /\ i \in {users[u].email, users[u].phone} /\ i \in {users[v].email, users[v].phone}
  BY AccountsAssumption DEF FindByIdentifier, Identifiers
<1>2. users[u] \in UserRow /\ users[v] \in UserRow
  BY <1>1, NothingType DEF IInv, TypeOK
<1>3. ASSUME NEW x \in UserRow, i \in {x.email, x.phone}
      PROVE  /\ i \in Emails => x.email = i
             /\ i \in Phones => x.phone = i
  BY <1>1, <1>3, AccountsAssumption DEF UserRow
<1>4. \/ users[u].email = i /\ users[v].email = i
      \/ users[u].phone = i /\ users[v].phone = i
  BY <1>1, <1>2, <1>3 DEF Identifiers
<1>5. QED BY <1>1, <1>4 DEF IInv, Constrained

-----------------------------------------------------------------------------
(* The rows, tokens, events and calls in progress keep their types: every  *)
(* row that register_user.rs, the change commands and phone_auth.rs write  *)
(* is a row of the table.                                                  *)
THEOREM AccountsTyped == Spec => []TypeOK
<1>1. IInv => TypeOK
  BY DEF IInv
<1>2. QED BY <1>1, Inductive, PTL

(* No two accounts share an address or a number, however many              *)
(* registrations, changes of an address and phone sign-ins found it free   *)
(* before one of them wrote it (register_user.rs, change_identifier.rs,    *)
(* phone_auth.rs and the two unique indexes).                              *)
THEOREM IdentifiersUnique == Spec => []OneAccountPerIdentifier
<1>1. IInv => OneAccountPerIdentifier
  <2> SUFFICES ASSUME IInv, NEW i \in Identifiers
               PROVE  Cardinality(FindByIdentifier(i)) <= 1
    BY DEF OneAccountPerIdentifier
  <2>1. CASE FindByIdentifier(i) = {}
    BY <2>1, FS_EmptySet
  <2>2. CASE \E u : u \in FindByIdentifier(i)
    <3>1. PICK u : u \in FindByIdentifier(i)
      BY <2>2
    <3>2. FindByIdentifier(i) = {u}
      BY <3>1, FoundOnce
    <3>3. Cardinality({u}) = 1
      BY FS_Singleton, Zenon
    <3>4. QED BY <3>2, <3>3
  <2>3. QED BY <2>1, <2>2
<1>2. QED BY <1>1, Inductive, PTL

(* An account exists just when its registration was announced and its      *)
(* deletion was not: the outbox and the table are written by one           *)
(* transaction, and no save of a stale copy brings a deleted row back      *)
(* (user_repository.rs, delete_account.rs).                                *)
THEOREM ExistenceAnnounced == Spec => []AnnouncedExistence
<1>1. IInv => AnnouncedExistence
  BY DEF IInv
<1>2. QED BY <1>1, Inductive, PTL

(* Every token that is live, expired or revoked belongs to an account that *)
(* is there: a login or a refresh under way when its account is deleted    *)
(* leaves no session behind (delete_account.rs).                           *)
THEOREM NoOrphanSession == Spec => []NoSessionWithoutAccount
<1>1. IInv => NoSessionWithoutAccount
  BY DEF IInv
<1>2. QED BY <1>1, Inductive, PTL

(* A refresh token that was exchanged is not usable again, also when two   *)
(* calls exchange it at once (refresh_access_token.rs).                    *)
THEOREM RotationKills == Spec => []RotatedIsDead
<1>1. IInv => RotatedIsDead
  BY DEF IInv, Rotated, RotatedIsDead, Usable
<1>2. QED BY <1>1, Inductive, PTL

(* Every admin, and everyone who changed a role, can be traced through     *)
(* announced changes to an admin there was at the start, whatever stale    *)
(* copies of rows were saved (change_user_role.rs, user.rs).               *)
THEOREM AdminsTraced == Spec => []AdminsAreMade
<1>1. IInv => AdminsAreMade
  BY DEF IInv
<1>2. QED BY <1>1, Inductive, PTL

-----------------------------------------------------------------------------
(* The directory.                                                          *)

(***************************************************************************)
(* What a call carries into the directory: a registration one name, a      *)
(* saved copy the number its account has, and a deletion an account that   *)
(* was announced.                                                          *)
(***************************************************************************)
Carried(c) ==
  /\ c.kind = "register" => \E i \in Identifiers : Names(c.row) = {i}
  /\ c.kind \in Saving /\ c.pc \in {"unique", "commit"} /\ Exists(c.user) =>
       c.row.phone = users[c.user].phone
  /\ c.kind \in Deleting /\ c.pc # "load" => Event("registered", c.user, None) \in told

Carries == \A s \in Calls : Carried(call[s])

LEMMA NamesOf ==
  ASSUME NEW row \in UserRow
  PROVE  /\ Names(row) \cap Emails = {row.email} \ {None}
         /\ Names(row) \cap Phones = {row.phone} \ {None}
         /\ Names(row) \subseteq Identifiers
         /\ Names(row) # {} <=> HasIdentifier(row)
<1>1. /\ row.email \in Emails \cup {None} /\ row.phone \in Phones \cup {None}
      /\ None \notin Emails /\ None \notin Phones /\ Emails \cap Phones = {}
  BY AccountsAssumption DEF UserRow
<1>2. PICK e, n : e = row.email /\ n = row.phone
  OBVIOUS
<1>3. Names(row) = {e, n} \ {None}
  BY <1>2 DEF Names
<1>4. Names(row) # {} <=> HasIdentifier(row)
  BY <1>2, <1>3 DEF HasIdentifier
<1>5. QED BY <1>1, <1>2, <1>3, <1>4 DEF Identifiers

LEMMA NewNames ==
  ASSUME NEW i \in Identifiers, NEW p, NEW m
  PROVE  Names(NewUser(i, p, m)) = {i}
<1>1. Emails \cap Phones = {} /\ None \notin Emails /\ None \notin Phones
  BY AccountsAssumption
<1>2. Names(NewUser(i, p, m)) = {IF i \in Emails THEN i ELSE None, IF i \in Phones THEN i ELSE None} \ {None}
  BY DEF Names, NewUser
<1>3. QED BY <1>1, <1>2 DEF Identifiers

LEMMA NoNames == Names(NoUser) = {}
BY DEF Names, NoUser

\* An account is there while it has a name.
LEMMA ThereHasNames ==
  ASSUME IInv, NEW u \in Users
  PROVE  /\ Names(users[u]) # {} <=> Exists(u)
         /\ users[u] \in UserRow
<1>1. users[u] \in UserRow
  BY NothingType DEF IInv, TypeOK
<1>2. CASE Exists(u)
  BY <1>1, <1>2, NamesOf DEF IInv, Constrained
<1>3. CASE ~Exists(u)
  BY <1>1, <1>3, NoNames DEF Exists
<1>4. QED BY <1>1, <1>2, <1>3

\* A row that collides with no other has none of their names.
LEMMA NamesUntaken ==
  ASSUME IInv, NEW u \in Users, NEW row \in UserRow, ~Taken(u, row), NEW v \in Users, v # u
  PROVE  Names(row) \cap Names(users[v]) = {}
<1>1. users[v] \in UserRow
  BY ThereHasNames
<1>2. PICK x : x = users[v]
  OBVIOUS
<1>3. /\ row.email # None => x.email # row.email
      /\ row.phone # None => x.phone # row.phone
  BY <1>2 DEF Taken
<1>4. Names(row) \cap Names(x) \cap Emails = {}
  BY <1>1, <1>2, <1>3, NamesOf
<1>5. Names(row) \cap Names(x) \cap Phones = {}
  BY <1>1, <1>2, <1>3, NamesOf
<1>6. Names(row) \subseteq Emails \cup Phones
  BY NamesOf DEF Identifiers
<1>7. QED BY <1>2, <1>4, <1>5, <1>6

\* What a step does to the rows: nothing is taken back, and an account keeps
\* its number, unless it is one no call works on yet.
Lasting ==
  /\ told \subseteq told'
  /\ \A u \in Users : Exists(u)' =>
       \/ Exists(u) /\ users'[u].phone = users[u].phone
       \/ \A r \in Calls : call[r].user = u => call[r].kind = "register" \/ call[r].pc = "load"

LEMMA CarriedStill ==
  ASSUME IInv, Lasting, NEW r \in Calls, Carried(call[r]), call'[r] = call[r]
  PROVE  Carried(call[r])'
<1>1. PICK c : c = call[r]
  OBVIOUS
<1>2. c.kind \in Saving => c.user \in Users /\ c.kind # "register"
  BY <1>1, NoIdUser DEF IInv, CallInv, Good, Shaped, Saving
<1>3. c.kind \in Saving /\ c.pc \in {"unique", "commit"} /\ Exists(c.user)' =>
        c.row.phone = users'[c.user].phone
  BY <1>1, <1>2 DEF Lasting, Carried
<1>4. c.kind \in Deleting /\ c.pc # "load" => Event("registered", c.user, None) \in told'
  BY <1>1 DEF Lasting, Carried
<1>5. c.kind = "register" => \E i \in Identifiers : Names(c.row) = {i}
  BY <1>1 DEF Carried
<1>6. QED BY <1>1, <1>3, <1>4, <1>5 DEF Carried

\* One call moves at most.
LEMMA CarriesOn ==
  ASSUME IInv, Carries, Lasting, NEW s \in Calls, NEW d, call' = [call EXCEPT ![s] = d],
         Carried(d)'
  PROVE  Carries'
<1>1. \A r \in Calls : call'[r] = IF r = s THEN d ELSE call[r]
  BY DEF IInv, TypeOK
<1>2. ASSUME NEW r \in Calls PROVE Carried(call[r])'
  <2>1. CASE r = s
    BY <1>1, <2>1
  <2>2. CASE r # s
    BY <1>1, <2>2, CarriedStill DEF Carries
  <2>3. QED BY <2>1, <2>2
<1>3. QED BY <1>2 DEF Carries

LEMMA CarriesSame ==
  ASSUME IInv, Carries, Lasting, UNCHANGED call
  PROVE  Carries'
BY CarriedStill DEF Carries

LEMMA NothingCarried == Carried(NoCall)'
BY DEF Carried, NoCall, Saving, Deleting

LEMMA RowsStay ==
  ASSUME UNCHANGED <<users, told>>
  PROVE  Lasting
BY DEF Lasting, Exists

\* A call begins.
LEMMA OpenCarries ==
  ASSUME IInv, Carries, NEW s \in Calls, Open(s)
  PROVE  Carries'
<1>1. ASSUME NEW d, Start(s, d), d.kind = "register" => \E i \in Identifiers : Names(d.row) = {i},
             d.kind \in Saving \cup Deleting => d.pc = "load"
      PROVE  Carries'
  <2>1. call' = [call EXCEPT ![s] = d] /\ UNCHANGED <<users, told>>
    BY <1>1 DEF Start
  <2>2. Carried(d)'
    BY <1>1 DEF Carried
  <2>3. QED BY <2>1, <2>2, RowsStay, CarriesOn
<1>2. ASSUME NEW u \in Users, NEW i \in Identifiers, NEW p \in Passwords, Register(s, u, i, p)
      PROVE  Carries'
  <2>1. PICK d : d = [NoCall EXCEPT !.pc = "commit", !.kind = "register", !.user = u,
                 !.pass = p, !.row = NewUser(i, p, "password"),
                 !.events = {Event("registered", u, None)}]
    OBVIOUS
  <2>2. Start(s, d)
    BY <1>2, <2>1 DEF Register, RegisterUser
  <2>3. d.kind = "register" /\ d.row = NewUser(i, p, "password")
    BY <2>1 DEF NoCall
  <2>4. QED BY <1>1, <2>2, <2>3, NewNames DEF Saving, Deleting
<1>3. ASSUME NEW i \in Identifiers, NEW p \in Passwords, Login(s, i, p) PROVE Carries'
  <2>1. PICK u \in Users :
          Start(s, [NoCall EXCEPT !.pc = "commit", !.kind = "login", !.user = u, !.pass = p])
    BY <1>3 DEF Login, LoginUser, FindByIdentifier
  <2>2. PICK d : d = [NoCall EXCEPT !.pc = "commit", !.kind = "login", !.user = u, !.pass = p]
    OBVIOUS
  <2>3. d.kind = "login"
    BY <2>2 DEF NoCall
  <2>4. QED BY <1>1, <2>1, <2>2, <2>3 DEF Saving, Deleting
<1>4. ASSUME NEW t \in Tokens, Refresh(s, t) PROVE Carries'
  <2>1. PICK d : d = [NoCall EXCEPT !.pc = "commit", !.kind = "refresh", !.user = tokens[t].user,
                 !.pass = tokens[t].under, !.token = t]
    OBVIOUS
  <2>2. Start(s, d) /\ d.kind = "refresh"
    BY <1>4, <2>1 DEF Refresh, NoCall
  <2>3. QED BY <1>1, <2>2 DEF Saving, Deleting
<1>5. ASSUME NEW by, NEW kind, NEW user, NEW arg, NEW pass, kind # "register",
             Authenticated(s, by, kind, user, arg, pass)
      PROVE  Carries'
  <2>1. PICK d : d = [NoCall EXCEPT !.pc = "load", !.kind = kind, !.user = user,
                             !.by = by, !.arg = arg, !.pass = pass]
    OBVIOUS
  <2>2. Start(s, d) /\ d.pc = "load" /\ d.kind # "register"
    BY <1>5, <2>1 DEF Authenticated, NoCall
  <2>3. QED BY <1>1, <2>2
<1>6. CASE \/ \E u \in Users, p, q \in Passwords : ChangeMyPassword(s, u, p, q)
           \/ \E u \in Users, i \in Emails, p \in Passwords : ChangeMyIdentifier(s, u, i, p)
           \/ \E u, v \in Users, r \in Roles : ChangeUserRole(s, u, v, r)
           \/ \E u \in Users, p \in Passwords : DeleteMe(s, u, p)
           \/ \E u \in Users : DeleteVerified(s, u)
  BY <1>5, <1>6 DEF ChangeMyPassword, ChangeMyIdentifier, ChangeUserRole, DeleteMe, DeleteVerified
<1>7. QED BY <1>2, <1>3, <1>4, <1>6 DEF Open

\* A call has found the account it is about.
LEMMA LoadCarries ==
  ASSUME IInv, Carries, NEW s \in Calls, NEW row \in UserRow, NEW events \in SUBSET EventType,
         NEW pc \in {"unique", "end", "commit", "revoke"},
         call[s].pc = "load", Loaded(s, pc, row, events),
         call[s].kind \in Saving => row.phone = users[call[s].user].phone
  PROVE  Carries'
<1>1. PICK d \in CallType :
        /\ call' = [call EXCEPT ![s] = d]
        /\ d.pc = pc /\ d.row = row /\ d.kind = call[s].kind /\ d.user = call[s].user
  BY LoadedCall
<1>2. UNCHANGED <<users, told>> /\ Exists(d.user)
  BY <1>1 DEF Loaded
<1>3. call[s] # NoCall /\ d.user \in Users /\ Shaped(call[s])
  BY <1>1, <1>2, LoadFacts
<1>4. d.kind # "register"
  BY <1>1, <1>3 DEF Shaped
<1>5. Event("registered", d.user, None) \in told
  BY <1>2, <1>3 DEF IInv, AnnouncedExistence
<1>6. d.kind \in Saving => d.row.phone = users[d.user].phone
  BY <1>1
<1>7. Carried(d)'
  BY <1>2, <1>4, <1>5, <1>6 DEF Carried
<1>8. QED BY <1>1, <1>2, <1>7, RowsStay, CarriesOn

LEMMA LoadsCarry ==
  ASSUME IInv, Carries, NEW s \in Calls,
         \/ LoadPassword(s) \/ LoadIdentifier(s) \/ LoadRole(s)
         \/ LoadDelete(s) \/ LoadVerified(s)
  PROVE  Carries'
<1>1. PICK c, u, old : c = call[s] /\ u = c.user /\ old = users[u]
  OBVIOUS
<1>2. c.pc = "load" /\ Exists(u)
  BY <1>1 DEF LoadPassword, LoadIdentifier, LoadRole, LoadDelete, LoadVerified, At, Loaded
<1>3. Shaped(c) /\ c # NoCall /\ u \in Users /\ old \in UserRow
  BY <1>1, <1>2, LoadFacts
<1>4. CASE LoadPassword(s)
  <2>1. PICK row, events : /\ row = [old EXCEPT !.pass = c.arg]
                           /\ events = {Event("password", u, None)}
    OBVIOUS
  <2>2. c.kind = "password" /\ Loaded(s, "commit", row, events)
    BY <1>1, <1>4, <2>1 DEF LoadPassword, At
  <2>3. row \in UserRow /\ row.phone = old.phone
    BY <1>3, <2>1, <2>2 DEF Shaped, UserRow
  <2>4. events \in SUBSET EventType
    BY <1>3, <2>1, EventTypes
  <2>5. QED BY <1>1, <1>2, <2>2, <2>3, <2>4, LoadCarries
<1>5. CASE LoadIdentifier(s)
  <2>1. PICK row, events : /\ row = [old EXCEPT !.email = c.arg]
                           /\ events = IdentifierEvents(old, u, c.arg)
    OBVIOUS
  <2>2. c.kind = "identifier" /\ Loaded(s, "unique", row, events)
    BY <1>1, <1>5, <2>1 DEF LoadIdentifier, At
  <2>3. row \in UserRow /\ row.phone = old.phone
    BY <1>3, <2>1, <2>2 DEF Shaped, UserRow
  <2>4. events \in SUBSET EventType
    BY <1>3, <2>1, EventTypes DEF IdentifierEvents
  <2>5. QED BY <1>1, <1>2, <2>2, <2>3, <2>4, LoadCarries
<1>6. CASE LoadRole(s)
  <2>1. PICK row, events : /\ row = [old EXCEPT !.role = c.arg]
                           /\ events = RoleEvents(old, u, c.arg, c.by)
    OBVIOUS
  <2>2. c.kind = "role" /\ Loaded(s, "commit", row, events)
    BY <1>1, <1>6, <2>1 DEF LoadRole, At
  <2>3. c.arg \in Roles /\ c.by \in Users
    BY <1>3, <2>2 DEF Shaped
  <2>4. row \in UserRow /\ row.phone = old.phone
    BY <1>3, <2>1, <2>3 DEF UserRow
  <2>5. events \in SUBSET EventType
    BY <1>3, <2>1, <2>3, EventTypes DEF RoleEvents
  <2>6. QED BY <1>1, <1>2, <2>2, <2>4, <2>5, LoadCarries
<1>7. CASE LoadDelete(s) \/ LoadVerified(s)
  <2>1. PICK events : events = {Event("deleted", u, None)}
    OBVIOUS
  <2>2. PICK pc \in {"revoke", "end"} : c.kind \in Deleting /\ Loaded(s, pc, NoUser, events)
    BY <1>1, <1>7, <2>1 DEF LoadDelete, LoadVerified, At, Deleting
  <2>3. events \in SUBSET EventType /\ c.kind \notin Saving /\ NoUser \in UserRow
    BY <1>3, <2>1, <2>2, EventTypes, NothingType DEF Saving, Deleting
  <2>4. QED BY <1>1, <1>2, <2>2, <2>3, LoadCarries
<1>8. QED BY <1>4, <1>5, <1>6, <1>7

\* A call moves on to pc with all it carries.
LEMMA MovedCarries ==
  ASSUME IInv, Carries, Lasting, NEW s \in Calls, NEW pc, call[s].pc # "load",
         call' = [call EXCEPT ![s].pc = pc],
         call[s].kind \in Saving => pc = "revoke" \/ (call[s].pc = "unique" /\ UNCHANGED users)
  PROVE  Carries'
<1>1. PICK c, d : c = call[s] /\ d = [c EXCEPT !.pc = pc]
  OBVIOUS
<1>2. c \in CallType /\ Carried(c)
  BY <1>1 DEF IInv, TypeOK, Carries
<1>3. d.pc = pc /\ d.kind = c.kind /\ d.user = c.user /\ d.row = c.row
  BY <1>1, <1>2 DEF CallType
<1>4. told \subseteq told'
  BY DEF Lasting
<1>5. Carried(d)'
  BY <1>1, <1>2, <1>3, <1>4 DEF Carried, Exists
<1>6. QED BY <1>1, <1>5, CarriesOn

\* The number stays in a saved copy.
LEMMA SaveLasts ==
  ASSUME IInv, Carries, NEW s \in Calls, call[s].kind \in Saving, call[s].pc = "commit",
         SaveUser(s)
  PROVE  Lasting
<1>1. PICK u, row : u = call[s].user /\ row = call[s].row
  OBVIOUS
<1>2. UpdateUser(u, row) /\ told \subseteq told'
  BY <1>1 DEF SaveUser, Publish
<1>3. row \in UserRow /\ users \in [Users -> UserRow \cup {NoUser}]
  BY <1>1, CallFields DEF IInv, TypeOK
<1>4. CASE ~Exists(u)
  BY <1>2, <1>4 DEF UpdateUser, Lasting, Exists
<1>5. CASE Exists(u)
  <2>1. PICK x : x = [row EXCEPT !.method = users[u].method]
    OBVIOUS
  <2>2. users' = [users EXCEPT ![u] = x] /\ x.phone = row.phone
    BY <1>2, <1>3, <1>5, <2>1 DEF UpdateUser, UserRow
  <2>3. row.phone = users[u].phone
    BY <1>1, <1>5 DEF Carries, Carried
  <2>4. \A v \in Users : users'[v] = IF v = u THEN x ELSE users[v]
    BY <1>3, <2>2
  <2>5. \A v \in Users : Exists(v)' => Exists(v) /\ users'[v].phone = users[v].phone
    BY <1>5, <2>2, <2>3, <2>4 DEF Exists
  <2>6. QED BY <1>2, <2>5 DEF Lasting
<1>6. QED BY <1>4, <1>5

\* A new account takes an id no call works on yet.
LEMMA NewAccountLasts ==
  ASSUME IInv, NEW u \in Users, NEW row, InsertUser(u, row), told \subseteq told',
         \A r \in Calls : call[r].user = u => call[r].kind = "register" \/ call[r].pc = "load"
  PROVE  Lasting
<1>1. users' = [users EXCEPT ![u] = row] /\ users \in [Users -> UserRow \cup {NoUser}]
  BY DEF InsertUser, IInv, TypeOK
<1>2. \A v \in Users : v # u => users'[v] = users[v]
  BY <1>1
<1>3. QED BY <1>2 DEF Lasting, Exists

LEMMA CommitsCarry ==
  ASSUME IInv, Carries, NEW s \in Calls,
         \/ \E t \in Tokens : CommitRegister(s, t) \/ CommitLogin(s, t) \/ CommitRefresh(s, t)
         \/ CommitIdentifier(s) \/ CommitRole(s) \/ CommitDelete(s) \/ GiveUp(s)
  PROVE  Carries'
<1>1. call' = [call EXCEPT ![s] = NoCall]
  BY Zenon DEF CommitRegister, CommitLogin, CommitRefresh, CommitIdentifier, CommitRole,
               CommitDelete, GiveUp, Finish
<1>2. Lasting
  <2>1. ASSUME NEW t \in Tokens, CommitRegister(s, t) PROVE Lasting
    <3>1. PICK c : c = call[s]
      OBVIOUS
    <3>2. /\ c.kind = "register" /\ c.pc = "commit" /\ Good(s, c)
          /\ InsertUser(c.user, c.row) /\ told \subseteq told'
      BY <2>1, <3>1 DEF CommitRegister, At, Publish, IInv, CallInv
    <3>3. c.user \in Users
      BY <3>2, NoIdUser DEF Good, Shaped
    <3>4. \A r \in Calls : call[r].user = c.user => call[r].kind = "register" \/ call[r].pc = "load"
      BY <3>1, <3>2 DEF Good, Reserved
    <3>5. QED BY <3>2, <3>3, <3>4, NewAccountLasts
  <2>2. ASSUME NEW t \in Tokens, CommitLogin(s, t) \/ CommitRefresh(s, t) PROVE Lasting
    BY <2>2, RowsStay DEF CommitLogin, CommitRefresh
  <2>3. CASE CommitIdentifier(s) \/ CommitRole(s)
    BY <2>3, SaveLasts DEF CommitIdentifier, CommitRole, At, Saving
  <2>4. CASE CommitDelete(s)
    <3>1. PICK u : u = call[s].user
      OBVIOUS
    <3>2. users' = [users EXCEPT ![u] = NoUser] /\ told \subseteq told'
      BY <2>4, <3>1 DEF CommitDelete, DeleteUser, Publish
    <3>3. \A v \in Users : users'[v] = users[v] \/ users'[v] = NoUser
      BY <3>2 DEF IInv, TypeOK
    <3>4. QED BY <3>2, <3>3 DEF Lasting, Exists
  <2>5. CASE GiveUp(s)
    BY <2>5, RowsStay DEF GiveUp
  <2>6. QED BY <2>1, <2>2, <2>3, <2>4, <2>5
<1>3. QED BY <1>1, <1>2, NothingCarried, CarriesOn

LEMMA CarriesStep ==
  ASSUME IInv, Carries, [Next]_vars
  PROVE  Carries'
<1>1. ASSUME NEW s \in Calls, Open(s) PROVE Carries'
  BY <1>1, OpenCarries
<1>2. ASSUME NEW s \in Calls, IdentifierFree(s) PROVE Carries'
  <2>1. /\ call[s].pc = "unique" /\ call' = [call EXCEPT ![s].pc = "commit"]
        /\ UNCHANGED <<users, told>>
    BY <1>2 DEF IdentifierFree
  <2>2. QED BY <2>1, RowsStay, MovedCarries
<1>3. ASSUME NEW s \in Calls, CommitPassword(s) PROVE Carries'
  <2>1. /\ call[s].pc = "commit" /\ call[s].kind = "password" /\ SaveUser(s)
        /\ call' = [call EXCEPT ![s].pc = "revoke"]
    BY <1>3 DEF CommitPassword, At
  <2>2. QED BY <2>1, SaveLasts, MovedCarries DEF Saving
<1>4. ASSUME NEW s \in Calls, RevokeSessions(s) PROVE Carries'
  <2>1. call[s].pc = "revoke" /\ UNCHANGED <<users, told>>
    BY <1>4 DEF RevokeSessions
  <2>2. CASE call[s].kind = "delete" /\ call' = [call EXCEPT ![s].pc = "end"]
    BY <2>1, <2>2, RowsStay, MovedCarries DEF Saving
  <2>3. CASE call' = [call EXCEPT ![s] = NoCall]
    BY <2>1, <2>3, RowsStay, NothingCarried, CarriesOn
  <2>4. QED BY <1>4, <2>2, <2>3 DEF RevokeSessions, Finish
<1>5. ASSUME NEW s \in Calls, Continue(s) PROVE Carries'
  BY <1>2, <1>3, <1>4, <1>5, LoadsCarry, CommitsCarry DEF Continue
<1>6. ASSUME NEW s \in Calls, GiveUp(s) PROVE Carries'
  BY <1>6, CommitsCarry
<1>7. ASSUME NEW ph \in Phones, NEW u \in Users, NEW t \in Tokens, SignInVerified(ph, u, t)
      PROVE  Carries'
  <2>1. UNCHANGED call
    BY <1>7 DEF SignInVerified
  <2>2. CASE UNCHANGED <<users, told>>
    BY <2>1, <2>2, RowsStay, CarriesSame
  <2>3. CASE /\ Fresh(u) /\ InsertUser(u, NewUser(ph, Random, "phone_otp"))
             /\ told' = told \cup {Event("registered", u, None)}
    <3>1. \A r \in Calls : call[r].user # u
      BY <2>3 DEF Fresh
    <3>2. told \subseteq told'
      BY <2>3
    <3>3. Lasting
      BY <2>3, <3>1, <3>2, NewAccountLasts
    <3>4. QED BY <2>1, <3>3, CarriesSame
  <2>4. QED BY <1>7, <2>2, <2>3 DEF SignInVerified
<1>8. ASSUME NEW t \in Tokens, Expire(t) \/ \E u \in Users : Logout(u, t) PROVE Carries'
  BY <1>8, RowsStay, CarriesSame DEF Expire, Logout
<1>9. ASSUME NEW u \in Users, Suspend(u) PROVE Carries'
  <2>1. users' = [users EXCEPT ![u].active = FALSE] /\ UNCHANGED <<told, call>> /\ Exists(u)
    BY <1>9 DEF Suspend, AuthUser
  <2>2. users[u] \in UserRow /\ users \in [Users -> UserRow \cup {NoUser}]
    BY ThereHasNames DEF IInv, TypeOK
  <2>3. \A v \in Users : users'[v].phone = users[v].phone /\ (Exists(v)' => Exists(v))
    BY <2>1, <2>2 DEF Exists, UserRow
  <2>4. Lasting
    BY <2>1, <2>3 DEF Lasting
  <2>5. QED BY <2>1, <2>4, CarriesSame
<1>10. CASE UNCHANGED vars
  BY <1>10, RowsStay, CarriesSame DEF vars
<1>11. QED BY <1>1, <1>5, <1>6, <1>7, <1>8, <1>9, <1>10 DEF Next

LEMMA CarriesAlways == Spec => [](IInv /\ Carries)
<1>1. Init => Carries
  BY DEF Init, Carries, Carried, NoCall, Saving, Deleting
<1>2. IInv /\ Carries /\ [Next]_vars => Carries'
  BY CarriesStep
<1>3. QED BY <1>1, <1>2, InitInv, NextStep, PTL DEF Spec

\* The tables as a directory.
NamesNow == [u \in Users |-> Names(users[u])]
ClosedNow == { u \in Users : Event("deleted", u, None) \in told }
HolderNow == [t \in Tokens |-> tokens[t].user]
LiveNow == { t \in Tokens : Usable(t) }
DirectoryNow == <<NamesNow, ClosedNow, HolderNow, LiveNow>>

LEMMA DirectoryInit == Init => Directory!Init
<1> SUFFICES ASSUME Init PROVE Directory!Init
  OBVIOUS
<1>1. users = Seeded /\ tokens = [t \in Tokens |-> NoToken]
  BY DEF Init
<1>2. \A u \in Users : Event("deleted", u, None) \notin told
  BY DEF Init, Event
<1>3. NoToken.user = None /\ NoToken.state = "none"
  BY DEF NoToken
<1>4. NamesNow = [u \in Users |-> Names(Seeded[u])] /\ ClosedNow = {}
  BY <1>1, <1>2 DEF NamesNow, ClosedNow
<1>5. HolderNow = [t \in Tokens |-> None] /\ LiveNow = {}
  BY <1>1, <1>3 DEF HolderNow, LiveNow, Usable
<1>6. QED BY <1>4, <1>5 DEF Directory!Init, NamesNow, ClosedNow, HolderNow, LiveNow

\* Names, deletions and holders stay, and no token comes to life.
LEMMA OnlySignsOut ==
  ASSUME \A u \in Users : Names(users'[u]) = Names(users[u]),
         \A u \in Users : Event("deleted", u, None) \in told' <=> Event("deleted", u, None) \in told,
         \A t \in Tokens : /\ tokens'[t].user = tokens[t].user
                           /\ tokens'[t].state = "live" => tokens[t].state = "live"
  PROVE  Directory!SignOut
<1>1. NamesNow' = NamesNow /\ ClosedNow' = ClosedNow
  BY DEF NamesNow, ClosedNow
<1>2. HolderNow' = HolderNow /\ LiveNow' \subseteq LiveNow
  BY DEF HolderNow, LiveNow, Usable
<1>3. QED BY <1>1, <1>2 DEF Directory!SignOut, NamesNow, ClosedNow, HolderNow, LiveNow

\* A token is inserted, perhaps into a table where the token it is exchanged
\* for is dead already.
LEMMA TokenInserted ==
  ASSUME IInv, NEW t \in Tokens, NEW u \in Users, NEW p \in Tokens \cup {None},
         NEW x, NEW old \in SUBSET Tokens, NEW tab \in [Tokens -> TokenRow],
         \A q \in old : tab[q] = RevokedRow(tokens[q]),
         \A q \in Tokens \ old : tab[q] = tokens[q],
         InsertToken(tab, t, NewToken(u, p, x))
  PROVE  Directory!Issue(t, u, old) /\ users'[u] # NoUser
<1>1. tokens \in [Tokens -> TokenRow]
  BY DEF IInv, TypeOK
<1>2. \A q \in Tokens : /\ tab[q].user = tokens[q].user
                        /\ tab[q].state = "live" <=> tokens[q].state = "live" /\ q \notin old
                        /\ q \notin old => tab[q] = tokens[q]
  BY <1>1, RevokedType
<1>3. /\ NewToken(u, p, x).user = u /\ NewToken(u, p, x).state = "live"
      /\ NoToken.user = None
  BY DEF NewToken, NoToken
<1>4. tab[t] = NoToken /\ tokens' = [tab EXCEPT ![t] = NewToken(u, p, x)] /\ users'[u] # NoUser
  BY <1>3 DEF InsertToken
<1>5. tokens[t].user = None
  BY <1>2, <1>3, <1>4
<1>6. \A q \in Tokens : tokens'[q] = IF q = t THEN NewToken(u, p, x) ELSE tab[q]
  BY <1>4
<1>7. HolderNow[t] = None /\ HolderNow' = [HolderNow EXCEPT ![t] = u]
  BY <1>2, <1>3, <1>5, <1>6 DEF HolderNow
<1>8. LiveNow' = (LiveNow \ old) \cup {t}
  BY <1>2, <1>3, <1>6 DEF LiveNow, Usable
<1>9. QED BY <1>4, <1>7, <1>8 DEF Directory!Issue, HolderNow, LiveNow

LEMMA TokenIssued ==
  ASSUME IInv, NEW t \in Tokens, NEW u \in Users, NEW x,
         InsertToken(tokens, t, NewToken(u, None, x))
  PROVE  Directory!Issue(t, u, {}) /\ users'[u] # NoUser
<1>1. tokens \in [Tokens -> TokenRow]
  BY DEF IInv, TypeOK
<1>2. PICK tab, old, p : tab = tokens /\ old = {} /\ p = None
  OBVIOUS
<1>3. /\ tab \in [Tokens -> TokenRow]
      /\ \A q \in old : tab[q] = RevokedRow(tokens[q])
      /\ \A q \in Tokens \ old : tab[q] = tokens[q]
      /\ InsertToken(tab, t, NewToken(u, p, x))
      /\ old \in SUBSET Tokens /\ p \in Tokens \cup {None}
  BY <1>1, <1>2
<1>4. Directory!Issue(t, u, old) /\ users'[u] # NoUser
  BY <1>3, TokenInserted
<1>5. QED BY <1>2, <1>4

\* An account appears with one name that nobody has.
LEMMA SignsUp ==
  ASSUME IInv, NEW u \in Users, NEW i \in Identifiers, NEW row \in UserRow, NEW t \in Tokens,
         NEW x, Names(row) = {i}, ~Exists(u), \A e \in told : e.user # u,
         InsertUser(u, row), told' = told \cup {Event("registered", u, None)},
         InsertToken(tokens, t, NewToken(u, None, x))
  PROVE  Directory!SignUp(u, i, t)
<1>1. users' = [users EXCEPT ![u] = row] /\ ~Taken(u, row)
  BY DEF InsertUser
<1>2. \A v \in Users : users'[v] = IF v = u THEN row ELSE users[v]
  BY <1>1 DEF IInv, TypeOK
<1>3. NamesNow[u] = {}
  BY ThereHasNames DEF NamesNow
<1>4. u \notin ClosedNow /\ ClosedNow' = ClosedNow
  BY DEF ClosedNow, Event
<1>5. ASSUME NEW v \in Users \ {u} PROVE {i} \cap NamesNow[v] = {}
  BY <1>1, NamesUntaken DEF NamesNow
<1>6. NamesNow' = [NamesNow EXCEPT ![u] = {i}]
  BY <1>2 DEF NamesNow
<1>7. Directory!Issue(t, u, {})
  BY TokenIssued
<1>8. QED BY <1>3, <1>4, <1>5, <1>6, <1>7
         DEF Directory!SignUp, Directory!There, Directory!Free, NamesNow, ClosedNow

LEMMA SignsIn ==
  ASSUME IInv, NEW u \in Users, NEW t \in Tokens, NEW x, UNCHANGED <<users, told>>,
         InsertToken(tokens, t, NewToken(u, None, x))
  PROVE  Directory!SignIn(u, t)
<1>1. Directory!Issue(t, u, {}) /\ Exists(u)
  BY TokenIssued DEF Exists
<1>2. NamesNow[u] # {}
  BY <1>1, ThereHasNames DEF NamesNow
<1>3. NamesNow' = NamesNow /\ ClosedNow' = ClosedNow
  BY DEF NamesNow, ClosedNow
<1>4. QED BY <1>1, <1>2, <1>3 DEF Directory!SignIn, Directory!There, NamesNow, ClosedNow

LEMMA Renews ==
  ASSUME IInv, NEW s \in Calls, NEW t \in Tokens, CommitRefresh(s, t)
  PROVE  \E u \in Users, old \in Tokens : Directory!Renew(u, old, t)
<1>1. PICK c, u, p, S, tab :
        /\ c = call[s] /\ u = c.user /\ p = c.token /\ S = {p}
        /\ tab = [tokens EXCEPT ![p] = RevokedRow(tokens[p])]
  OBVIOUS
<1>2. /\ c.kind = "refresh" /\ c.pc = "commit" /\ Good(s, c)
      /\ InsertToken(tab, t, NewToken(u, p, c.pass)) /\ UNCHANGED <<users, told>>
  BY <1>1 DEF CommitRefresh, At, IInv, CallInv
<1>3. u \in Users /\ p \in Tokens /\ tokens[p].user = u
  BY <1>1, <1>2, NoIdUser DEF Good, Shaped, Rotates
<1>4. /\ tab \in [Tokens -> TokenRow]
      /\ \A q \in S : tab[q] = RevokedRow(tokens[q])
      /\ \A q \in Tokens \ S : tab[q] = tokens[q]
  <2>1. PICK r : r = RevokedRow(tokens[p])
    OBVIOUS
  <2>2. tokens \in [Tokens -> TokenRow] /\ r \in TokenRow
    BY <1>3, <2>1, RevokedType DEF IInv, TypeOK
  <2>3. tab = [tokens EXCEPT ![p] = r]
    BY <1>1, <2>1
  <2>4. tab \in [Tokens -> TokenRow] /\ tab[p] = r /\ \A q \in Tokens \ {p} : tab[q] = tokens[q]
    BY <1>3, <2>2, <2>3
  <2>5. \A q \in S : tab[q] = RevokedRow(tokens[q])
    BY <1>1, <2>1, <2>4
  <2>6. QED BY <1>1, <2>4, <2>5
<1>5. Directory!Issue(t, u, S) /\ users'[u] # NoUser
  <2>1. PICK x : x = c.pass
    OBVIOUS
  <2>2. InsertToken(tab, t, NewToken(u, p, x))
    BY <1>2, <2>1
  <2>3. S \in SUBSET Tokens /\ p \in Tokens \cup {None}
    BY <1>1, <1>3
  <2>4. QED BY <1>3, <1>4, <2>2, <2>3, TokenInserted
<1>6. NamesNow[u] # {}
  BY <1>2, <1>3, <1>5, ThereHasNames DEF NamesNow, Exists
<1>7. NamesNow' = NamesNow /\ ClosedNow' = ClosedNow
  BY <1>2 DEF NamesNow, ClosedNow
<1>8. HolderNow[p] = u
  BY <1>3 DEF HolderNow
<1>9. Directory!Renew(u, p, t)
  BY <1>1, <1>5, <1>6, <1>7, <1>8
     DEF Directory!Renew, Directory!There, NamesNow, ClosedNow, HolderNow
<1>10. QED BY <1>3, <1>9

\* A saved copy gives its account another address at most.
LEMMA Readdresses ==
  ASSUME IInv, Carries, NEW s \in Calls, call[s].kind \in Saving, call[s].pc = "commit",
         SaveUser(s)
  PROVE  Directory!SignOut \/ \E u \in Users : Directory!Readdress(u)
<1>1. PICK c, u, row : c = call[s] /\ u = c.user /\ row = c.row
  OBVIOUS
<1>2. /\ Good(s, c) /\ c # NoCall /\ Carried(c)
      /\ UpdateUser(u, row) /\ told' = told \cup c.events /\ tokens' = tokens
  BY <1>1, NoIdUser DEF SaveUser, Publish, IInv, CallInv, Carries, Saving
<1>3. /\ u \in Users /\ HasIdentifier(row) /\ row \in UserRow
      /\ \A e \in c.events : e.what # "deleted"
  BY <1>1, <1>2, CallFields DEF Good, Shaped, IInv, TypeOK
<1>4. \A v \in Users : Event("deleted", v, None) \in told' <=> Event("deleted", v, None) \in told
  BY <1>2, <1>3 DEF Event
<1>5. CASE ~Exists(u)
  <2>1. users' = users
    BY <1>2, <1>5 DEF UpdateUser
  <2>2. QED BY <1>2, <1>4, <2>1, OnlySignsOut
<1>6. CASE Exists(u)
  <2>1. PICK x, e : x = [row EXCEPT !.method = users[u].method] /\ e = {row.email} \ {None}
    OBVIOUS
  <2>2. users' = [users EXCEPT ![u] = x] /\ ~Taken(u, row)
    BY <1>2, <1>3, <1>6, <2>1 DEF UpdateUser, Taken, UserRow
  <2>3. Names(x) = Names(row)
    BY <1>3, <2>1 DEF Names, UserRow
  <2>4. \A v \in Users : users'[v] = IF v = u THEN x ELSE users[v]
    BY <2>2 DEF IInv, TypeOK
  <2>5. NamesNow' = [NamesNow EXCEPT ![u] = Names(row)]
    BY <2>3, <2>4 DEF NamesNow
  <2>6. users[u] \in UserRow /\ NamesNow[u] # {} /\ NamesNow[u] = Names(users[u])
    BY <1>3, <1>6, ThereHasNames DEF NamesNow
  <2>7. row.phone = users[u].phone
    BY <1>1, <1>2, <1>6 DEF Carried
  <2>8. Names(row) = e \cup (NamesNow[u] \cap Phones)
    <3>1. NamesNow[u] \cap Phones = Names(row) \cap Phones
      BY <1>3, <2>6, <2>7, NamesOf
    <3>2. e = Names(row) \cap Emails
      BY <1>3, <2>1, NamesOf
    <3>3. Names(row) \subseteq Emails \cup Phones
      BY <1>3, NamesOf DEF Identifiers
    <3>4. QED BY <3>1, <3>2, <3>3
  <2>9. Names(row) # {}
    BY <1>3, NamesOf
  <2>10. \A v \in Users \ {u} : Names(row) \cap NamesNow[v] = {}
    BY <1>3, <2>2, NamesUntaken DEF NamesNow
  <2>11. e \in {{}} \cup { {i} : i \in Emails }
    BY <1>3, <2>1 DEF UserRow
  <2>12. PICK n : n = Names(row)
    OBVIOUS
  <2>13. /\ n # {} /\ (\A v \in Users \ {u} : n \cap NamesNow[v] = {})
         /\ NamesNow' = [NamesNow EXCEPT ![u] = n] /\ n = e \cup (NamesNow[u] \cap Phones)
    BY <2>5, <2>8, <2>9, <2>10, <2>12
  <2>14. ClosedNow' = ClosedNow /\ HolderNow' = HolderNow /\ LiveNow' = LiveNow
    BY <1>2, <1>4 DEF ClosedNow, HolderNow, LiveNow, Usable
  <2>15. Directory!Readdress(u)
    BY <2>6, <2>11, <2>13, <2>14 DEF Directory!Readdress, Directory!There, Directory!Free,
       NamesNow, ClosedNow, HolderNow, LiveNow
  <2>16. QED BY <1>3, <2>15
<1>7. QED BY <1>5, <1>6

\* An account is closed once, by the deletion that finds it.
LEMMA Closes ==
  ASSUME IInv, Carries, NEW s \in Calls, CommitDelete(s)
  PROVE  Directory!SignOut \/ \E u \in Users : Directory!Close(u)
<1>1. PICK c, u : c = call[s] /\ u = c.user
  OBVIOUS
<1>2. /\ c.pc = "end" /\ c # NoCall /\ Good(s, c) /\ Carried(c)
      /\ DeleteUser(u) /\ told' = told \cup c.events
  BY <1>1 DEF CommitDelete, Publish, IInv, CallInv, Carries, NoCall
<1>3. u \in Users /\ c.kind \in Deleting /\ c.events = {Event("deleted", u, None)}
  BY <1>1, <1>2 DEF Good, Shaped
<1>4. Event("registered", u, None) \in told
  BY <1>1, <1>2, <1>3 DEF Carried
<1>5. \A v \in Users : users'[v] = IF v = u THEN NoUser ELSE users[v]
  BY <1>2 DEF DeleteUser, IInv, TypeOK
<1>6. \A t \in Tokens : /\ tokens'[t].user = tokens[t].user
                        /\ tokens'[t].state = "live" <=> tokens[t].state = "live" /\ tokens[t].user # u
  BY <1>2 DEF DeleteUser, IInv, TypeOK, TokenRow
<1>7. \A v \in Users : Event("deleted", v, None) \in told' <=>
                         v = u \/ Event("deleted", v, None) \in told
  BY <1>2, <1>3 DEF Event
<1>8. CASE ~Exists(u)
  <2>1. Event("deleted", u, None) \in told
    BY <1>3, <1>4, <1>8 DEF IInv, AnnouncedExistence
  <2>2. \A v \in Users : Names(users'[v]) = Names(users[v])
    BY <1>5, <1>8 DEF Exists
  <2>3. QED BY <1>6, <1>7, <2>1, <2>2, OnlySignsOut
<1>9. CASE Exists(u)
  <2>1. NamesNow[u] # {} /\ NamesNow' = [NamesNow EXCEPT ![u] = {}]
    BY <1>3, <1>5, <1>9, ThereHasNames, NoNames DEF NamesNow
  <2>2. ClosedNow' = ClosedNow \cup {u}
    BY <1>3, <1>7 DEF ClosedNow
  <2>3. HolderNow' = HolderNow /\ LiveNow' = { t \in LiveNow : HolderNow[t] # u }
    BY <1>6 DEF HolderNow, LiveNow, Usable
  <2>4. Directory!Close(u)
    BY <2>1, <2>2, <2>3 DEF Directory!Close, Directory!There,
       NamesNow, ClosedNow, HolderNow, LiveNow
  <2>5. QED BY <1>3, <2>4
<1>10. QED BY <1>8, <1>9

LEMMA DirectoryStep ==
  ASSUME IInv, Carries, [Next]_vars
  PROVE  [Directory!Next]_DirectoryNow
<1> SUFFICES Directory!Next \/ UNCHANGED DirectoryNow
  OBVIOUS
<1>1. Directory!SignOut => Directory!Next
  BY DEF Directory!Next
<1>2. UNCHANGED <<users, tokens, told>> => Directory!Next
  BY <1>1, OnlySignsOut
<1>3. ASSUME NEW s \in Calls, Open(s) PROVE Directory!Next
  <2>1. ASSUME NEW d, Start(s, d) PROVE Directory!Next
    BY <1>2, <2>1 DEF Start
  <2>2. QED BY <1>3, <2>1 DEF Open, Register, RegisterUser, Login, LoginUser, Refresh,
          ChangeMyPassword, ChangeMyIdentifier, ChangeUserRole, DeleteMe, DeleteVerified,
          Authenticated
<1>4. ASSUME NEW s \in Calls,
             \/ LoadPassword(s) \/ LoadIdentifier(s) \/ IdentifierFree(s)
             \/ LoadRole(s) \/ LoadDelete(s) \/ LoadVerified(s) \/ GiveUp(s)
      PROVE  Directory!Next
  <2>1. UNCHANGED <<users, tokens, told>>
    BY <1>4 DEF LoadPassword, LoadIdentifier, IdentifierFree, LoadRole, LoadDelete, LoadVerified,
                GiveUp, Loaded
  <2>2. QED BY <1>2, <2>1
<1>5. ASSUME NEW s \in Calls, NEW t \in Tokens, CommitRegister(s, t) PROVE Directory!Next
  <2>1. PICK c : c = call[s]
    OBVIOUS
  <2>2. /\ c.kind = "register" /\ c.pc = "commit" /\ Good(s, c) /\ Carried(c) /\ c \in CallType
        /\ InsertUser(c.user, c.row) /\ told' = told \cup c.events
        /\ InsertToken(tokens, t, NewToken(c.user, None, c.pass))
    BY <1>5, <2>1 DEF CommitRegister, At, Publish, IInv, TypeOK, CallInv, Carries
  <2>3. /\ c.user \in Users /\ c.row \in UserRow
        /\ c.events = {Event("registered", c.user, None)}
        /\ ~Exists(c.user) /\ \A e \in told : e.user # c.user
    BY <2>2, CallFields, NoIdUser DEF Good, Shaped, Reserved
  <2>4. PICK i \in Identifiers : Names(c.row) = {i}
    BY <2>2 DEF Carried
  <2>5. Directory!SignUp(c.user, i, t)
    BY <2>2, <2>3, <2>4, SignsUp
  <2>6. QED BY <2>3, <2>4, <2>5 DEF Directory!Next, Identifiers
<1>6. ASSUME NEW s \in Calls, NEW t \in Tokens, CommitLogin(s, t) PROVE Directory!Next
  <2>1. PICK c : c = call[s]
    OBVIOUS
  <2>2. /\ c.kind = "login" /\ Good(s, c) /\ UNCHANGED <<users, told>>
        /\ InsertToken(tokens, t, NewToken(c.user, None, c.pass))
    BY <1>6, <2>1 DEF CommitLogin, At, IInv, CallInv
  <2>3. c.user \in Users
    BY <2>2, NoIdUser DEF Good, Shaped
  <2>4. Directory!SignIn(c.user, t)
    BY <2>2, <2>3, SignsIn
  <2>5. QED BY <2>3, <2>4 DEF Directory!Next
<1>7. ASSUME NEW s \in Calls, NEW t \in Tokens, CommitRefresh(s, t) PROVE Directory!Next
  BY <1>7, Renews DEF Directory!Next
<1>8. ASSUME NEW s \in Calls, CommitPassword(s) \/ CommitIdentifier(s) \/ CommitRole(s)
      PROVE  Directory!Next
  <2>1. call[s].kind \in Saving /\ call[s].pc = "commit" /\ SaveUser(s)
    BY <1>8 DEF CommitPassword, CommitIdentifier, CommitRole, At, Saving
  <2>2. QED BY <2>1, Readdresses DEF Directory!Next
<1>9. ASSUME NEW s \in Calls, RevokeSessions(s) PROVE Directory!Next
  <2>1. PICK u : u = call[s].user
    OBVIOUS
  <2>2. RevokeAll(u) /\ UNCHANGED <<users, told>>
    BY <1>9, <2>1 DEF RevokeSessions
  <2>3. \A q \in Tokens : Aged(q)
    BY <2>2, RevokedAged
  <2>4. QED BY <1>1, <2>2, <2>3, OnlySignsOut DEF Aged
<1>10. ASSUME NEW s \in Calls, CommitDelete(s) PROVE Directory!Next
  BY <1>10, Closes DEF Directory!Next
<1>11. ASSUME NEW ph \in Phones, NEW u \in Users, NEW t \in Tokens, SignInVerified(ph, u, t)
       PROVE  Directory!Next
  <2>1. InsertToken(tokens, t, NewToken(u, None, Random))
    BY <1>11 DEF SignInVerified
  <2>2. CASE UNCHANGED <<users, told>>
    BY <2>1, <2>2, SignsIn DEF Directory!Next
  <2>3. CASE /\ Fresh(u) /\ InsertUser(u, NewUser(ph, Random, "phone_otp"))
             /\ told' = told \cup {Event("registered", u, None)}
    <3>1. PICK row : row = NewUser(ph, Random, "phone_otp")
      OBVIOUS
    <3>2. ph \in Identifiers
      BY DEF Identifiers
    <3>3. row \in UserRow /\ Names(row) = {ph}
      BY <3>1, <3>2, NewRowType, NewNames
    <3>4. ~Exists(u) /\ (\A e \in told : e.user # u) /\ InsertUser(u, row)
      BY <2>3, <3>1 DEF Fresh
    <3>5. Directory!SignUp(u, ph, t)
      BY <2>1, <2>3, <3>2, <3>3, <3>4, SignsUp
    <3>6. QED BY <3>5 DEF Directory!Next
  <2>4. QED BY <1>11, <2>2, <2>3 DEF SignInVerified
<1>12. ASSUME NEW t \in Tokens, Expire(t) \/ \E u \in Users : Logout(u, t)
       PROVE  Directory!Next
  <2>1. /\ UNCHANGED <<users, told>>
        /\ \/ tokens' = [tokens EXCEPT ![t].state = "expired"]
           \/ tokens' = [tokens EXCEPT ![t] = RevokedRow(@)]
    BY <1>12 DEF Expire, Logout, RevokeRefreshToken
  <2>2. tokens \in [Tokens -> TokenRow]
    BY DEF IInv, TypeOK
  <2>3. ASSUME NEW q \in Tokens
        PROVE  /\ tokens'[q].user = tokens[q].user
               /\ tokens'[q].state = "live" => tokens[q].state = "live"
    <3>1. CASE q # t
      BY <2>1, <2>2, <3>1
    <3>2. CASE q = t
      <4>1. PICK r : r = tokens[t]
        OBVIOUS
      <4>2. r \in TokenRow /\ tokens'[t] \in {[r EXCEPT !.state = "expired"], RevokedRow(r)}
        BY <2>1, <2>2, <4>1
      <4>3. [r EXCEPT !.state = "expired"].user = r.user
            /\ [r EXCEPT !.state = "expired"].state = "expired"
        BY <4>2 DEF TokenRow
      <4>4. QED BY <3>2, <4>1, <4>2, <4>3, RevokedType
    <3>3. QED BY <3>1, <3>2
  <2>4. QED BY <1>1, <2>1, <2>3, OnlySignsOut
<1>13. ASSUME NEW u \in Users, Suspend(u) PROVE Directory!Next
  <2>1. users' = [users EXCEPT ![u].active = FALSE] /\ UNCHANGED <<tokens, told>>
    BY <1>13 DEF Suspend
  <2>2. ASSUME NEW v \in Users PROVE Names(users'[v]) = Names(users[v])
    <3>1. users[v] \in UserRow
      BY ThereHasNames
    <3>2. users'[v].email = users[v].email /\ users'[v].phone = users[v].phone
      BY <2>1, <3>1 DEF IInv, TypeOK, UserRow
    <3>3. QED BY <3>2 DEF Names
  <2>3. QED BY <1>1, <2>1, <2>2, OnlySignsOut
<1>14. CASE UNCHANGED vars
  BY <1>2, <1>14 DEF vars
<1>15. QED
  BY <1>3, <1>4, <1>5, <1>6, <1>7, <1>8, <1>9, <1>10, <1>11, <1>12, <1>13, <1>14
     DEF Next, Continue

(* The identity commands, with their reads, their stale copies and their   *)
(* transactions, implement a directory in which every account, every name  *)
(* and every session changes at once: each commit of register_user.rs,     *)
(* login, refresh, the changes and the deletion is one change of it or     *)
(* none, for any number of calls.                                          *)
THEOREM CommandsKeepDirectory == Spec => KeepsDirectory
<1>1. Spec => Directory!Init
  BY DirectoryInit, PTL DEF Spec
<1>2. IInv /\ Carries /\ [Next]_vars => [Directory!Next]_DirectoryNow
  BY DirectoryStep
<1>3. Spec => [][Directory!Next]_DirectoryNow
  BY CarriesAlways, <1>2, PTL DEF Spec
<1>4. QED BY <1>1, <1>3, PTL DEF KeepsDirectory, Directory!Spec, Directory!vars,
        DirectoryNow, NamesNow, ClosedNow, HolderNow, LiveNow
=============================================================================
