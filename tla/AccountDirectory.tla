-------------------------- MODULE AccountDirectory --------------------------
(***************************************************************************)
(* What the identity commands promise of accounts, without calls in        *)
(* progress, copies of rows or transactions: a directory in which every    *)
(* change happens at once.  An account is there while it has a name, its   *)
(* name is nobody else's, it keeps its number for life, and once it is     *)
(* deleted it and its sessions never come back.                            *)
(***************************************************************************)
CONSTANTS
  Users, Emails, Phones, Tokens, None,
  First        \* the names of the accounts at the start

VARIABLES
  names,       \* the identifiers that find an account
  closed,      \* the accounts that were deleted
  holder,      \* the account a token was issued to
  live         \* the tokens that can be exchanged

vars == <<names, closed, holder, live>>

Init ==
  /\ names = First /\ closed = {}
  /\ holder = [t \in Tokens |-> None] /\ live = {}

There(u) == names[u] # {}

\* Nobody but u has one of these names.
Free(S, u) == \A v \in Users \ {u} : S \cap names[v] = {}

\* A token is issued once, perhaps in exchange for old ones.
Issue(t, u, old) ==
  /\ holder[t] = None
  /\ holder' = [holder EXCEPT ![t] = u] /\ live' = (live \ old) \cup {t}

SignUp(u, i, t) ==
  /\ ~There(u) /\ u \notin closed /\ Free({i}, u)
  /\ names' = [names EXCEPT ![u] = {i}]
  /\ Issue(t, u, {}) /\ UNCHANGED closed

SignIn(u, t) == There(u) /\ Issue(t, u, {}) /\ UNCHANGED <<names, closed>>

\* Two exchanges of one token may both succeed; it is dead after the first.
Renew(u, old, t) ==
  /\ There(u) /\ holder[old] = u
  /\ Issue(t, u, {old}) /\ UNCHANGED <<names, closed>>

SignOut ==
  /\ live' \subseteq live /\ UNCHANGED <<names, closed, holder>>

\* Another address, or an earlier one from a stale copy, or none.
Readdress(u) ==
  /\ There(u)
  /\ \E E \in {{}} \cup { {e} : e \in Emails } :
       LET S == E \cup (names[u] \cap Phones) IN
       /\ S # {} /\ Free(S, u)
       /\ names' = [names EXCEPT ![u] = S]
  /\ UNCHANGED <<closed, holder, live>>

Close(u) ==
  /\ There(u)
  /\ names' = [names EXCEPT ![u] = {}] /\ closed' = closed \cup {u}
  /\ live' = { t \in live : holder[t] # u } /\ UNCHANGED holder

Next ==
  \/ SignOut
  \/ \E u \in Users :
       \/ Readdress(u) \/ Close(u)
       \/ \E t \in Tokens :
            \/ SignIn(u, t)
            \/ \E i \in Emails \cup Phones : SignUp(u, i, t)
            \/ \E old \in Tokens : Renew(u, old, t)

Spec == Init /\ [][Next]_vars
=============================================================================
