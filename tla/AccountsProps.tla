--------------------------- MODULE AccountsProps ---------------------------
(***************************************************************************)
(* What accounts and sessions must guarantee, and what the comments of the *)
(* code promise of them.                                                   *)
(***************************************************************************)
EXTENDS Accounts

(***************************************************************************)
(* register_user.rs: looking the identifier up "only turns the common case *)
(* into a clear 409".  Two calls may both find an address free, and a      *)
(* stale copy may carry an address its account has given up; no two rows   *)
(* ever share an address or a number.                                      *)
(***************************************************************************)
OneAccountPerIdentifier ==
  \A i \in Identifiers : Cardinality(FindByIdentifier(i)) <= 1

(***************************************************************************)
(* The outbox and the table agree on which accounts there are: an account  *)
(* exists just when its registration was announced and its deletion was    *)
(* not, whatever was in progress when it was deleted.                      *)
(***************************************************************************)
AnnouncedExistence ==
  \A u \in Users :
    Exists(u) <=> /\ Event("registered", u, None) \in told
                  /\ Event("deleted", u, None) \notin told

(***************************************************************************)
(* delete_account.rs: "exactly one statement that can leave orphans".  A   *)
(* login or a refresh that read the account before its deletion cannot     *)
(* leave a session behind.                                                 *)
(***************************************************************************)
NoSessionWithoutAccount ==
  \A t \in Tokens : tokens[t].state \in {"live", "expired", "revoked"} =>
    Exists(tokens[t].user)

(***************************************************************************)
(* refresh_access_token.rs: "Implements refresh token rotation".  A token  *)
(* that was exchanged for a new one is never usable again, even when two   *)
(* calls exchange it at once; and the new one belongs to the same account. *)
(***************************************************************************)
RotatedIsDead ==
  \A t \in Tokens : LET p == tokens[t].parent IN
    p # None => ~Usable(p) /\ tokens[p].user = tokens[t].user

Names(row) == {row.email, row.phone} \ {None}

\* The directory of the rows that are there.
Directory == INSTANCE AccountDirectory WITH
  First <- [u \in Users |-> Names(Seeded[u])],
  names <- [u \in Users |-> Names(users[u])],
  closed <- { u \in Users : Event("deleted", u, None) \in told },
  holder <- [t \in Tokens |-> tokens[t].user],
  live <- { t \in Tokens : Usable(t) }

(***************************************************************************)
(* Whatever calls are in progress, with whatever stale copies, to everyone *)
(* who looks at the tables the accounts are a directory in which each      *)
(* change happens at once: a name is taken while it is nobody else's, a    *)
(* session is opened while its account is there, a saved copy changes      *)
(* nothing but an address, and what is gone stays gone.                    *)
(***************************************************************************)
KeepsDirectory == Directory!Spec

\* The account was an admin from the start, or was made one.
WasAdmin(u) ==
  \/ Seeded[u].role = "admin"
  \/ \E by \in Users : RoleEvent(u, "admin", by) \in told

(***************************************************************************)
(* Every admin can be traced through announced role changes, each made by  *)
(* an account that had been an admin itself, to the admins there were at   *)
(* the start: stale copies of a row may bring a lost role back but never   *)
(* a new one.                                                              *)
(***************************************************************************)
AdminsAreMade ==
  /\ \A u \in Users : users[u].role = "admin" => WasAdmin(u)
  /\ \A e \in told : e.by # None => WasAdmin(e.by)

(***************************************************************************)
(* change_password.rs: "Every refresh token is revoked afterwards", since  *)
(* "leaving their session alive would defeat the point".  Unless a change  *)
(* is still under way, a usable session of an account with a password was  *)
(* opened with the present one.                                            *)
(***************************************************************************)
SessionsOfThisPassword ==
  \A t \in Tokens : LET u == tokens[t].user IN
    /\ Usable(t) /\ users[u].method = "password"
    /\ \A s \in Calls : ~(call[s].kind = "password" /\ call[s].user = u)
    => tokens[t].under = users[u].pass
=============================================================================
