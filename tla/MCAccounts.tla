----------------------------- MODULE MCAccounts -----------------------------
EXTENDS AccountsProps, TLC

\* One admin, registered with an address and an unverified number; the other
\* ids are free.
OneAdmin ==
  LET first == CHOOSE u \in Users : TRUE IN
  [u \in Users |-> IF u # first THEN NoUser ELSE
     [ email |-> CHOOSE e \in Emails : TRUE, phone |-> CHOOSE n \in Phones : TRUE,
       pass |-> CHOOSE p \in Passwords : TRUE, role |-> "admin",
       active |-> TRUE, method |-> "password" ]]

Symmetry == Permutations(Tokens) \cup Permutations(Calls)

\* No call ends early: no crash, no failed statement, no timeout.
UnbrokenSpec == Init /\ [][Next /\ ~\E s \in Calls : GiveUp(s)]_vars
=============================================================================
