SPECIFICATION UnbrokenSpec
CONSTANTS
  Users = {u1, u2}
  Emails = {e1, e2}
  Phones = {n1, n2}
  Tokens = {t1, t2}
  Passwords = {p1, p2}
  None = none
  Seeded <- OneAdmin
  OtpAvailable = TRUE
  Calls = {c1, c2}
  MaxCalls = 4
SYMMETRY Symmetry
CHECK_DEADLOCK FALSE
INVARIANTS SessionsOfThisPassword
