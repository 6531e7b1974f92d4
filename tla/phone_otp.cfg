SPECIFICATION Spec
CONSTANTS
  Phones = {n1, n2}
  Ips = {i1}
  Users = {u1}
  None = none
  PhoneOf <- FirstPhone
  Challenges = {c1, c2}
  Calls = {s1, s2}
  Available = TRUE
  Resend = 1
  Life = 2
  Hour = 2
  Day = 2
  Keep = 3
  PerHour = 1
  PerDay = 1
  PerIp = 1
  MaxAttempts = 2
  MaxTime = 4
SYMMETRY Symmetry
CHECK_DEADLOCK FALSE
INVARIANTS TypeOK SpentAsMeant Bounded LimitsHold
