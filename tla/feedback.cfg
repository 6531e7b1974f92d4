SPECIFICATION Spec
CONSTANTS
  Owners = {o1, o2}
  None = none
  Last = 2
  Requests = {q1, q2}
  PerIp = 2
  PerOwner = 1
  MaxEdits = 1
  MaxFaults = 1
SYMMETRY Symmetry
CHECK_DEADLOCK FALSE
INVARIANTS TypeOK ReceiptsAreReal ShownBelong LimitsHold
PROPERTY NeverOlder
