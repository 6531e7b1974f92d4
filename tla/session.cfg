SPECIFICATION Spec
CONSTANTS
  Accounts = {a, b}
  Words = {w}
  None = none
  Guest = guest
  MaxTokens = 3
SYMMETRY Symmetry
INVARIANTS TypeOK KeptApart OneAccount NotForgotten
PROPERTIES Survives
