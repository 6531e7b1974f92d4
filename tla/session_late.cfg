SPECIFICATION Spec
CONSTANTS
  Accounts = {a, b}
  Words = {w}
  None = none
  Guest = guest
  MaxTokens = 3
SYMMETRY Symmetry
INVARIANT SeparateNotebooks
