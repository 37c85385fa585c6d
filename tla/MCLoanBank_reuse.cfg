\* One loan that draws on an existing credit line.
CONSTANTS
  Loans = {l1}
  Reusing = {l1}
  Endings = {"AA"}
  Stray = {}
  MaxCopies = 1
SPECIFICATION Spec
INVARIANTS ReuseNamesLoan
