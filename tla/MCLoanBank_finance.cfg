\* One loan, every family name, from application to refund; the merchant repeats a
\* request until it is answered, and testers confirm and charge out of turn.
CONSTANTS
  Loans = {l1}
  Reusing = {}
  Endings = {"AA", "DD", "other", "missing"}
  Stray = {"confirmation", "charge"}
  MaxCopies = 1
SPECIFICATION FairSpec
INVARIANTS TypeOK FinancedOnlyIfAccepted ResponsesFitSchema
PROPERTIES ImplementsContract AcceptedIsCharged ApplicationIsDecided
