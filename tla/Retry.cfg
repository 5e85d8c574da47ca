CONSTANTS
  Calls = {c1, c2, c3}
  Attempts = 5
  None = None
SPECIFICATION FairSpec
INVARIANT IInv
PROPERTIES ImplementsRestCall CallReturns
