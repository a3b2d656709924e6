SPECIFICATION Spec
CONSTANTS
  c1 = c1
  c2 = c2
  other = other
  fifth = fifth
  safe = safe
  Call <- MCCall
  Guarded <- MCCall
  Risky <- MCRisky
  Twin <- MCTwin
  MaxApprove = 1
  MaxSiblings = 2
  None = None
PROPERTY ResultsNotReplayed
