\* Two orders: they share the nonces, and neither can starve the other.
CONSTANTS
  MaxOrder = 2
  Policies <- MCTrailingFirst
  Prices = {2, 4}
  EarlyTx = 1
  MaxRestarts = 0
  MaxLag = 1
  MaxTx = 3
  settleAttempts = 2
  pendingDropChecks = 2
SPECIFICATION FairSpec
INVARIANTS OneUnconfirmed NoncesAccounted
PROPERTIES SettlesUnlessStranded IdleClears
