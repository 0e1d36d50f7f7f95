\* One trailing order, three prices, two broadcasts before the network calms, an
\* enclave restart.
CONSTANTS
  MaxOrder = 1
  Policies <- MCTrailingFirst
  Prices = {1, 2, 4}
  EarlyTx = 2
  MaxRestarts = 1
  MaxLag = 1
  MaxTx = 2
  settleAttempts = 1
  pendingDropChecks = 1
SPECIFICATION Spec
INVARIANTS TypeOK OneUnconfirmed NoncesAccounted ExecutedBacked
PROPERTIES RevealsOnlyCrossed
