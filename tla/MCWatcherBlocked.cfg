\* watcher.go, lines 46-48: a broadcast cannot block an order forever.
CONSTANTS
  MaxOrder = 1
  Policies <- MCFixedFirst
  Prices = {2, 4}
  EarlyTx = 2
  MaxRestarts = 0
  MaxLag = 0
  MaxTx = 4
  settleAttempts = 2
  pendingDropChecks = 2
SPECIFICATION FairSpec
PROPERTIES NeverBlockedForever
