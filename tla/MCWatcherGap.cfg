\* watcher.go, line 183: one transaction at a time prevents nonce gaps.
CONSTANTS
  MaxOrder = 2
  Policies <- MCFixedFirst
  Prices = {2, 4}
  EarlyTx = 2
  MaxRestarts = 0
  MaxLag = 0
  MaxTx = 4
  settleAttempts = 2
  pendingDropChecks = 2
SPECIFICATION Spec
INVARIANTS NoNonceGap
