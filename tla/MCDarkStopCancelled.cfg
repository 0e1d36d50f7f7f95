\* One order, one run of the enclave.
CONSTANTS
  MaxUint = 1000000
  MaxOrders = 1
  Payloads <- MCPayloads
  Asks <- MCAsks
  Feeds <- MCFeeds
  MaxRuns = 1
SPECIFICATION Spec
INVARIANT CancelledForgotten
