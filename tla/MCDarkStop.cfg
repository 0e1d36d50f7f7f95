\* One order, two runs of the enclave, seven plaintexts besides the form's.
CONSTANTS
  MaxUint = 1000000
  MaxOrders = 1
  Payloads <- MCPayloads
  Asks <- MCAsks
  Feeds <- MCFeeds
  MaxRuns = 2
SPECIFICATION FairSpec
INVARIANTS TypeOK OneReading AsTyped ExecutedAsAsked
PROPERTIES PricesAgree FixedGetsArmed
