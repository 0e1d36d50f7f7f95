\* Two orders, two accounts that may call, be the executor and re-enter.
CONSTANTS
  deployer = deployer
  alice = alice
  none = none
  Accounts <- MCAccounts
  OWNER <- deployer
  NoAccount <- none
  MaxOrders = 2
  INSTRUCTION_FEE = 1
  Values = {1, 4}
  Prices = {1, 2}
  MAX_PRICE_AGE_SEC = 1
  MaxTime = 2
  Unit = 2
  Mints = {3}
  MaxMinted = 3
  MaxDepth = 2
  MaxExtensions = 2
SPECIFICATION InsistSpec
INVARIANTS TypeOK OneTransfer VaultSolvent InstructionsMatch
PROPERTIES SettlesFresh ImplementsLifecycle ReclaimWhenServed
