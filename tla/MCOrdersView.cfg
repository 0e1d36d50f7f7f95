\* Two orders, two prices.
CONSTANTS
  MaxOrders = 2
  Prices = {1, 2}
SPECIFICATION FairSpec
INVARIANTS EndsAreTrue ViewComplete
PROPERTIES ViewNeverRegresses ViewCurrent
