\* Two usable ids; a sample seeds for one second and is fresh for two.
CONSTANTS
  MaxOrder = 2
  Prices = {0, 1, 2, 3, 4}
  Policies <- MCPolicies
  trailingSampleMaxAge = 1
  settleMaxAgeSec = 2
  MaxTime = 2
SPECIFICATION Spec
INVARIANTS TypeOK OnePolicy WatermarkHighest
PROPERTIES FiresExactly TriggerNeverLoosens
