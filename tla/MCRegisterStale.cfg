\* A registration resumed after the TEE was restarted.
CONSTANTS
  Tees <- MCTees
  ImageOf <- MCImages
  Versions <- MCVersions
  Commands <- MCCommands
  MaxInstr = 9
  MaxFaults = 2
SPECIFICATION Spec
PROPERTIES RegisteredServes
