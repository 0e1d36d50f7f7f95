\* Two TEEs with different images, three version names, two faults.
CONSTANTS
  Tees <- MCTees
  ImageOf <- MCImages
  Versions <- MCVersions
  Commands <- MCCommands
  MaxInstr = 9
  MaxFaults = 2
SPECIFICATION FairSpec
INVARIANTS TypeOK AllowedIsSupported
PROPERTIES OwnStateServes Converges
