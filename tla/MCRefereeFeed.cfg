CONSTANTS
  MaxAge = 2
  MaxDelay = 3
  MaxCommands = 3
  MaxJumps = 1
  Skews <- MCSkews
SPECIFICATION FairSpec
INVARIANTS TypeOK SilenceHalts SupersededDiesOut
PROPERTIES NoLateRelapse Recovers
