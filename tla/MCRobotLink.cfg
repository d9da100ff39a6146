CONSTANTS
  r1 = r1
  r2 = r2
  None = None
  Robots <- MCRobots
  Alive = 3
  MaxDelay = 1
  MaxPause = 1
SPECIFICATION FairSpec
INVARIANTS TypeOK HeardIsServed
PROPERTIES SilentIsCutOff ComesBack
