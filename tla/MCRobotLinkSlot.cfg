CONSTANTS
  r1 = r1
  r2 = r2
  None = None
  Robots <- MCRobots
  Alive = 1
  MaxDelay = 0
  MaxPause = 0
SPECIFICATION FairSpec
PROPERTY FeedbackIsRead
