CONSTANTS
  r1 = r1
  r2 = r2
  r3 = r3
  x = x
  NoId = NoId
  Robots <- MCRobots
  Ids <- MCIds
SPECIFICATION Spec
SYMMETRY RobotSymmetry
INVARIANTS MirrorAgrees TaskMatchesReferee HoldsStill PassHasTwoEnds
PROPERTIES ImplementsLifecycle KeeperStaysHome ActedIsOrdered PassStaysAlive TakerPlaysOnce
