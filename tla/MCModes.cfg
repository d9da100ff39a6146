CONSTANTS
  r1 = r1
  r2 = r2
  x = x
  NoId = NoId
  NoPacket = NoPacket
  Robots <- MCRobots
  Ids <- MCIds
  RobotList <- MCRobotList
  Packets <- MCPackets
  OurTeams <- MCTeams
  Keepers <- MCKeepers
  Commands <- MCCommands
SPECIFICATION ModesSpec
INVARIANT ModesTypeOK
PROPERTIES Stilled OperatorHeard
