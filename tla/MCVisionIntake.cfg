CONSTANTS
  cam = cam
  tracker = tracker
  None = None
  Cameras <- MCCameras
  Trackers <- MCTrackers
  Window = 1
  Invalid = 2
  History = 3
  BounceTime = 1
  ClockGap = 5
  Skew <- MCSkew
  MaxTime = 4
  MaxDelay = 3
  MaxInbox = 2
  MaxArrivals = 5
SPECIFICATION Spec
INVARIANTS TypeOK OncePerFrame RestsOnMeasurement
PROPERTIES NumberFollowsClock NoGhost
CHECK_DEADLOCK FALSE
