CONSTANTS
  loop = loop
  sim = sim
  ui1 = ui1
  ui2 = ui2
  reader = reader
  Publishers <- MCPublishers
  Encoded <- MCEncoded
  Typed <- MCTyped
  MaxPublished = 2
SPECIFICATION FairSpec
INVARIANT NoLostWakeup
PROPERTIES NewestArrives ImplementsLatestValue
CHECK_DEADLOCK FALSE
