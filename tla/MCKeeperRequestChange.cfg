CONSTANTS
  k0 = k0
  k1 = k1
  k2 = k2
  NoKeeper = NoKeeper
  Keepers <- MCKeepers
  DefaultKeeper = k0
  Capacity = 2
  MaxSelections = 3
  MaxOthers = 1
SPECIFICATION Spec
PROPERTY ChangeIsRequested
