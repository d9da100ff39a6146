CONSTANTS
  c1 = c1
  c2 = c2
  Clients = {c1, c2}
  Files <- MCFiles
  Deltas <- MCDeltas
SPECIFICATION Spec
INVARIANTS TypeOK ShowsPrefix
PROPERTY ClientShows
