SPECIFICATION FairWfSpec
CONSTANTS
  a = a
  b = b
  geo = geo
  nav = nav
  std = std
  None = None
  Partial = Partial
  Pkg = {geo, nav, std}
  Deps <- MCDeps
  Sum <- MCSum
  Project = {a, b}
  MaxVersion = 1
  Habits <- MCHabits
INVARIANTS
  CompleteUnlessInterrupted
PROPERTIES
  CacheIsTrue
  RunEnds
