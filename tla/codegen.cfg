SPECIFICATION Spec
CONSTANTS
  Package <- MCPackage
  Interface <- MCInterface
  Files <- MCFiles
  Library <- MCLibrary
  MaxI64 <- MCMaxI64
  MaxU64 <- MCMaxU64
  plain = plain
  ofGeo = ofGeo
  ofStd = ofStd
  labelled = labelled
  bad = bad
  newGeo = newGeo
  newStd = newStd
  None = None
  Pkg <- MCPkg
  NewName <- MCNewName
  File <- MCFile
  Kind <- MCKind
  Text = {plain, ofGeo, ofStd, labelled, bad}
  Broken = bad
  Uses <- MCUses
  Injected <- MCInjected
  Quoted <- MCQuoted
  Worlds <- MCWorlds
  MaxEdits = 1
  MaxKills = 1
  MaxRuns = 3
  Builds <- MCBuilds
  Canonical <- MCCanonical
  Declared = {"chatter", "scan"}
  MaxSeen = 2
  Plans <- MCPlans
  MaxWait = 2
  MaxCalls = 1
  talker = talker
  motor = motor
  demo = demo
  left = left
  arm = arm
  robot = robot
  a = a
  b = b
  r1 = r1
  r2 = r2
  Missing = Missing
  Torn = Torn
  System = System
  Run = {r1, r2}
  Workspaces <- MCWorkspaces
  Requests <- MCRequests
  Ident <- MCIdent
  ModuleParts <- MCModuleParts
  Habits <- MCHabits
INVARIANTS
  InterfacesParsed
  ValuesTravel
  NamesResolve
  BindingsAreCurrent
  StartedAsPlanned
  BridgesDeliver
  BakesAreTrue
PROPERTIES
  HaltEnds
  OwnFilesDecide
CHECK_DEADLOCK FALSE
