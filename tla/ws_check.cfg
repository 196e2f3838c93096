SPECIFICATION WsSpec
CONSTANTS
  geo = geo
  comp = comp
  near = near
  mid = mid
  far = far
  entry = entry
  std = std
  time = time
  core = core
  mine = mine
  ws = ws
  None = None
  Partial = Partial
  Pkg = {geo, comp, near, mid, far, entry}
  Msg = {geo}
  Rust = {comp, near, mid, far, entry}
  Ament = {std, time}
  Members = {geo, comp, entry}
  PathDeps <- MCPathDeps
  Unseen <- MCUnseen
  DepChoices <- MCDepChoices
  Uses <- MCUses
  Root = {ws, entry}
  Top = ws
  Workspace = {}
  Sorted <- MCSorted
  Runtime <- MCRuntime
  Manifests <- MCManifests
  UserLines <- MCUserLines
  MaxVersion = 1
  Budget = 1
  Habits <- MCEdits
INVARIANT CheckPassesAfterSync
