SPECIFICATION HostSpec
CONSTANTS
  a = a
  gcc = gcc
  gccNew = gccNew
  qemu = qemu
  west = west
  px4 = px4
  gatedSdk = gatedSdk
  here = here
  Nothing = Nothing
  Bad = Bad
  NoSource = NoSource
  Proc = {a}
  Prefix = {gcc, gccNew, qemu, west}
  Local = {}
  Source = {px4}
  Gated = {gatedSdk}
  Cwd = {here}
  Scratch <- MCScratch
  ScratchOf <- MCScratchOf
  ToolOf <- MCToolOf
  Recipe <- MCRecipe
  BuildSteps <- MCBuildSteps
  HasBin = {gccNew}
  Mode <- MCMode
  Shallow <- MCShallow
  Recursive <- MCRecursive
  Work <- WorkAlone
  Command <- CommandsAlone
  r1 = r1
  None = None
  Run = {r1}
  MaxVersion = 1
  Files = 2
  Extra = {1}
  Profiled = {0}
  Events = {"fail", "revert", "drop", "board", "source", "stale"}
  l1 = l1
  l2 = l2
  s1 = s1
  s2 = s2
  p1 = p1
  p2 = p2
  p3 = p3
  N = 2
  Free = Free
  Stranger = Stranger
  NoFile = NoFile
  Launch = {l1, l2}
  Stop = {s1, s2}
  Pid = {p1, p2, p3}
  Habits = {"relaunch", "overlap", "crash", "missing", "readonly"}
  nav = nav
  cam = cam
  arm = arm
  demo = demo
  other = other
  mcu = mcu
  fresh = fresh
  Pkg = {nav, cam, arm}
  Node <- MCNode
  Bringup = {demo, other}
  ComponentLists <- MCComponentLists
  Target = {mcu, fresh}
  Shape <- MCShape
  Absent = Absent
  Garbled = Garbled
  MaxCommands = 3
  MaxCuts = 1
INVARIANTS
  NodesKept
  OkMeansDone
  LockedAreInstalled
  OkIsUsable
  Stoppable
  ImageIsCurrent
PROPERTY SignalsOwnOnly
