SPECIFICATION CalmBoth
CONSTANTS
  a = a
  b = b
  c = c
  gccA = gccA
  gccB = gccB
  qemu = qemu
  sim = sim
  west = west
  Nothing = Nothing
  Bad = Bad
  Proc = {a, b}
  Prefix = {gccA, gccB, qemu, sim, west}
  Scratch <- MCScratch
  ScratchOf <- MCScratchOf
  Recipe <- MCRecipe
  BuildSteps <- MCBuildSteps
  Work <- WorkVersions
  zephyr = zephyr
  lvgl = lvgl
  px4 = px4
  local = local
  NoSource = NoSource
  Runner = {a, b}
  Source = {zephyr, lvgl, px4, local}
  Mode <- MCMode
  Shallow <- MCShallow
  Recursive <- MCRecursive
INVARIANT
  UnpacksVerified
