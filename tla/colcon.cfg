SPECIFICATION CbSpec
CONSTANTS
  a1 = a1
  a2 = a2
  n1 = n1
  n2 = n2
  n3 = n3
  u = u
  v = v
  w = w
  x = x
  None = None
  Pkg = {a1, a2, n1, n2, n3}
  Workspaces <- Some
  Kind <- Kinds
  After <- Order
  Member = {n3}
  Iface = {u, v, w, x}
  Underlay = {u, v}
  IDeps <- IfaceDeps
  Uses <- Names
  Late <- Added
  CargoArgs = {"none", "--release"}
  MaxEdits = 1
  MaxFaults = 1
  MaxRetests = 1
  Faults = {"fail", "kill", "edit", "declare"}
INVARIANTS
  BuildsSeeBindings
  OkIsInstalled
PROPERTIES
  RunsEnd
