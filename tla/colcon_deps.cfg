SPECIFICATION CbSpec
CONSTANTS
  a1 = a1
  a2 = a2
  n1 = n1
  n2 = n2
  n3 = n3
  u = u
  v = v
  w = w
  x = x
  None = None
  Pkg = {a1, a2, n1, n2, n3}
  Workspaces <- OnlyAment
  Kind <- Kinds
  After <- Order
  Member = {n3}
  Iface = {u, v, w, x}
  Underlay = {u, v}
  IDeps <- DeepDeps
  Uses <- Names
  Late <- Added
  CargoArgs = {"none", "--release"}
  MaxEdits = 1
  MaxFaults = 0
  MaxRetests = 1
  Faults = {"fail", "kill", "edit", "declare"}
INVARIANT
  BindingsAreComplete
