SPECIFICATION Spec
CONSTANTS
  loopback = loopback
  rmbg = rmbg
  here = here
  there = there
  nowhere = nowhere
  c1 = c1
  c2 = c2
  c3 = c3
  c4 = c4
  c5 = c5
  Names <- MCNames
  Libs <- MCLibs
  defaultLoadDir = "processors"
  additional <- MCAdditional
  Place <- MCPlace
  Missing = nowhere
  LibsAt <- MCLibsAt
  Resident = {}
  OnlyLooks = FALSE
  MaxLoads = 3
  Containers <- MCContainers
  MaxInits = 3
SYMMETRY Symmetry
CHECK_DEADLOCK FALSE
INVARIANTS
  AppInv
  ListedIsServed
  NothingLeaks
