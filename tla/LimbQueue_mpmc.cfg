\* Two pushers and two poppers on two cells, one value more than cells.  No
\* symmetry: a PROPERTY is checked.
SPECIFICATION Spec
CONSTANTS
  Pushers = {p1, p2}
  Poppers = {c1, c2}
  Values = {v1, v2, v3}
  None = None
  Size = 2
INVARIANTS RingInv CellOwnersExclusive FullIsJustified EmptyIsJustified TakesOwnPosition
PROPERTY FifoSpec
