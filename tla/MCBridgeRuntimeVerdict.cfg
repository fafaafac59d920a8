SPECIFICATION Spec
CONSTANTS
  c1 = c1
  c2 = c2
  c3 = c3
  d1 = d1
  d2 = d2
  d3 = d3
  NoOne = NoOne
  Creates = {c1, c2}
  Downloads = {d1}
CHECK_DEADLOCK FALSE
SYMMETRY RequestSymmetry
INVARIANT NotCreatedIsTrue
