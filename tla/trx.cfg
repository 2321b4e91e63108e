\* Two sessions, two slots of one page.
SPECIFICATION Spec
CONSTANTS
  Session = {s1, s2}
  NumSlots = 2
  MaxTrx = 3
  MaxRow = 3
SYMMETRY Symmetry
INVARIANTS TypeOK StampsTracked Settled
PROPERTIES NoResurrection
