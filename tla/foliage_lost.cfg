SPECIFICATION Spec
CONSTANTS
  Procs = {p1, p2, p3}
  Pinned = {}
  Leaves = {l0, l1, l2, l3}
  NoLeaf = NoLeaf
  Leaf0 = l0
  MaxCount = 4
INVARIANTS
  SubCountIsActive
SYMMETRY ConnectionsAndLeaves
