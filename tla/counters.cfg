SPECIFICATION LoopSpec
CONSTANTS
  c1 = c1
  c2 = c2
  c3 = c3
  Conns <- MCConns
SYMMETRY Symmetry
VIEW View
INVARIANTS
  MaxCoversHalf
  MaxBelowTwicePeak
  ReportCovers
