SPECIFICATION ReadsSpec
CONSTANTS
  Ids = {i1, i2}
  Docs = {run, stop}
  StoppedDocs = {stop}
  Procs = {p1, p2}
  Missing = Missing
  Bare = Bare
  NoProc = NoProc
SYMMETRY StoreSymmetry
INVARIANTS
  LoadIsLinearizable
  ListIsSnapshot
PROPERTIES
  ImplementsInventory
