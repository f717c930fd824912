SPECIFICATION RootSpec
CONSTANTS
  Row <- MCRow
  Key <- MCKey
  KindOf <- MCKindOf
  Legacy <- MCLegacy
  Store = {p, q}
  Writer = {p, q}
  Write = {u, v}
  Bookkeeping = {u}
  MaxRevision = 2
  NoStore = none
  NoWrite = nothing
  MaxEntries = 2
  MaxTears = 1
SYMMETRY MCSymmetry
INVARIANTS
  Consistent
  MigrationKeeps
  ChainHolds
PROPERTIES
  ImplementsLog
CHECK_DEADLOCK FALSE
