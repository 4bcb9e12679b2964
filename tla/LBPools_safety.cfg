SPECIFICATION Spec
CONSTANTS
  Specs <- MCSpecs
  Adopted <- MCAdopted
  PoolIDs = {p1, p2}
  ChildIDs = {x1, x2, x3, x4}
  Attrs <- MCAttrs
  HTTPAttrs <- MCHTTPAttrs
  HTTPKeys <- MCHTTPKeys
  Values = {1, 2}
  Default <- MCDefault
  None = None
  MaxFaults = 1
  MaxEdits = 2
  MaxCloud = 1
SYMMETRY Symmetry
INVARIANTS
  TypeOK
  OneChildPerPool
  NoTwinPools
  PassIsComplete
