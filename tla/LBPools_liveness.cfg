SPECIFICATION FairSpec
CONSTANTS
  Specs <- MCSpecs
  Adopted <- MCNothing
  PoolIDs = {p1, p2, p3}
  ChildIDs = {x1, x2, x3, x4}
  Attrs <- MCAttrs
  HTTPAttrs <- MCHTTPAttrs
  HTTPKeys <- MCHTTPKeys
  Values = {1, 2}
  Default <- MCDefault
  None = None
  MaxFaults = 1
  MaxEdits = 1
  MaxCloud = 0
PROPERTIES
  Converges
