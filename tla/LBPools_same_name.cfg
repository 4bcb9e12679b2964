SPECIFICATION FairSpec
CONSTANTS
  Specs <- MCSameName
  Adopted <- MCNothing
  PoolIDs = {p1, p2}
  ChildIDs = {x1, x2, x3, x4}
  Attrs <- MCAttrs
  HTTPAttrs <- MCHTTPAttrs
  HTTPKeys <- MCHTTPKeys
  Values = {1, 2}
  Default <- MCDefault
  None = None
  MaxFaults = 0
  MaxEdits = 0
  MaxCloud = 0
PROPERTIES
  UpstreamAgrees
