SPECIFICATION FairSpec
CONSTANTS
  Specs <- MCHostRemoved
  Adopted <- MCNothing
  PoolIDs = {p1}
  ChildIDs = {x1, x2}
  Attrs <- MCAttrs
  HTTPAttrs <- MCHTTPAttrs
  HTTPKeys <- MCHTTPKeys
  Values = {1, 2}
  Default <- MCDefault
  None = None
  MaxFaults = 0
  MaxEdits = 1
  MaxCloud = 0
PROPERTIES
  UpstreamAgrees
