\* No fault at all: an object names a load balancer that is not adopted.
SPECIFICATION Spec
CONSTANTS
  Objects = {c1}
  UIDs = {u1}
  LBs = {f1, l1}
  Foreign = {f1}
  Zones = {z1, z2}
  None = None
  OtherFinalizer = {FALSE}
  MaxFaults = 0
  MaxEdits = 0
  MaxCloud = 0
PROPERTIES
  DeletesOnlyManaged
CHECK_DEADLOCK FALSE
