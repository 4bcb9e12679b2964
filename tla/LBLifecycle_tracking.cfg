\* No fault at all: a user sets the zone while the load balancer is created.
SPECIFICATION FairSpec
CONSTANTS
  Objects = {c1}
  UIDs = {u1}
  LBs = {l1}
  Foreign = {}
  Zones = {z1, z2}
  None = None
  OtherFinalizer = {FALSE}
  MaxFaults = 0
  MaxEdits = 1
  MaxCloud = 0
PROPERTIES
  CreatedIsTracked
CHECK_DEADLOCK FALSE
