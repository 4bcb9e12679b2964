\* No fault at all: a deletion that overtakes the save of the UUID.
SPECIFICATION Spec
CONSTANTS
  Objects = {c1}
  UIDs = {u1}
  LBs = {f1, l1}
  Foreign = {f1}
  Zones = {z1}
  None = None
  OtherFinalizer = {FALSE}
  MaxFaults = 0
  MaxEdits = 0
  MaxCloud = 0
INVARIANTS
  NoOrphans
CHECK_DEADLOCK FALSE
