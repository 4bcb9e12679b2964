\* One object and one fault, with the fairness of the controller's scheduling.
\* The system rests once the object is gone.
SPECIFICATION FairSpec
CONSTANTS
  Objects = {c1}
  UIDs = {u1}
  LBs = {f1, l1}
  Foreign = {f1}
  Zones = {z1, z2}
  None = None
  OtherFinalizer = {TRUE, FALSE}
  MaxFaults = 1
  MaxEdits = 0
  MaxCloud = 0
PROPERTIES
  DeletionCompletes
  Served
CHECK_DEADLOCK FALSE
