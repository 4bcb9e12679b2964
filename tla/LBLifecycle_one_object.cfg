\* One object, one load balancer to adopt, one fault, one edit and one change
\* behind the controller's back.  The system rests once the object is gone.
SPECIFICATION Spec
CONSTANTS
  Objects = {c1}
  UIDs = {u1}
  LBs = {f1, l1, l2}
  Foreign = {f1}
  Zones = {z1, z2}
  None = None
  OtherFinalizer = {FALSE}
  MaxFaults = 1
  MaxEdits = 1
  MaxCloud = 1
SYMMETRY Symmetry
INVARIANTS
  TypeOK
  OneLoadBalancerPerObject
PROPERTIES
  NoLostWrite
  FinalizedMeansDeleted
CHECK_DEADLOCK FALSE
