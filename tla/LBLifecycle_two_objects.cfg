\* Two objects, one fault, and a project with room for one load balancer, which
\* the second object may name, also before the first has recorded it.  The
\* system rests once both objects are gone.
SPECIFICATION Spec
CONSTANTS
  Objects = {c1, c2}
  UIDs = {u1, u2}
  LBs = {l1}
  Foreign = {}
  Zones = {z1}
  None = None
  OtherFinalizer = {FALSE}
  MaxFaults = 1
  MaxEdits = 0
  MaxCloud = 0
SYMMETRY Symmetry
PROPERTIES
  DeletesOnlyForDeletion
CHECK_DEADLOCK FALSE
