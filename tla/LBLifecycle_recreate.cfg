\* An object that is deleted and created again under its name, perhaps with
\* another controller's finalizer, and one fault.  The system rests at last.
SPECIFICATION Spec
CONSTANTS
  Objects = {c1}
  UIDs = {u1, u2}
  LBs = {l1, l2}
  Foreign = {}
  Zones = {z1}
  None = None
  OtherFinalizer = {TRUE, FALSE}
  MaxFaults = 1
  MaxEdits = 0
  MaxCloud = 0
SYMMETRY Symmetry
INVARIANTS
  CreatesUnderFinalizer
PROPERTIES
  FinalizedMeansDeleted
  RecordsItsOwn
CHECK_DEADLOCK FALSE
