SPECIFICATION Spec
CONSTANTS
  Nobody = Nobody
  Server = {s1, m1}
  Manual = {m1}
  Slot = {x1, x2}
  MaxAttempts = 3
  MaxSockets = 3
  Ops <- AllOps
SYMMETRY SlotSymmetry
CHECK_DEADLOCK FALSE
INVARIANTS TypeOK BusyReleased FramesOfSelected OneSubscription ConnectedIsHeard NoOrphan
PROPERTIES NeverAnotherServer KeepsTrying
