\* complete listings, restarts at any moment
SPECIFICATION Spec
CONSTANTS
  m1 = m1
  m2 = m2
  Markets = {m1, m2}
  Thresholds = {60, 75}
  MaxPrice = 95
  Prices = {50, 65, 80, 97}
  Disturbances = {"restart"}
  MaxRows = 3
INVARIANTS TypeOK AddsFollowClimb OpenRungNotDoubled
SYMMETRY MCSymmetry
CHECK_DEADLOCK FALSE
