\* Two callbacks look for orders at the same time.
CONSTANTS
  Reservations = {r1, r2}
  Orders = {o1}
  Robots = {rb}
  Quantity = 1
  MaxPending = 1
  MaxFaults = 0
SPECIFICATION Spec
INVARIANT ReservedOnce
SYMMETRY Symmetry
CHECK_DEADLOCK FALSE
