\* One reservation at a time for both orders: repeated callbacks, partial failure,
\* deleted and failed CRs, orders left in process that the next one takes over.
CONSTANTS
  Reservations = {r1}
  Orders = {o1, o2}
  Robots = {rb}
  Quantity = 2
  MaxPending = 1
  MaxFaults = 1
SPECIFICATION FairSpec
INVARIANT TypeOK
PROPERTIES ReleasedAtEnd ReservationEnds NothingStaysReserved
CHECK_DEADLOCK FALSE
