\* An order that one robot reports an error of and another one gets.
SPECIFICATION Spec
CONSTANTS
    o1 = o1
    r1 = r1
    r2 = r2
    Orders = {o1}
    NTasks = 1
    Robots = {r1, r2}
    None = None
    MaxPending = 1
    MaxErrors = 1
    MaxFaults = 0
INVARIANTS
    OwnEntriesOnly
CHECK_DEADLOCK FALSE
