\* One order of two tasks: calls that fail, a restart, an error, a person.
SPECIFICATION FairSpec
CONSTANTS
    o1 = o1
    r1 = r1
    r2 = r2
    Orders = {o1}
    NTasks = 2
    Robots = {r1}
    None = None
    MaxPending = 1
    MaxErrors = 1
    MaxFaults = 1
INVARIANTS
    TypeOK
    ProcessedIsBooked
    BookedInSequence
    ErrorReportedOnce
PROPERTIES
    ConfirmationsArrive
    DoneIsClosed
    AssignedArrives
CHECK_DEADLOCK FALSE
