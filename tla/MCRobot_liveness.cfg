\* A moveTrolley order under fairness; the mode changes, missions may fail.
SPECIFICATION FairSpec
CONSTANTS
    o1 = o1
    o2 = o2
    s1 = s1
    t1 = t1
    t2 = t2
    t3 = t3
    None = None
    Orders = {o1}
    SubOrders = {}
    PickOrders = {}
    Tasks = {t1}
    TasksOf <- MCOneTask
    TopOf <- MCNoTop
    NonHuTasks = {}
    MaxRetry = 1
    MaxFailedOrders = 1
    BatteryLevels = {50}
    BatteryMin = 10
    BatteryIdle = 40
    BatteryOk = 80
    ChargeTarget = 90
    Modes = {"RUN", "STOP"}
    MayFail = {"get", "return"}
    PromptWatch = TRUE
    OlderEvents = FALSE
INVARIANTS
    FirstBeforeSecond
PROPERTIES
    TrolleyReported
    QueueIsServed
