\* Battery levels and modes around one moveTrolley order; staging and charge missions may fail.
SPECIFICATION Spec
CONSTANTS
    o1 = o1
    o2 = o2
    s1 = s1
    t1 = t1
    t2 = t2
    t3 = t3
    None = None
    Orders = {o1}
    SubOrders = {}
    PickOrders = {}
    Tasks = {t1}
    TasksOf <- MCOneTask
    TopOf <- MCNoTop
    NonHuTasks = {}
    MaxRetry = 1
    MaxFailedOrders = 1
    BatteryLevels = {5, 20, 95}
    BatteryMin = 10
    BatteryIdle = 40
    BatteryOk = 80
    ChargeTarget = 90
    Modes = {"RUN", "CHARGE", "STOP"}
    MayFail = {"staging", "charge"}
    PromptWatch = TRUE
    OlderEvents = FALSE
INVARIANTS
    MissionMatchesState
    TrolleyMissionsTracked
