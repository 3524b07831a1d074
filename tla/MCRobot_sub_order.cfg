\* A pickPackPass order and its sub order under fairness.
SPECIFICATION FairSpec
CONSTANTS
    o1 = o1
    o2 = o2
    s1 = s1
    t1 = t1
    t2 = t2
    t3 = t3
    None = None
    Orders = {o2}
    SubOrders = {s1}
    PickOrders = {o2}
    Tasks = {t3}
    TasksOf <- MCPickOrder
    TopOf <- MCPickTop
    NonHuTasks = {t3}
    MaxRetry = 1
    MaxFailedOrders = 1
    BatteryLevels = {50}
    BatteryMin = 10
    BatteryIdle = 40
    BatteryOk = 80
    ChargeTarget = 90
    Modes = {"RUN"}
    MayFail = {}
    PromptWatch = TRUE
    OlderEvents = FALSE
PROPERTIES
    SubOrderTakenUp
