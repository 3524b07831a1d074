\* A moveTrolley order with a second task that is no handling unit, and a pickPackPass order with a sub order.
SPECIFICATION Spec
CONSTANTS
    o1 = o1
    o2 = o2
    s1 = s1
    t1 = t1
    t2 = t2
    t3 = t3
    None = None
    Orders = {o1, o2}
    SubOrders = {s1}
    PickOrders = {o2}
    Tasks = {t1, t2, t3}
    TasksOf <- MCTwoOrders
    TopOf <- MCPickTop
    NonHuTasks = {t2}
    MaxRetry = 1
    MaxFailedOrders = 0
    BatteryLevels = {50}
    BatteryMin = 10
    BatteryIdle = 40
    BatteryOk = 80
    ChargeTarget = 90
    Modes = {"RUN"}
    MayFail = {"move"}
    PromptWatch = TRUE
    OlderEvents = FALSE
INVARIANTS
    TypeOK
    NoContextLoss
    FinalizerHeld
    FirstBeforeSecond
PROPERTIES
    OrderClosedFirst
