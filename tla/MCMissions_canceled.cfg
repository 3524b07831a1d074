SPECIFICATION Spec
CONSTANTS
    m1 = m1
    m2 = m2
    r1 = r1
    r2 = r2
    Missions = {m1}
    Robots = {r1}
    None = None
    ActionsOf <- OneMission
    Assignments <- OneRobot
    Kinds = {"mir"}
    PromptWatch = TRUE
    MaxRobotMissions = 5
    MaxPending = 3
    MaxDisturbances = 1
INVARIANTS
    DeletedIsCanceled
CHECK_DEADLOCK FALSE
