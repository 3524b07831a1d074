SPECIFICATION FairSpec
CONSTANTS
    m1 = m1
    m2 = m2
    r1 = r1
    r2 = r2
    Missions = {m1, m2}
    Robots = {r1, r2}
    None = None
    ActionsOf <- TwoMissions
    Assignments <- OneOrTwoRobots
    Kinds = {"mir", "fetch", "dummy"}
    PromptWatch = TRUE
    MaxRobotMissions = 3
    MaxPending = 2
    MaxDisturbances = 1
PROPERTIES
    ServiceKept
    MissionEnds
CHECK_DEADLOCK FALSE
