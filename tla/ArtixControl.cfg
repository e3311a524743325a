CONSTANTS
    ioc = ioc
    gui = gui
    Handlers = {ioc}
    JobsOf <- OneClient
    MaxJobs = 3
    NB = 4
    EAddrs = {0, 1, 2, 3, 4, 5, 6, 7}
    MaxTable = 2
SPECIFICATION FairSpec
INVARIANTS TypeOK NoTornCommand
PROPERTIES SettingApplied SettingEnds
CHECK_DEADLOCK FALSE
