CONSTANTS
    ioc = ioc
    gui = gui
    Handlers = {ioc,gui}
    JobsOf <- OneByte
    MaxJobs = 1
    NB = 1
    EAddrs = {0, 4}
    MaxTable = 2
SPECIFICATION Spec
PROPERTY SettingApplied
CHECK_DEADLOCK FALSE
