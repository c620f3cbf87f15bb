\* The process restarts after a call; balance reads of a call may fail.
CONSTANTS
    MaxBalance = 5
    LastDay = 3
    Bankroll = 0
    Cfg <- AbsoluteLimit
    Faults = {"restart", "fire_read"}
SPECIFICATION Spec
INVARIANT StopSurvivesRestart
