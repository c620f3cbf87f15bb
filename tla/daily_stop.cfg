\* Restarts between calls and before a decision; balance reads of a call may fail.
CONSTANTS
    MaxBalance = 5
    LastDay = 3
    Bankroll = 0
    Cfg <- AbsoluteLimit
    Faults <- Disturbed
SPECIFICATION Spec
INVARIANTS
    ReferenceIsTheDaysFirst
    NoEntryPastStop
    NoStopWithoutLoss
