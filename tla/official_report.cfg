\* The 10M checkpoint of one window: a process and the one a deploy is
\* replacing, two assets, one fault; CloseAt is also the next window's band.
CONSTANTS
    Processes = {p1, p2}
    Assets = {"btc", "eth"}
    Outgoing = {p2}
    Views <- MCViews
    StableCycles = 2
    MarkAt = 1
    ForceAt = 2
    ExpireAt = 3
    BandEnd = 3
    CloseAt = 3
    LastTick = 3
    FollowDelay = 1
    Faults = {"crash", "error", "mute", "fail", "lost", "unqueued"}
    MaxFaults = 1
    MaxLag = 1
SPECIFICATION Spec
INVARIANTS OneReport OfficialMeansShown CreditFollowsTelegram
    ComparesWithRecord OneActiveEntry BandClosesWithReport
PROPERTY LooseEndsSettle
