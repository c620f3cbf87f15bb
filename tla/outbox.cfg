\* Failing sends, lost answers, deadlines and a crash.
CONSTANTS
    Keys = {k1, k2}
    Callers = {c1}
    MaxAttempts = 2
    RawRetries = 0
    MaxCrashes = 1
    Faults <- Disturbed
SPECIFICATION Spec
INVARIANTS
    TypeOK
    DuplicatesAreExplained
    NothingStranded
    SentMeansShown
PROPERTY
    KeepsPromise
