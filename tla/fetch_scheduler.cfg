\* One asset and its details over three windows; one of two threads may hang.
SPECIFICATION FairSpec
CONSTANTS
    a = a
    Assets <- MCAssets
    Workers = 2
    MaxWindow = 3
    MaxHung = 1
    Detailed <- MCAssets
INVARIANTS
    TypeOK
    VolumeIsOwn
PROPERTIES
    NeverGoesBack
    LiveMarketIsServed
