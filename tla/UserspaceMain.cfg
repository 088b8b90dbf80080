SPECIFICATION FairSpec
CONSTANTS
    Signal = {c1, c2}
    MaxKeys = 2
INVARIANTS
    ExitReleasesAll
    LocksLive
PROPERTY StopEnds
