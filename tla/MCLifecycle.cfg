\* Two requests of any kind, a power action, one failure.
SPECIFICATION FairSpec
CONSTANTS
    Jobs = {j1, j2}
    MaxFaults = 1
INVARIANTS TypeOK Guarded InstallHonest WritesAlone
PROPERTY FlagsReleased
