SPECIFICATION FairSpec
CONSTANTS
    Servers = {s1, s2}
    Workers = 1
    MaxFaults = 2
INVARIANTS TypeOK PickedUp  SuspensionEnforced
PROPERTY BootFinishes
