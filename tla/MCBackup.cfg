\* A backup with either adapter: up to five files and the end of the archive, so
\* up to three parts, the last one short; four failures.
SPECIFICATION FairSpec
CONSTANTS
    Callers = {"b1"}
    Bodies = {"urls", "successful", "failed"}
    MaxTries = 2
    Files = 5
    PartSize = 2
    MaxPuts = 3
    MaxFaults = 4
INVARIANTS TypeOK ListedWhole
 
