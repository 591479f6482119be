SPECIFICATION ServerSpec
CONSTANTS
    Volumes <- AllVolumes
    Dsns = {TRUE, FALSE}
    MaxChanges = 3
INVARIANT ReadyMeansMigrated
