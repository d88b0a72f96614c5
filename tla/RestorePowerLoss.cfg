SPECIFICATION ReadingSpec
CONSTANTS
    Parts = {"restore"}
    Requests <- MCRequests
    RetainedCap = 7
    MaxFaults = 3
    RestoreArchives <- MCLinksOnly
    RestoreRoots <- MCEmpty
    RestoreOptions <- MCStream
    RestoreFaults = 0
INVARIANT SurvivesPowerLoss
